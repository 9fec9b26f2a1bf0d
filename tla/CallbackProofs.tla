--------------------------- MODULE CallbackProofs ---------------------------
(***************************************************************************)
(* The safety of the callback pump, for any set of events, any limit of     *)
(* attempts, any number of failing database calls and crashes.              *)
(***************************************************************************)
EXTENDS CallbackPump, TLAPS

Lost == spent.faults + spent.crashes

\* A row the pump knows of is pending with the attempt the pump has read, or was deleted
\* with its job: nothing but the pump ends a row.
Fresh(r) ==
  /\ cb[r.cb].state \in {"pending", "deleted"}
  /\ cb[r.cb].state = "pending" => cb[r.cb].attempt = r.attempt

\* The rows the pump still has to send.
Todo ==
  /\ \A r \in pump.todo :
       /\ Fresh(r) /\ r.attempt < MaxAttempts
       /\ r.attempt <= sends[r.cb] /\ sends[r.cb] <= r.attempt + Lost
  /\ \A r, q \in pump.todo : r.cb = q.cb => r = q

\* The row the pump is at: posted once more than counted, or counted and to be marked.
Current ==
  /\ pump.pc # "idle" =>
       /\ pump.cur \in Seen
       /\ \A r \in pump.todo : r.cb # pump.cur.cb
       /\ cb[pump.cur.cb].state \in {"pending", "deleted"}
       /\ sends[pump.cur.cb] <= pump.cur.attempt + 1 + Lost
       /\ pump.cur.attempt < MaxAttempts
  /\ pump.pc \in {"progress", "fail"} =>
       /\ Fresh(pump.cur)
       /\ pump.cur.attempt + 1 <= sends[pump.cur.cb]
  /\ pump.pc \in {"progress", "sent"} => pump.cur.cb \in acked

\* The rows the pump has nothing to do with at the moment.
Flying(e) == pump.pc \in {"progress", "fail"} /\ pump.cur.cb = e

Rows ==
  \A e \in Event :
    /\ cb[e].state = "none" => sends[e] = 0
    /\ cb[e].state = "pending" =>
         /\ cb[e].attempt < MaxAttempts
         /\ cb[e].attempt <= sends[e]
         /\ ~Flying(e) => sends[e] <= cb[e].attempt + Lost
    /\ cb[e].state = "sent" => e \in acked

IInv == TypeOK /\ Todo /\ Current /\ Rows /\ SendsBounded /\ GivenUpLate
-----------------------------------------------------------------------------
(* A statement on a row changes that row at most, and fails only at a cost. *)
LEMMA UpdateEffect ==
  ASSUME TypeOK, NEW e \in Event, NEW row \in [state: State, attempt: Nat], Update(e, row)
  PROVE  /\ cb' \in [Event -> [state: State, attempt: Nat]]
         /\ spent' \in [faults: Nat, crashes: Nat]
         /\ Lost \in Nat /\ Lost' \in Nat /\ Lost' >= Lost
         /\ \A d \in Event : d # e => cb'[d] = cb[d]
         /\ \/ cb'[e] = cb[e] /\ (InTable(e) => Lost' = Lost + 1)
            \/ InTable(e) /\ cb'[e] = row /\ Lost' = Lost
<1>1. CASE cb' = (IF InTable(e) THEN [cb EXCEPT ![e] = row] ELSE cb) /\ UNCHANGED spent
  BY <1>1 DEF TypeOK, InTable, Lost
<1>2. CASE Spend("faults", MaxFaults) /\ UNCHANGED cb
  <2>1. spent'.faults = spent.faults + 1 /\ spent'.crashes = spent.crashes
    BY <1>2 DEF Spend, TypeOK
  <2>2. spent' \in [faults: Nat, crashes: Nat]
    BY <1>2 DEF Spend, TypeOK
  <2> QED BY <1>2, <2>1, <2>2 DEF TypeOK, Lost
<1> QED BY <1>1, <1>2 DEF Update

(* The pump writes the row it is at, and rests or, after a counted 2xx, goes on. *)
LEMMA MarkIInv ==
  ASSUME IInv, pump.pc # "idle", UNCHANGED <<sends, acked>>,
         NEW row \in [state: State, attempt: Nat], Update(pump.cur.cb, row),
         InTable(pump.cur.cb) =>
           \/ row.state = "dead" /\ sends[pump.cur.cb] >= MaxAttempts
           \/ row.state = "sent" /\ pump.cur.cb \in acked
           \/ /\ row.state = "pending" /\ row.attempt < MaxAttempts
              /\ row.attempt = pump.cur.attempt + 1 /\ Flying(pump.cur.cb),
         \/ pump' = Rest
         \/ /\ pump.pc = "progress" /\ pump' = [pump EXCEPT !.pc = "sent"]
            /\ InTable(pump.cur.cb) => row.state = "pending"
  PROVE  IInv'
<1> DEFINE e == pump.cur.cb
<1> USE CallbackAssumption DEF State, Seen
<1>0. TypeOK /\ Todo /\ Current /\ Rows /\ SendsBounded /\ GivenUpLate
  BY DEF IInv
<1>1. pump.cur \in Seen /\ e \in Event /\ cb[e].state \in {"pending", "deleted"}
  BY <1>0 DEF TypeOK, Current
<1>2. /\ cb' \in [Event -> [state: State, attempt: Nat]]
      /\ spent' \in [faults: Nat, crashes: Nat]
      /\ Lost \in Nat /\ Lost' \in Nat /\ Lost' >= Lost
      /\ \A d \in Event : d # e => cb'[d] = cb[d]
      /\ \/ cb'[e] = cb[e] /\ (InTable(e) => Lost' = Lost + 1)
         \/ InTable(e) /\ cb'[e] = row /\ Lost' = Lost
  BY <1>0, <1>1, UpdateEffect
<1>3. /\ pump' \in [pc: {"idle", "sent"}, cur: Seen \cup {None}, todo: SUBSET Seen]
      /\ pump'.todo = pump.todo
      /\ \/ pump'.pc = "idle" /\ pump'.cur = None
         \/ /\ pump.pc = "progress" /\ pump'.pc = "sent" /\ pump'.cur = pump.cur
            /\ InTable(e) => row.state = "pending"
  <2>1. CASE pump' = Rest
    BY <1>0, <2>1 DEF TypeOK, Rest
  <2>2. CASE /\ pump.pc = "progress" /\ pump' = [pump EXCEPT !.pc = "sent"]
             /\ InTable(pump.cur.cb) => row.state = "pending"
    BY <1>0, <2>2 DEF TypeOK
  <2> QED BY <2>1, <2>2
<1>4. TypeOK'
  BY <1>0, <1>2, <1>3 DEF TypeOK
<1>5. Todo'
  BY <1>0, <1>1, <1>2, <1>3 DEF Todo, Fresh, Current, TypeOK
<1>6. Current'
  BY <1>0, <1>1, <1>2, <1>3 DEF Current, Todo, TypeOK, InTable
<1>7. Rows'
  <2>1. ASSUME NEW d \in Event, d # e
        PROVE  /\ cb'[d].state = "none" => sends'[d] = 0
               /\ cb'[d].state = "pending" =>
                    /\ cb'[d].attempt < MaxAttempts
                    /\ cb'[d].attempt <= sends'[d]
                    /\ sends'[d] <= cb'[d].attempt + Lost'
               /\ cb'[d].state = "sent" => d \in acked'
    BY <1>0, <1>2, <2>1 DEF Rows, Flying, TypeOK
  <2>2. /\ cb'[e].state = "none" => sends'[e] = 0
        /\ cb'[e].state = "pending" =>
             /\ cb'[e].attempt < MaxAttempts
             /\ cb'[e].attempt <= sends'[e]
             /\ sends'[e] <= cb'[e].attempt + Lost'
        /\ cb'[e].state = "sent" => e \in acked'
    BY <1>0, <1>1, <1>2 DEF Rows, Current, Fresh, Flying, TypeOK, InTable
  <2> QED BY <2>1, <2>2 DEF Rows
<1>8. SendsBounded'
  <2>1. \A d \in Event : sends'[d] <= MaxAttempts + Lost'
    BY <1>0, <1>2 DEF SendsBounded, Lost, TypeOK
  <2> QED BY <1>2, <2>1 DEF SendsBounded, Lost
<1>9. GivenUpLate'
  BY <1>0, <1>1, <1>2 DEF GivenUpLate, TypeOK
<1> QED BY <1>4, <1>5, <1>6, <1>7, <1>8, <1>9 DEF IInv

LEMMA NextIInv ==
  ASSUME IInv, [Next]_vars  PROVE IInv'
<1> USE CallbackAssumption DEF State, Seen
<1>0. TypeOK /\ Todo /\ Current /\ Rows /\ SendsBounded /\ GivenUpLate
  BY DEF IInv
<1>1. ASSUME NEW e \in Event, BuildCallback(e)  PROVE IInv'
  <2>1. TypeOK'
    BY <1>0, <1>1 DEF BuildCallback, TypeOK
  <2>2. Todo'
    BY <1>0, <1>1 DEF BuildCallback, TypeOK, Todo, Current, Rows, Fresh, Flying, Lost
  <2>3. Current'
    BY <1>0, <1>1 DEF BuildCallback, TypeOK, Todo, Current, Fresh, Lost
  <2>4. Rows'
    BY <1>0, <1>1 DEF BuildCallback, TypeOK, Todo, Current, Rows, Fresh, Flying, Lost
  <2>5. SendsBounded'
    BY <1>0, <1>1 DEF BuildCallback, TypeOK, Todo, SendsBounded, Lost
  <2>6. GivenUpLate'
    BY <1>0, <1>1 DEF BuildCallback, TypeOK, Rows, GivenUpLate
  <2> QED BY <2>1, <2>2, <2>3, <2>4, <2>5, <2>6 DEF IInv
<1>2. ASSUME NEW e \in Event, PurgeOld(e)  PROVE IInv'
  <2>1. TypeOK'
    BY <1>0, <1>2 DEF PurgeOld, TypeOK
  <2>2. Todo'
    BY <1>0, <1>2 DEF PurgeOld, TypeOK, Todo, Current, Rows, Fresh, Flying, Lost
  <2>3. Current'
    BY <1>0, <1>2 DEF PurgeOld, TypeOK, Todo, Current, Fresh, Lost
  <2>4. Rows'
    BY <1>0, <1>2 DEF PurgeOld, TypeOK, Todo, Current, Rows, Fresh, Flying, Lost
  <2>5. SendsBounded'
    BY <1>0, <1>2 DEF PurgeOld, TypeOK, Todo, SendsBounded, Lost
  <2>6. GivenUpLate'
    BY <1>0, <1>2 DEF PurgeOld, TypeOK, Rows, GivenUpLate
  <2> QED BY <2>1, <2>2, <2>3, <2>4, <2>5, <2>6 DEF IInv
<1>3. ASSUME NEW e \in Event, DeleteJob(e)  PROVE IInv'
  <2>1. TypeOK'
    BY <1>0, <1>3 DEF DeleteJob, InTable, TypeOK
  <2>2. Todo'
    BY <1>0, <1>3 DEF DeleteJob, InTable, TypeOK, Todo, Current, Rows, Fresh, Flying, Lost
  <2>3. Current'
    BY <1>0, <1>3 DEF DeleteJob, InTable, TypeOK, Todo, Current, Fresh, Lost
  <2>4. Rows'
    BY <1>0, <1>3 DEF DeleteJob, InTable, TypeOK, Todo, Current, Rows, Fresh, Flying, Lost
  <2>5. SendsBounded'
    BY <1>0, <1>3 DEF DeleteJob, InTable, TypeOK, Todo, SendsBounded, Lost
  <2>6. GivenUpLate'
    BY <1>0, <1>3 DEF DeleteJob, InTable, TypeOK, Rows, GivenUpLate
  <2> QED BY <2>1, <2>2, <2>3, <2>4, <2>5, <2>6 DEF IInv
<1>4. CASE ListDue
  <2>1. TypeOK'
    BY <1>0, <1>4 DEF ListDue, Scanned, TypeOK
  <2>2. Todo'
    BY <1>0, <1>4 DEF ListDue, Scanned, TypeOK, Todo, Current, Rows, Fresh, Flying, Lost
  <2>3. Current'
    BY <1>0, <1>4 DEF ListDue, Scanned, TypeOK, Todo, Current, Fresh, Lost
  <2>4. Rows'
    BY <1>0, <1>4 DEF ListDue, Scanned, TypeOK, Todo, Current, Rows, Fresh, Flying, Lost
  <2>5. SendsBounded'
    BY <1>0, <1>4 DEF ListDue, Scanned, TypeOK, Todo, SendsBounded, Lost
  <2>6. GivenUpLate'
    BY <1>0, <1>4 DEF ListDue, Scanned, TypeOK, Rows, GivenUpLate
  <2> QED BY <2>1, <2>2, <2>3, <2>4, <2>5, <2>6 DEF IInv
<1>5. ASSUME NEW r \in pump.todo, Send(r)  PROVE IInv'
  <2>1. TypeOK'
    BY <1>0, <1>5 DEF Send, TypeOK
  <2>2. Todo'
    BY <1>0, <1>5 DEF Send, TypeOK, Todo, Current, Rows, Fresh, Flying, Lost
  <2>3. Current'
    BY <1>0, <1>5 DEF Send, TypeOK, Todo, Current, Fresh, Lost
  <2>4. Rows'
    BY <1>0, <1>5 DEF Send, TypeOK, Todo, Current, Rows, Fresh, Flying, Lost
  <2>5. SendsBounded'
    BY <1>0, <1>5 DEF Send, TypeOK, Todo, SendsBounded, Lost
  <2>6. GivenUpLate'
    BY <1>0, <1>5 DEF Send, TypeOK, Rows, GivenUpLate
  <2> QED BY <2>1, <2>2, <2>3, <2>4, <2>5, <2>6 DEF IInv
<1>6. CASE MarkProgress
  <2> DEFINE e == pump.cur.cb
             m == pump.cur.attempt + 1
  <2>0. /\ pump.cur \in Seen /\ e \in Event /\ m \in Nat /\ cb[e] \in [state: State, attempt: Nat]
        /\ pump.pc # "idle" /\ Flying(e) /\ m <= sends[e] /\ sends[e] \in Nat
        /\ InTable(e) => cb[e].state = "pending"
    BY <1>0, <1>6 DEF MarkProgress, TypeOK, Current, Flying, InTable
  <2>1. CASE m >= MaxAttempts
    <3> DEFINE row == [cb[e] EXCEPT !.state = "dead"]
    <3>1. Update(e, row) /\ pump' = Rest /\ UNCHANGED <<sends, acked>>
      BY <1>6, <2>0, <2>1 DEF MarkProgress, MarkDead
    <3>2. row \in [state: State, attempt: Nat] /\ row.state = "dead" /\ sends[e] >= MaxAttempts
      BY <2>0, <2>1
    <3> QED BY <2>0, <3>1, <3>2, MarkIInv
  <2>2. CASE m < MaxAttempts
    <3> DEFINE row == [cb[e] EXCEPT !.attempt = m]
    <3>1. /\ Update(e, row) /\ UNCHANGED <<sends, acked>>
          /\ pump.pc = "progress" /\ pump' = [pump EXCEPT !.pc = "sent"]
      BY <1>6, <2>0, <2>2 DEF MarkProgress, MarkRetry
    <3>2. /\ row \in [state: State, attempt: Nat] /\ row.attempt = m
          /\ InTable(e) => row.state = "pending"
      BY <2>0
    <3> QED BY <2>0, <2>2, <3>1, <3>2, MarkIInv
  <2> QED BY <2>0, <2>1, <2>2
<1>7. CASE MarkSent
  <2> DEFINE e == pump.cur.cb
             row == [cb[e] EXCEPT !.state = "sent"]
  <2>1. pump.pc # "idle" /\ pump.cur \in Seen /\ e \in Event /\ e \in acked
    BY <1>0, <1>7 DEF MarkSent, TypeOK, Current
  <2>2. Update(e, row) /\ pump' = Rest /\ UNCHANGED <<sends, acked>>
    BY <1>7 DEF MarkSent
  <2>3. row \in [state: State, attempt: Nat] /\ row.state = "sent"
    BY <1>0, <2>1 DEF TypeOK
  <2> QED BY <2>1, <2>2, <2>3, MarkIInv
<1>8. CASE HandleFail
  <2> DEFINE e == pump.cur.cb
             m == pump.cur.attempt + 1
  <2>0. /\ pump.cur \in Seen /\ e \in Event /\ m \in Nat /\ cb[e] \in [state: State, attempt: Nat]
        /\ pump.pc # "idle" /\ Flying(e) /\ m <= sends[e] /\ sends[e] \in Nat
        /\ InTable(e) => cb[e].state = "pending"
    BY <1>0, <1>8 DEF HandleFail, TypeOK, Current, Flying, InTable
  <2>1. CASE m >= MaxAttempts
    <3> DEFINE row == [cb[e] EXCEPT !.state = "dead"]
    <3>1. Update(e, row) /\ pump' = Rest /\ UNCHANGED <<sends, acked>>
      BY <1>8, <2>0, <2>1 DEF HandleFail, MarkDead
    <3>2. row \in [state: State, attempt: Nat] /\ row.state = "dead" /\ sends[e] >= MaxAttempts
      BY <2>0, <2>1
    <3> QED BY <2>0, <3>1, <3>2, MarkIInv
  <2>2. CASE m < MaxAttempts
    <3> DEFINE row == [cb[e] EXCEPT !.attempt = m]
    <3>1. Update(e, row) /\ pump' = Rest /\ UNCHANGED <<sends, acked>>
      BY <1>8, <2>0, <2>2 DEF HandleFail, MarkRetry
    <3>2. /\ row \in [state: State, attempt: Nat] /\ row.attempt = m
          /\ InTable(e) => row.state = "pending"
      BY <2>0
    <3> QED BY <2>0, <2>2, <3>1, <3>2, MarkIInv
  <2> QED BY <2>0, <2>1, <2>2
<1>9. CASE Crash
  <2>1. TypeOK'
    BY <1>0, <1>9 DEF Crash, Spend, TypeOK
  <2>2. Todo'
    BY <1>0, <1>9 DEF Crash, Spend, TypeOK, Todo, Current, Rows, Fresh, Flying, Lost
  <2>3. Current'
    BY <1>0, <1>9 DEF Crash, Spend, TypeOK, Todo, Current, Fresh, Lost
  <2>4. Rows'
    BY <1>0, <1>9 DEF Crash, Spend, TypeOK, Todo, Current, Rows, Fresh, Flying, Lost
  <2>5. SendsBounded'
    BY <1>0, <1>9 DEF Crash, Spend, TypeOK, Todo, SendsBounded, Lost
  <2>6. GivenUpLate'
    BY <1>0, <1>9 DEF Crash, Spend, TypeOK, Rows, GivenUpLate
  <2> QED BY <2>1, <2>2, <2>3, <2>4, <2>5, <2>6 DEF IInv
<1>10. CASE UNCHANGED vars
  <2>1. TypeOK'
    BY <1>0, <1>10 DEF vars, TypeOK
  <2>2. Todo'
    BY <1>0, <1>10 DEF vars, TypeOK, Todo, Current, Rows, Fresh, Flying, Lost
  <2>3. Current'
    BY <1>0, <1>10 DEF vars, TypeOK, Todo, Current, Fresh, Lost
  <2>4. Rows'
    BY <1>0, <1>10 DEF vars, TypeOK, Todo, Current, Rows, Fresh, Flying, Lost
  <2>5. SendsBounded'
    BY <1>0, <1>10 DEF vars, TypeOK, Todo, SendsBounded, Lost
  <2>6. GivenUpLate'
    BY <1>0, <1>10 DEF vars, TypeOK, Rows, GivenUpLate
  <2> QED BY <2>1, <2>2, <2>3, <2>4, <2>5, <2>6 DEF IInv
<1> QED BY <1>1, <1>2, <1>3, <1>4, <1>5, <1>6, <1>7, <1>8, <1>9, <1>10 DEF Next, Once

LEMMA InitIInv == Init => IInv
  BY CallbackAssumption
     DEF Init, IInv, TypeOK, State, Todo, Current, Rows, Flying, Lost, SendsBounded, GivenUpLate

LEMMA IInvHolds == Spec => []IInv
  BY InitIInv, NextIInv, PTL DEF Spec
-----------------------------------------------------------------------------
(* The rows of the scan and the row at work stay typed whatever the limits are. *)
THEOREM PumpTypeCorrect == Spec => []TypeOK
  BY IInvHolds, PTL DEF IInv

(* An event is posted at most max_attempts times, and once more for each attempt whose *)
(* count a failing call or a crash has lost.                                           *)
THEOREM AttemptsBounded == Spec => []SendsBounded
  BY IInvHolds, PTL DEF IInv

(* No event is given up before a 2xx or max_attempts calls of send, and only an event *)
(* that was sent or given up is purged.                                               *)
THEOREM NotGivenUpEarly == Spec => []GivenUpLate
  BY IInvHolds, PTL DEF IInv

(* A row that is sent or dead keeps its state until it is removed and is not posted     *)
(* again: MarkSent and MarkDead ask for no state, so this rests on the order of once.   *)
THEOREM FinalRowsStay == Spec => FinalStays
<1> DEFINE Stays(e) == cb[e].state \in {"sent", "dead"} =>
                         /\ cb'[e].state \in {cb[e].state, "purged", "deleted"}
                         /\ sends'[e] = sends[e]
<1> USE DEF State, Seen
<1>1. ASSUME IInv, [Next]_vars, NEW e \in Event  PROVE Stays(e)
  <2>0. TypeOK /\ Todo /\ Current
    BY <1>1 DEF IInv
  <2>1. ASSUME NEW d \in Event, BuildCallback(d) \/ PurgeOld(d) \/ DeleteJob(d)  PROVE Stays(e)
    BY <2>0, <2>1 DEF TypeOK, BuildCallback, PurgeOld, DeleteJob
  <2>2. CASE ListDue \/ Crash \/ UNCHANGED vars
    BY <2>0, <2>2 DEF TypeOK, ListDue, Crash, vars
  <2>3. ASSUME NEW r \in pump.todo, Send(r)  PROVE Stays(e)
    BY <2>0, <2>3 DEF TypeOK, Todo, Fresh, Send
  <2>4. ASSUME MarkProgress \/ MarkSent \/ HandleFail  PROVE Stays(e)
    <3>1. pump.pc # "idle" /\ UNCHANGED sends
      BY <2>4 DEF MarkProgress, MarkSent, HandleFail
    <3>2. pump.cur.cb \in Event /\ cb[pump.cur.cb].state \in {"pending", "deleted"}
      BY <2>0, <3>1 DEF Current
    <3>3. PICK row : Update(pump.cur.cb, row)
      BY <2>4 DEF MarkProgress, MarkSent, HandleFail, MarkDead, MarkRetry
    <3>4. e # pump.cur.cb => cb'[e] = cb[e]
      BY <2>0, <3>2, <3>3 DEF TypeOK, Update
    <3> QED BY <3>1, <3>2, <3>4
  <2> QED BY <1>1, <2>1, <2>2, <2>3, <2>4 DEF Next, Once
<1>2. IInv /\ [Next]_vars => [\A e \in Event : Stays(e)]_vars
  BY <1>1
<1> QED BY <1>2, IInvHolds, PTL DEF Spec, FinalStays
=============================================================================
