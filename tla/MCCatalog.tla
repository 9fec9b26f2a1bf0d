------------------------------ MODULE MCCatalog ------------------------------
(* One job created by request, one source, and the ids an import or a copy  *)
(* may take.                                                                *)
EXTENDS Catalog

Plain == [enabled |-> TRUE, kind |-> "cron", expr |-> {1, 2, 9}, start |-> None, end |-> None,
          options |-> [jitter |-> 1, cap |-> 1]]

Expressions == {{1, 2, 9}, {1}, {}, Bad}

First(definitions) == [j \in JobId |-> IF j = 1 THEN definitions ELSE {}]

\* Due once before its window and once in it.
Created == First({[Plain EXCEPT !.start = 2]})

\* Another schedule and another window, and one of the two retry options.
Edited == {[kind |-> "fix_rate", expr |-> {1}, start |-> None, end |-> 1, jitter |-> 2]}

Offered == {[type |-> 2, expr |-> {1, 2, 9}, start |-> 0, end |-> 0, status |-> 2]}

\* Two spellings of the address of one server.
OneServer == [a \in Address |-> CHOOSE s \in Source : TRUE]
NoServer == << >>

\* The job of the request has two slots, the imported one a retry.
AtMostTwo == [j \in JobId |-> IF j = 1 THEN 2 ELSE 1]
OneRetry == [j \in JobId |-> IF j = 1 THEN 0 ELSE 1]

Impossible == First({[Plain EXCEPT !.expr = {}]})
==============================================================================
