--------------------------- MODULE ExclusivePort ---------------------------
(***************************************************************************)
(* What JLQRS232SEM ("exciter mutual exclusion semaphore", global.h:222)   *)
(* promises the tasks that share the exciter's port: one owner at a time,  *)
(* and a port that is given up goes straight to the most urgent of those   *)
(* that wait for it.                                                       *)
(***************************************************************************)
EXTENDS Naturals

CONSTANTS
  Tasks,
  Priority,   \* of each task; the lower, the more urgent
  NoOne       \* not a task: the owner of a free port

VARIABLES owner, queue

vars == <<owner, queue>>

First(S) == CHOOSE t \in S : \A u \in S : Priority[t] <= Priority[u]

Init == owner = NoOne /\ queue = {}

\* t asks for the port and gets it,
Take(t) == owner = NoOne /\ owner' = t /\ queue' = queue

\* or has to wait.
Wait(t) == owner \notin {NoOne, t} /\ t \notin queue /\ queue' = queue \union {t} /\ owner' = owner

\* The owner gives the port up.
Leave(t) ==
  /\ owner = t
  /\ owner' = IF queue = {} THEN NoOne ELSE First(queue)
  /\ queue' = IF queue = {} THEN {} ELSE queue \ {First(queue)}

Next == \E t \in Tasks : Take(t) \/ Wait(t) \/ Leave(t)

Spec == Init /\ [][Next]_vars
=============================================================================
