------------------------------- MODULE OsSem -------------------------------
(***************************************************************************)
(* A counting semaphore of uC/OS-II (os_sem.c, os_core.c), as the project  *)
(* uses it: OSSemCreate, OSSemPend without a timeout, OSSemPost.  The      *)
(* kernel runs each of them with the interrupts masked, so each is a step. *)
(*                                                                         *)
(* A post does not add to the count when somebody waits: the semaphore is  *)
(* handed to the most urgent waiter, who is already its owner when it next *)
(* runs.                                                                   *)
(***************************************************************************)
EXTENDS Naturals

CONSTANTS
  Tasks,
  Priority      \* of each task, all different; the lower, the more urgent

VARIABLES
  OSEventCnt,
  OSEventTbl    \* the tasks on the wait list

CntMax == 65535

\* The highest-priority task of a set (the bit search of OS_EventTaskRdy).
HighestOf(S) == CHOOSE t \in S : \A u \in S : Priority[t] <= Priority[u]

OSSemCreate(cnt) == OSEventCnt = cnt /\ OSEventTbl = {}

\* OSSemPend finds the semaphore available,
PendTakes ==
  /\ OSEventCnt > 0
  /\ OSEventCnt' = OSEventCnt - 1
  /\ UNCHANGED OSEventTbl

\* or puts its caller on the wait list,
PendWaits(t) ==
  /\ OSEventCnt = 0
  /\ OSEventTbl' = OSEventTbl \union {t}
  /\ UNCHANGED OSEventCnt

\* and returns once a post has taken the caller off it.
Granted(t) == t \notin OSEventTbl

\* Mistake: the post adds to the count as well as waking a task.
PostTwice ==
  /\ OSEventTbl' = IF OSEventTbl = {} THEN {} ELSE OSEventTbl \ {HighestOf(OSEventTbl)}
  /\ OSEventCnt' = OSEventCnt + 1

OSSemPost ==
  \/ /\ OSEventTbl # {}
     /\ OSEventTbl' = OSEventTbl \ {HighestOf(OSEventTbl)}
     /\ UNCHANGED OSEventCnt
  \/ /\ OSEventTbl = {}
     /\ OSEventCnt' = IF OSEventCnt < CntMax THEN OSEventCnt + 1 ELSE OSEventCnt
     /\ UNCHANGED OSEventTbl
=============================================================================
