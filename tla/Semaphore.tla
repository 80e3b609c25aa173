------------------------------ MODULE Semaphore ------------------------------
(***************************************************************************)
(* The counting semaphores of the kernel AuditSec runs in                  *)
(* (kernel/semaphore.c).  A semaphore is a count and a FIFO list of        *)
(* sleeping waiters.  up() never increments the count while somebody       *)
(* sleeps: it takes the first waiter off the list and sets its "up" flag,  *)
(* so the waiter owns the semaphore before it runs again.  A waiter that   *)
(* is no longer on the list has therefore been granted the semaphore; a    *)
(* timeout or a signal only succeeds while the waiter is still on it.      *)
(* Every operation runs under the semaphore's spinlock: it is one step.    *)
(***************************************************************************)
EXTENDS Integers, Sequences

\* struct semaphore, with waiters drawn from W.
Sem(W) == [count : Nat, wait_list : Seq(W)]

SemInit(n) == [count |-> n, wait_list |-> << >>]

\* The uncontended branch of every down: there is a unit to take.
Free(s) == s.count > 0

Take(s) == [s EXCEPT !.count = @ - 1]

\* w sleeps on s and has not been granted it.
Sleeps(s, w) == \E i \in 1 .. Len(s.wait_list) : s.wait_list[i] = w

\* __down_common: w goes to the end of the list.
Sleep(s, w) == [s EXCEPT !.wait_list = Append(@, w)]

\* list_del of a waiter that times out or is interrupted.
Leave(s, w) ==
  LET i == CHOOSE k \in 1 .. Len(s.wait_list) : s.wait_list[k] = w
  IN  [s EXCEPT !.wait_list = SubSeq(@, 1, i - 1) \o SubSeq(@, i + 1, Len(@))]

up(s) ==
  IF s.wait_list = << >> THEN [s EXCEPT !.count = @ + 1]
                         ELSE [s EXCEPT !.wait_list = Tail(@)]

\* The outcome of down_trylock; its result is not used by the callers.
down_trylock(s) == IF Free(s) THEN Take(s) ELSE s

\* No waiter is on the list twice.
Distinct(s) ==
  \A i, j \in 1 .. Len(s.wait_list) : s.wait_list[i] = s.wait_list[j] => i = j
=============================================================================
