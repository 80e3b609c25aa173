--------------------------- MODULE AuditSecProofs ---------------------------
(***************************************************************************)
(* For every set of calls, daemons and programs, IInv is an invariant of   *)
(* Spec; what the runs check on two calls and two daemons follows from it, *)
(* and so does that every step of the handshake is a step of the abstract  *)
(* service or a stutter.                                                   *)
(*                                                                         *)
(* There is one lemma per action.  Each first states what the action does  *)
(* to one call or one daemon (<1>1), then what it does to the wait lists,  *)
(* from the lemmas on semaphores, and then goes through the conjuncts      *)
(* of IInv.  The heart is Baton: while no call has given up waiting, one   *)
(* question or answer is in flight, a unit of question_lock, a KThread, a  *)
(* unit of answer_lock or a call that was granted it.                      *)
(*                                                                         *)
(* Calls that give up waiting leave units behind: the last section counts  *)
(* the units and the servers of each semaphore against the calls that gave *)
(* up (DriftInv), which bounds how far the two counts can drift.           *)
(***************************************************************************)
EXTENDS AuditSec, FiniteSetTheorems, TLAPS

-----------------------------------------------------------------------------
(* What each operation on a semaphore does to its count and to the set of  *)
(* waiters that sleep on it: all that the rest needs of the wait lists.    *)

\* A fresh semaphore has its count and nobody sleeps on it.
LEMMA SemInitFacts ==
  ASSUME NEW W, NEW n \in Nat
  PROVE  /\ SemInit(n) \in Sem(W)
         /\ SemInit(n).count = n
         /\ Distinct(SemInit(n))
         /\ \A v : ~Sleeps(SemInit(n), v)
  BY DEF SemInit, Sem, Distinct, Sleeps

\* Taking a free semaphore moves nobody in or out of the list.
LEMMA TakeFacts ==
  ASSUME NEW W, NEW s \in Sem(W), Free(s)
  PROVE  /\ Take(s) \in Sem(W)
         /\ Take(s).count = s.count - 1
         /\ Distinct(Take(s)) <=> Distinct(s)
         /\ \A v : Sleeps(Take(s), v) <=> Sleeps(s, v)
  BY DEF Take, Free, Sem, Distinct, Sleeps

\* The same for down_trylock, which never lets the count go below zero.
LEMMA TrylockFacts ==
  ASSUME NEW W, NEW s \in Sem(W)
  PROVE  /\ down_trylock(s) \in Sem(W)
         /\ down_trylock(s).count <= s.count
         /\ Distinct(down_trylock(s)) <=> Distinct(s)
         /\ \A v : Sleeps(down_trylock(s), v) <=> Sleeps(s, v)
<1>1. CASE Free(s)
  <2>1. s.count \in Nat
    BY DEF Sem
  <2> QED
    BY <1>1, <2>1, TakeFacts DEF down_trylock
<1>2. CASE ~Free(s)
  BY <1>2 DEF down_trylock, Sem
<1> QED
  BY <1>1, <1>2

\* A new waiter joins the list and nobody else moves.
LEMMA SleepFacts ==
  ASSUME NEW W, NEW s \in Sem(W), NEW w \in W
  PROVE  /\ Sleep(s, w) \in Sem(W)
         /\ Sleep(s, w).count = s.count
         /\ Distinct(s) /\ ~Sleeps(s, w) => Distinct(Sleep(s, w))
         /\ \A v : Sleeps(Sleep(s, w), v) <=> Sleeps(s, v) \/ v = w
<1> DEFINE l == s.wait_list
           m == Append(l, w)
<1>1. l \in Seq(W) /\ s.count \in Nat
  BY DEF Sem
<1>2. /\ m \in Seq(W)
      /\ Len(m) = Len(l) + 1
      /\ \A i \in 1 .. Len(l) : m[i] = l[i]
      /\ m[Len(l) + 1] = w
  BY <1>1
<1>3. Sleep(s, w).wait_list = m /\ Sleep(s, w).count = s.count
  BY DEF Sleep, Sem
<1>4. Sleep(s, w) \in Sem(W)
  BY <1>1, <1>2 DEF Sleep, Sem
<1>5. Len(l) \in Nat
  BY <1>1
<1> HIDE DEF m, l
<1>6. \A v : Sleeps(Sleep(s, w), v) <=> Sleeps(s, v) \/ v = w
  BY <1>2, <1>3, <1>5 DEF Sleeps, l
<1>7. ASSUME Distinct(s), ~Sleeps(s, w) PROVE Distinct(Sleep(s, w))
  BY <1>2, <1>3, <1>5, <1>7 DEF Sleeps, Distinct, l
<1> QED
  BY <1>3, <1>4, <1>6, <1>7

\* A waiter that gives up leaves the list and nobody else moves.
LEMMA LeaveFacts ==
  ASSUME NEW W, NEW s \in Sem(W), NEW w \in W, Distinct(s), Sleeps(s, w)
  PROVE  /\ Leave(s, w) \in Sem(W)
         /\ Leave(s, w).count = s.count
         /\ Distinct(Leave(s, w))
         /\ \A v : Sleeps(Leave(s, w), v) <=> Sleeps(s, v) /\ v # w
<1> DEFINE l == s.wait_list
           i == CHOOSE k \in 1 .. Len(l) : l[k] = w
           m == SubSeq(l, 1, i - 1) \o SubSeq(l, i + 1, Len(l))
<1>1. l \in Seq(W) /\ s.count \in Nat
  BY DEF Sem
<1>2. Len(l) \in Nat
  BY <1>1
<1>3. i \in 1 .. Len(l) /\ l[i] = w
  BY DEF Sleeps
<1>4. Leave(s, w).wait_list = m /\ Leave(s, w).count = s.count
  BY DEF Leave, Sem
<1> HIDE DEF i
<1>5. /\ m \in Seq(W)
      /\ Len(m) = Len(l) - 1
      /\ \A k \in 1 .. Len(m) : m[k] = l[IF k < i THEN k ELSE k + 1]
  <2> DEFINE x == SubSeq(l, 1, i - 1)
             y == SubSeq(l, i + 1, Len(l))
  <2>1. x \in Seq(W) /\ Len(x) = i - 1 /\ \A k \in 1 .. i - 1 : x[k] = l[k]
    BY <1>1, <1>2, <1>3
  <2>2. /\ y \in Seq(W) /\ Len(y) = Len(l) - i
        /\ \A k \in 1 .. Len(l) - i : y[k] = l[k + i]
    BY <1>1, <1>2, <1>3
  <2> HIDE DEF x, y, l
  <2>3. /\ x \o y \in Seq(W)
        /\ Len(x \o y) = Len(x) + Len(y)
        /\ \A k \in 1 .. Len(x) + Len(y) :
             (x \o y)[k] = IF k <= Len(x) THEN x[k] ELSE y[k - Len(x)]
    BY <2>1, <2>2
  <2>4. Len(x \o y) = Len(l) - 1
    BY <2>1, <2>2, <2>3, <1>2, <1>3
  <2>5. ASSUME NEW k \in 1 .. Len(l) - 1
        PROVE  (x \o y)[k] = l[IF k < i THEN k ELSE k + 1]
    <3>1. CASE k < i
      BY <3>1, <2>1, <2>2, <2>3, <1>2, <1>3
    <3>2. CASE ~(k < i)
      <4>1. (x \o y)[k] = y[k - (i - 1)]
        BY <3>2, <2>1, <2>2, <2>3, <1>2, <1>3
      <4>2. k - (i - 1) \in 1 .. Len(l) - i /\ k - (i - 1) + i = k + 1
        BY <3>2, <1>2, <1>3
      <4> QED
        BY <4>1, <4>2, <3>2, <2>2
    <3> QED
      BY <3>1, <3>2
  <2>6. m = x \o y
    BY DEF x, y
  <2> QED
    BY <2>3, <2>4, <2>5, <2>6
<1>6. Leave(s, w) \in Sem(W)
  <2>1. Leave(s, w) = [s EXCEPT !.wait_list = m]
    BY DEF Leave, i
  <2> HIDE DEF m
  <2> QED
    BY <2>1, <1>1, <1>5 DEF Sem
<1> HIDE DEF m, l
<1>7. \A v : Sleeps(Leave(s, w), v) <=> Sleeps(s, v) /\ v # w
  <2>1. ASSUME NEW v, Sleeps(Leave(s, w), v) PROVE Sleeps(s, v) /\ v # w
    <3>1. PICK k \in 1 .. Len(m) : m[k] = v
      BY <1>4, <2>1 DEF Sleeps
    <3>2. l[IF k < i THEN k ELSE k + 1] = v
      BY <1>5, <3>1
    <3>3. (IF k < i THEN k ELSE k + 1) \in 1 .. Len(l) \ {i}
      BY <1>2, <1>3, <1>5
    <3> QED
      BY <3>2, <3>3, <1>3 DEF Sleeps, Distinct, l
  <2>2. ASSUME NEW v, Sleeps(s, v), v # w PROVE Sleeps(Leave(s, w), v)
    <3>1. PICK k \in 1 .. Len(l) : l[k] = v
      BY <2>2 DEF Sleeps, l
    <3>2. k # i
      BY <3>1, <2>2, <1>3
    <3>3. CASE k < i
      BY <3>1, <3>3, <1>2, <1>3, <1>4, <1>5 DEF Sleeps
    <3>4. CASE k > i
      <4>1. k - 1 \in 1 .. Len(m) /\ m[k - 1] = l[k]
        BY <3>4, <1>2, <1>3, <1>5
      <4> QED
        BY <4>1, <3>1, <1>4 DEF Sleeps
    <3> QED
      BY <3>2, <3>3, <3>4, <1>2, <1>3
  <2> QED
    BY <2>1, <2>2
<1>8. Distinct(Leave(s, w))
  <2> SUFFICES ASSUME NEW a \in 1 .. Len(m), NEW b \in 1 .. Len(m), m[a] = m[b]
               PROVE  a = b
    BY <1>4 DEF Distinct
  <2>1. l[IF a < i THEN a ELSE a + 1] = l[IF b < i THEN b ELSE b + 1]
    BY <1>5
  <2>2. /\ (IF a < i THEN a ELSE a + 1) \in 1 .. Len(l)
        /\ (IF b < i THEN b ELSE b + 1) \in 1 .. Len(l)
    BY <1>2, <1>3, <1>5
  <2>3. (IF a < i THEN a ELSE a + 1) = (IF b < i THEN b ELSE b + 1)
    BY <2>1, <2>2 DEF Distinct, l
  <2> QED
    BY <2>3, <1>2, <1>3, <1>5
<1> QED
  BY <1>4, <1>6, <1>7, <1>8

\* up either increments the count, when nobody sleeps, or takes exactly one
\* waiter off the list and leaves the count alone.
LEMMA UpFacts ==
  ASSUME NEW W, NEW s \in Sem(W), Distinct(s)
  PROVE  /\ up(s) \in Sem(W)
         /\ Distinct(up(s))
         /\ \/ /\ \A v : ~Sleeps(s, v)
               /\ up(s).count = s.count + 1
               /\ \A v : ~Sleeps(up(s), v)
            \/ /\ up(s).count = s.count
               /\ \E h \in W : /\ Sleeps(s, h)
                               /\ \A v : Sleeps(up(s), v) <=> Sleeps(s, v) /\ v # h
<1> DEFINE l == s.wait_list
           m == Tail(l)
<1>1. l \in Seq(W) /\ s.count \in Nat
  BY DEF Sem
<1>2. CASE l = << >>
  BY <1>1, <1>2 DEF up, Sem, Distinct, Sleeps
<1>3. CASE l # << >>
  <2>1. /\ m \in Seq(W)
        /\ Len(l) \in Nat \ {0}
        /\ Len(m) = Len(l) - 1
        /\ \A k \in 1 .. Len(m) : m[k] = l[k + 1]
        /\ l[1] \in W
    BY <1>1, <1>3
  <2>2. up(s) = [s EXCEPT !.wait_list = m]
    BY <1>3 DEF up
  <2>3. up(s).wait_list = m /\ up(s).count = s.count /\ up(s) \in Sem(W)
    BY <2>1, <2>2 DEF Sem
  <2> HIDE DEF l, m
  <2>4. Distinct(up(s))
    BY <2>1, <2>3 DEF Distinct, l
  <2>5. Sleeps(s, l[1])
    BY <2>1 DEF Sleeps, l
  <2>6. ASSUME NEW v PROVE Sleeps(up(s), v) <=> Sleeps(s, v) /\ v # l[1]
    <3>1. ASSUME Sleeps(up(s), v) PROVE Sleeps(s, v) /\ v # l[1]
      <4>1. PICK k \in 1 .. Len(m) : m[k] = v
        BY <3>1, <2>3 DEF Sleeps
      <4>2. l[k + 1] = v /\ k + 1 \in 1 .. Len(l) /\ k + 1 # 1 /\ 1 \in 1 .. Len(l)
        BY <4>1, <2>1
      <4> QED
        BY <4>2 DEF Sleeps, Distinct, l
    <3>2. ASSUME Sleeps(s, v), v # l[1] PROVE Sleeps(up(s), v)
      <4>1. PICK k \in 1 .. Len(l) : l[k] = v
        BY <3>2 DEF Sleeps, l
      <4>2. k # 1
        BY <4>1, <3>2
      <4>3. k - 1 \in 1 .. Len(m) /\ m[k - 1] = v
        BY <4>1, <4>2, <2>1
      <4> QED
        BY <4>3, <2>3 DEF Sleeps
    <3> QED
      BY <3>1, <3>2
  <2> QED
    BY <2>1, <2>3, <2>4, <2>5, <2>6
<1> QED
  BY <1>2, <1>3

-----------------------------------------------------------------------------
(* The handshake.                                                          *)

USE CommType, HookType, NoPidIsNoDaemon, TornIsNoCall
USE DEF shared, locks, daemons, hooks, Goto, Return, StartFill, KGoto

\* The initial state: hook_lock is free and nothing is in flight.
LEMMA InitIInv == Init => IInv
<1> SUFFICES ASSUME Init PROVE IInv
  OBVIOUS
<1>1. /\ hook_lock \in Sem(Calls) /\ answer_lock \in Sem(Calls)
      /\ question_lock \in Sem(Daemons)
      /\ hook_lock.count = 1 /\ question_lock.count = 0 /\ answer_lock.count = 0
      /\ Distinct(hook_lock) /\ Distinct(question_lock) /\ Distinct(answer_lock)
      /\ \A v : /\ ~Sleeps(hook_lock, v) /\ ~Sleeps(question_lock, v)
                /\ ~Sleeps(answer_lock, v)
  BY SemInitFacts DEF Init, InitLocks
<1>2. /\ \A c \in Calls : pc[c] = "idle" /\ ret[c] = "none" /\ decided[c] = "none"
      /\ \A d \in Daemons : kt[d] = "off"
      /\ expired = {}
  BY DEF Init
<1>3. TypeOK
  BY <1>1 DEF Init, TypeOK, CallPc
<1>4. /\ \A c \in Calls : ~Owns(c) /\ ~Asking(c) /\ ~Granted(c)
      /\ \A d \in Daemons : ~Serves(d)
  BY <1>2 DEF Owns, Asking, Granted, Serves
<1>5. Waiters /\ HookMutex /\ Progress /\ VerdictIsForTheCall
  BY <1>1, <1>2, <1>4 DEF Waiters, HookMutex, Progress, VerdictIsForTheCall
<1>6. Baton
  BY <1>1, <1>2, <1>4 DEF Baton, Unanswered, Answered
<1> QED
  BY <1>3, <1>5, <1>6 DEF IInv

\* A step that leaves the hooks and KThread alone keeps the invariant.
LEMMA Frame ==
  ASSUME IInv, TypeOK', UNCHANGED <<hooks, kt, usai>>
  PROVE  IInv'
BY DEF IInv, hooks, Waiters, HookMutex, Progress, Baton, VerdictIsForTheCall, Owns,
   Asking, Granted, Serves, Unanswered, Answered

\* While every answer came in time, what is in flight belongs to a call that
\* asks and whose question is in k_auditsec_info.
LEMMA InFlightCall ==
  ASSUME IInv, expired = {}, Unanswered \/ Answered
  PROVE  k_auditsec_info \in Calls /\ Asking(k_auditsec_info)
BY DEF IInv, Baton, Progress, Unanswered, Answered, Asking, Granted

\* The owner of hook_lock is alone, and hook_lock is taken.
LEMMA OwnerFacts ==
  ASSUME IInv, NEW c \in Calls, Owns(c)
  PROVE  /\ hook_lock.count = 0
         /\ \A x \in Calls : (Owns(x) \/ Asking(x)) => x = c
<1>1. \A x \in Calls : Asking(x) => Owns(x)
  BY DEF Asking, Owns
<1>2. hook_lock.count \in Nat /\ hook_lock.count <= 1
  BY DEF IInv, TypeOK, Sem, Waiters
<1> QED
  BY <1>1, <1>2 DEF IInv, HookMutex

\* A call of a program that is not monitored touches no lock.
LEMMA EnterUnmonitoredStep ==
  ASSUME IInv, NEW c \in Calls, EnterUnmonitored(c)
  PROVE  IInv'
<1> USE DEF IInv
<1>1. /\ pc[c] = "idle" /\ pc'[c] = "done" /\ ret'[c] = "0" /\ decided'[c] = "exempt"
      /\ \A x \in Calls \ {c} : pc'[x] = pc[x] /\ ret'[x] = ret[x] /\ decided'[x] = decided[x]
      /\ UNCHANGED <<k_auditsec_info, auditsec_answer, kt, usai, expired>>
  BY DEF EnterUnmonitored, TypeOK
<1>2. UNCHANGED <<hook_lock, question_lock, answer_lock>>
  BY DEF EnterUnmonitored
<1>3. TypeOK'
  BY <1>2 DEF EnterUnmonitored, TypeOK, CallPc
<1>4. /\ \A x \in Calls : /\ Owns(x)' <=> Owns(x)
                          /\ Asking(x)' <=> Asking(x)
                          /\ Granted(x)' <=> Granted(x)
      /\ \A e \in Daemons : Serves(e)' <=> Serves(e)
  BY <1>1, <1>2 DEF Waiters, Owns, Asking, Granted, Serves
<1>5. Waiters'
  BY <1>1, <1>2 DEF Waiters
<1>6. HookMutex'
  BY <1>1, <1>2, <1>4 DEF HookMutex, Waiters, TypeOK, Sem
<1>7. Progress'
  BY <1>1, <1>2, <1>4 DEF Progress, HookMutex, Waiters, Owns
<1>8. Baton'
  <2>1. expired = {} /\ (Unanswered \/ Answered)
          => k_auditsec_info \in Calls /\ k_auditsec_info # c
    BY <1>1, InFlightCall DEF Asking
  <2> QED
    BY <1>1, <1>2, <1>4, <2>1
       DEF Baton, Unanswered, Answered, HookMutex, Progress, Asking, Owns, TypeOK, Sem
<1>9. VerdictIsForTheCall'
  BY <1>1, <1>2 DEF VerdictIsForTheCall, Progress, Baton, Answered, Granted
<1> QED
  BY <1>3, <1>5, <1>6, <1>7, <1>8, <1>9

\* A monitored call goes on to the launched check or fails for lack of memory.
LEMMA EnterMonitoredStep ==
  ASSUME IInv, NEW c \in Calls, EnterMonitored(c)
  PROVE  IInv'
<1> USE DEF IInv
<1>1. /\ pc[c] = "idle"
      /\ \/ pc'[c] = "check" /\ ret'[c] = ret[c]
         \/ pc'[c] = "done" /\ ret'[c] = "ENOMEM"
      /\ \A x \in Calls \ {c} : pc'[x] = pc[x] /\ ret'[x] = ret[x]
      /\ UNCHANGED <<k_auditsec_info, auditsec_answer, kt, usai, decided, expired>>
  BY DEF EnterMonitored, TypeOK
<1>2. UNCHANGED <<hook_lock, question_lock, answer_lock>>
  BY DEF EnterMonitored
<1>3. TypeOK'
  BY <1>2 DEF EnterMonitored, TypeOK, CallPc
<1>4. /\ \A x \in Calls : /\ Owns(x)' <=> Owns(x)
                          /\ Asking(x)' <=> Asking(x)
                          /\ Granted(x)' <=> Granted(x)
      /\ \A e \in Daemons : Serves(e)' <=> Serves(e)
  BY <1>1, <1>2 DEF Waiters, Owns, Asking, Granted, Serves
<1>5. Waiters'
  BY <1>1, <1>2 DEF Waiters
<1>6. HookMutex'
  BY <1>1, <1>2, <1>4 DEF HookMutex, Waiters, TypeOK, Sem
<1>7. Progress'
  BY <1>1, <1>2, <1>4 DEF Progress, HookMutex, Waiters, Owns
<1>8. Baton'
  BY <1>1, <1>2, <1>4
     DEF Baton, Unanswered, Answered, HookMutex, Progress, Asking, Owns, TypeOK, Sem
<1>9. VerdictIsForTheCall'
  BY <1>1, <1>2 DEF VerdictIsForTheCall, Progress, Baton, Answered, Granted
<1> QED
  BY <1>3, <1>5, <1>6, <1>7, <1>8, <1>9

\* A call goes on to hook_lock or is refused.
LEMMA CheckLaunchedStep ==
  ASSUME IInv, NEW c \in Calls, CheckLaunched(c)
  PROVE  IInv'
<1> USE DEF IInv
<1>1. /\ pc[c] = "check"
      /\ \/ pc'[c] = "lock" /\ ret'[c] = ret[c]
         \/ pc'[c] = "done" /\ ret'[c] = "EFAULT"
      /\ \A x \in Calls \ {c} : pc'[x] = pc[x] /\ ret'[x] = ret[x]
      /\ UNCHANGED <<k_auditsec_info, auditsec_answer, kt, usai, decided, expired>>
  BY DEF CheckLaunched, TypeOK
<1>2. UNCHANGED <<hook_lock, question_lock, answer_lock>>
  BY DEF CheckLaunched
<1>3. TypeOK'
  BY <1>2 DEF CheckLaunched, TypeOK, CallPc
<1>4. /\ \A x \in Calls : /\ Owns(x)' <=> Owns(x)
                          /\ Asking(x)' <=> Asking(x)
                          /\ Granted(x)' <=> Granted(x)
      /\ \A e \in Daemons : Serves(e)' <=> Serves(e)
  BY <1>1, <1>2 DEF Waiters, Owns, Asking, Granted, Serves
<1>5. Waiters'
  BY <1>1, <1>2 DEF Waiters
<1>6. HookMutex'
  BY <1>1, <1>2, <1>4 DEF HookMutex, Waiters, TypeOK, Sem
<1>7. Progress'
  BY <1>1, <1>2, <1>4 DEF Progress, HookMutex, Waiters, Owns
<1>8. Baton'
  BY <1>1, <1>2, <1>4
     DEF Baton, Unanswered, Answered, HookMutex, Progress, Asking, Owns, TypeOK, Sem
<1>9. VerdictIsForTheCall'
  BY <1>1, <1>2 DEF VerdictIsForTheCall, Progress, Baton, Answered, Granted
<1> QED
  BY <1>3, <1>5, <1>6, <1>7, <1>8, <1>9

\* A call takes the free hook_lock.
LEMMA DownHookLockFreeStep ==
  ASSUME IInv, NEW c \in Calls, DownHookLock(c), Free(hook_lock)
  PROVE  IInv'
<1> USE DEF IInv
<1>1. /\ pc[c] = "lock" /\ pc'[c] = "fill" /\ k_auditsec_info' = Torn
      /\ \A x \in Calls \ {c} : pc'[x] = pc[x]
      /\ UNCHANGED <<question_lock, answer_lock, auditsec_answer, ret, kt, usai, decided, expired>>
  BY DEF DownHookLock, TypeOK
<1>2. /\ hook_lock' \in Sem(Calls) /\ Distinct(hook_lock') /\ hook_lock'.count = 0
      /\ hook_lock.count = 1 /\ \A x \in Calls : ~Owns(x)
      /\ \A v : Sleeps(hook_lock', v) <=> Sleeps(hook_lock, v)
  BY <1>1, TakeFacts DEF DownHookLock, TypeOK, Waiters, HookMutex, Free, Sem
<1>3. TypeOK'
  BY <1>2 DEF DownHookLock, TypeOK, CallPc
<1>4. /\ \A x \in Calls : /\ Owns(x)' <=> x = c
                          /\ ~Asking(x) /\ ~Asking(x)' /\ ~Granted(x) /\ ~Granted(x)'
      /\ \A e \in Daemons : Serves(e)' <=> Serves(e)
  BY <1>1, <1>2 DEF Waiters, Owns, Asking, Granted, Serves
<1>5. Waiters'
  BY <1>1, <1>2 DEF Waiters
<1>6. HookMutex'
  BY <1>1, <1>2, <1>4 DEF HookMutex, Waiters, TypeOK, Sem
<1>7. Progress'
  BY <1>1, <1>2, <1>4 DEF Progress, HookMutex, Waiters, Owns
<1>8. Baton'
  <2>1. expired = {} => ~Unanswered /\ ~Answered
    BY <1>4, InFlightCall
  <2> QED
    BY <1>1, <1>2, <1>4, <2>1
       DEF Serves, Baton, Unanswered, Answered, HookMutex, Progress, Asking, Owns,
           TypeOK, Sem
<1>9. VerdictIsForTheCall'
  BY <1>1, <1>2 DEF VerdictIsForTheCall, Progress, Baton, Answered, Granted
<1> QED
  BY <1>3, <1>5, <1>6, <1>7, <1>8, <1>9

\* A call goes to sleep on the taken hook_lock.
LEMMA DownHookLockTakenStep ==
  ASSUME IInv, NEW c \in Calls, DownHookLock(c), ~Free(hook_lock)
  PROVE  IInv'
<1> USE DEF IInv
<1>1. /\ pc[c] = "lock" /\ pc'[c] = "lock_wait"
      /\ \A x \in Calls \ {c} : pc'[x] = pc[x]
      /\ UNCHANGED <<question_lock, answer_lock, ret>>
      /\ UNCHANGED <<k_auditsec_info, auditsec_answer, kt, usai, decided, expired>>
  BY DEF DownHookLock, TypeOK
<1>2. /\ hook_lock' \in Sem(Calls) /\ Distinct(hook_lock')
      /\ hook_lock'.count = hook_lock.count /\ hook_lock.count = 0
      /\ \A v : Sleeps(hook_lock', v) <=> Sleeps(hook_lock, v) \/ v = c
  BY <1>1, SleepFacts DEF DownHookLock, TypeOK, Waiters, Free, Sem
<1>3. TypeOK'
  BY <1>2 DEF DownHookLock, TypeOK, CallPc
<1>4. /\ \A x \in Calls : /\ Owns(x)' <=> Owns(x)
                          /\ Asking(x)' <=> Asking(x)
                          /\ Granted(x)' <=> Granted(x)
      /\ \A e \in Daemons : Serves(e)' <=> Serves(e)
  BY <1>1, <1>2 DEF Waiters, Owns, Asking, Granted, Serves
<1>5. Waiters'
  BY <1>1, <1>2 DEF Waiters
<1>6. HookMutex'
  BY <1>1, <1>2, <1>4 DEF HookMutex, Waiters, TypeOK, Sem
<1>7. Progress'
  BY <1>1, <1>2, <1>4 DEF Progress, HookMutex, Waiters, Owns
<1>8. Baton'
  BY <1>1, <1>2, <1>4
     DEF Baton, Unanswered, Answered, HookMutex, Progress, Asking, Owns, TypeOK, Sem
<1>9. VerdictIsForTheCall'
  BY <1>1, <1>2 DEF VerdictIsForTheCall, Progress, Baton, Answered, Granted
<1> QED
  BY <1>3, <1>5, <1>6, <1>7, <1>8, <1>9

\* A call that was granted hook_lock starts to write.
LEMMA WakeHookLockStep ==
  ASSUME IInv, NEW c \in Calls, WakeHookLock(c)
  PROVE  IInv'
<1> USE DEF IInv
<1>1. /\ pc[c] = "lock_wait" /\ pc'[c] = "fill" /\ k_auditsec_info' = Torn /\ Owns(c)
      /\ ~Sleeps(hook_lock, c)
      /\ \A x \in Calls \ {c} : pc'[x] = pc[x]
      /\ UNCHANGED <<ret, auditsec_answer, kt, usai, decided, expired>>
  BY DEF WakeHookLock, TypeOK, Owns
<1>2. UNCHANGED <<hook_lock, question_lock, answer_lock>>
  BY DEF WakeHookLock
<1>3. TypeOK'
  BY <1>2 DEF WakeHookLock, TypeOK, CallPc, Owns
<1>4. /\ \A x \in Calls : /\ Owns(x)' <=> Owns(x)
                          /\ Asking(x)' <=> Asking(x)
                          /\ Granted(x)' <=> Granted(x)
                          /\ ~Asking(x)
      /\ \A e \in Daemons : Serves(e)' <=> Serves(e)
  BY <1>1, <1>2, OwnerFacts DEF Waiters, Owns, Asking, Granted, Serves
<1>5. Waiters'
  BY <1>1, <1>2 DEF Waiters
<1>6. HookMutex'
  BY <1>1, <1>2, <1>4 DEF HookMutex, Waiters, TypeOK, Sem
<1>7. Progress'
  BY <1>1, <1>2, <1>4 DEF Progress, HookMutex, Waiters, Owns
<1>8. Baton'
  <2>1. expired = {} => ~Unanswered /\ ~Answered
    BY <1>4, InFlightCall
  <2> QED
    BY <1>1, <1>2, <1>4, <2>1
       DEF Serves, Baton, Unanswered, Answered, HookMutex, Progress, Asking, Owns,
           TypeOK, Sem
<1>9. VerdictIsForTheCall'
  BY <1>1, <1>2 DEF VerdictIsForTheCall, Progress, Baton, Answered, Granted
<1> QED
  BY <1>3, <1>5, <1>6, <1>7, <1>8, <1>9

\* A call gives up waiting for hook_lock.
LEMMA TimeoutHookLockStep ==
  ASSUME IInv, NEW c \in Calls, TimeoutHookLock(c)
  PROVE  IInv'
<1> USE DEF IInv
<1>1. /\ pc[c] = "lock_wait" /\ Sleeps(hook_lock, c) /\ pc'[c] = "done" /\ ret'[c] = "EFAULT"
      /\ \A x \in Calls \ {c} : pc'[x] = pc[x] /\ ret'[x] = ret[x]
      /\ UNCHANGED <<question_lock, answer_lock>>
      /\ UNCHANGED <<k_auditsec_info, auditsec_answer, kt, usai, decided, expired>>
  BY DEF TimeoutHookLock, TypeOK
<1>2. /\ hook_lock' \in Sem(Calls) /\ Distinct(hook_lock')
      /\ hook_lock'.count = hook_lock.count
      /\ \A v : Sleeps(hook_lock', v) <=> Sleeps(hook_lock, v) /\ v # c
  BY <1>1, LeaveFacts DEF TimeoutHookLock, TypeOK, Waiters
<1>3. TypeOK'
  BY <1>2 DEF TimeoutHookLock, TypeOK, CallPc
<1>4. /\ \A x \in Calls : /\ Owns(x)' <=> Owns(x)
                          /\ Asking(x)' <=> Asking(x)
                          /\ Granted(x)' <=> Granted(x)
      /\ \A e \in Daemons : Serves(e)' <=> Serves(e)
  BY <1>1, <1>2 DEF Waiters, Owns, Asking, Granted, Serves
<1>5. Waiters'
  BY <1>1, <1>2 DEF Waiters
<1>6. HookMutex'
  BY <1>1, <1>2, <1>4 DEF HookMutex, Waiters, TypeOK, Sem
<1>7. Progress'
  BY <1>1, <1>2, <1>4 DEF Progress, HookMutex, Waiters, Owns
<1>8. Baton'
  BY <1>1, <1>2, <1>4
     DEF Baton, Unanswered, Answered, HookMutex, Progress, Asking, Owns, TypeOK, Sem
<1>9. VerdictIsForTheCall'
  BY <1>1, <1>2 DEF VerdictIsForTheCall, Progress, Baton, Answered, Granted
<1> QED
  BY <1>3, <1>5, <1>6, <1>7, <1>8, <1>9

\* A call hands its question over.
LEMMA UpQuestionLockStep ==
  ASSUME IInv, NEW c \in Calls, UpQuestionLock(c)
  PROVE  IInv'
<1> USE DEF IInv
<1>1. /\ pc[c] = "fill" /\ pc'[c] = "ask" /\ k_auditsec_info' = c /\ Owns(c)
      /\ \A x \in Calls \ {c} : pc'[x] = pc[x]
      /\ UNCHANGED <<hook_lock, answer_lock, ret, auditsec_answer, kt, usai, decided, expired>>
  BY DEF UpQuestionLock, TypeOK, Owns
<1>2. /\ question_lock' \in Sem(Daemons) /\ Distinct(question_lock')
      /\ \/ /\ \A v : ~Sleeps(question_lock, v) /\ ~Sleeps(question_lock', v)
            /\ question_lock'.count = question_lock.count + 1
         \/ /\ question_lock'.count = question_lock.count
            /\ \E h \in Daemons : /\ Sleeps(question_lock, h)
                             /\ \A v : Sleeps(question_lock', v) <=> Sleeps(question_lock, v) /\ v # h
  BY <1>1, UpFacts DEF UpQuestionLock, TypeOK, Waiters
<1>3. TypeOK'
  BY <1>2 DEF UpQuestionLock, TypeOK, CallPc, Owns
<1>4. /\ \A x \in Calls : /\ Owns(x)' <=> Owns(x)
                          /\ Asking(x)' <=> x = c
                          /\ ~Asking(x)
                          /\ ~Granted(x) /\ ~Granted(x)'
  BY <1>1, <1>2, OwnerFacts DEF Waiters, Owns, Asking, Granted, Serves
<1>5. Waiters'
  BY <1>1, <1>2 DEF Waiters
<1>6. HookMutex'
  BY <1>1, <1>2, <1>4 DEF HookMutex, Waiters, TypeOK, Sem
<1>7. Progress'
  BY <1>1, <1>2, <1>4 DEF Progress, HookMutex, Waiters, Owns
<1>8. Baton'
  <2>1. expired = {} => ~Unanswered /\ ~Answered
    BY <1>4, InFlightCall
  <2> QED
    BY <1>1, <1>2, <1>4, <2>1
       DEF Serves, Baton, Unanswered, Answered, HookMutex, Progress, Asking, Owns,
           TypeOK, Sem
<1>9. VerdictIsForTheCall'
  BY <1>1, <1>2 DEF VerdictIsForTheCall, Progress, Baton, Answered, Granted
<1> QED
  BY <1>3, <1>5, <1>6, <1>7, <1>8, <1>9

\* The answer is already there.
LEMMA DownAnswerLockFreeStep ==
  ASSUME IInv, NEW c \in Calls, DownAnswerLock(c), Free(answer_lock)
  PROVE  IInv'
<1> USE DEF IInv
<1>1. /\ pc[c] = "ask" /\ pc'[c] = "answered" /\ Owns(c)
      /\ \A x \in Calls \ {c} : pc'[x] = pc[x]
      /\ UNCHANGED <<hook_lock, question_lock, ret>>
      /\ UNCHANGED <<k_auditsec_info, auditsec_answer, kt, usai, decided, expired>>
  BY DEF DownAnswerLock, TypeOK, Owns
<1>2. /\ answer_lock' \in Sem(Calls) /\ Distinct(answer_lock')
      /\ answer_lock'.count = answer_lock.count - 1 /\ answer_lock.count > 0
      /\ \A v : Sleeps(answer_lock', v) <=> Sleeps(answer_lock, v)
  BY <1>1, TakeFacts DEF DownAnswerLock, TypeOK, Waiters, Free, Sem
<1>3. TypeOK'
  BY <1>2 DEF DownAnswerLock, TypeOK, CallPc, Owns
<1>4. /\ \A x \in Calls : /\ Owns(x)' <=> Owns(x)
                          /\ Asking(x)' <=> Asking(x)
                          /\ Granted(x)' <=> Granted(x) \/ x = c
      /\ \A e \in Daemons : Serves(e)' <=> Serves(e)
  BY <1>1, <1>2 DEF Waiters, Owns, Asking, Granted, Serves
<1>5. Waiters'
  BY <1>1, <1>2 DEF Waiters
<1>6. HookMutex'
  BY <1>1, <1>2, <1>4 DEF HookMutex, Waiters, TypeOK, Sem
<1>7. Progress'
  BY <1>1, <1>2, <1>4 DEF Progress, HookMutex, Waiters, Owns
<1>8. Baton'
  BY <1>1, <1>2, <1>4
     DEF Baton, Unanswered, Answered, HookMutex, Progress, Asking, Owns, TypeOK, Sem
<1>9. VerdictIsForTheCall'
  BY <1>1, <1>2 DEF VerdictIsForTheCall, Progress, Baton, Answered, Granted
<1> QED
  BY <1>3, <1>5, <1>6, <1>7, <1>8, <1>9

\* The call goes to sleep until the answer comes.
LEMMA DownAnswerLockTakenStep ==
  ASSUME IInv, NEW c \in Calls, DownAnswerLock(c), ~Free(answer_lock)
  PROVE  IInv'
<1> USE DEF IInv
<1>1. /\ pc[c] = "ask" /\ pc'[c] = "answer_wait" /\ Owns(c)
      /\ \A x \in Calls \ {c} : pc'[x] = pc[x]
      /\ UNCHANGED <<hook_lock, question_lock, ret>>
      /\ UNCHANGED <<k_auditsec_info, auditsec_answer, kt, usai, decided, expired>>
  BY DEF DownAnswerLock, TypeOK, Owns
<1>2. /\ answer_lock' \in Sem(Calls) /\ Distinct(answer_lock')
      /\ answer_lock'.count = answer_lock.count
      /\ \A v : Sleeps(answer_lock', v) <=> Sleeps(answer_lock, v) \/ v = c
  BY <1>1, SleepFacts DEF DownAnswerLock, TypeOK, Waiters, Free, Sem
<1>3. TypeOK'
  BY <1>2 DEF DownAnswerLock, TypeOK, CallPc, Owns
<1>4. /\ \A x \in Calls : /\ Owns(x)' <=> Owns(x)
                          /\ Asking(x)' <=> Asking(x)
                          /\ Granted(x)' <=> Granted(x)
      /\ \A e \in Daemons : Serves(e)' <=> Serves(e)
  BY <1>1, <1>2 DEF Waiters, Owns, Asking, Granted, Serves
<1>5. Waiters'
  BY <1>1, <1>2 DEF Waiters
<1>6. HookMutex'
  BY <1>1, <1>2, <1>4 DEF HookMutex, Waiters, TypeOK, Sem
<1>7. Progress'
  BY <1>1, <1>2, <1>4 DEF Progress, HookMutex, Waiters, Owns
<1>8. Baton'
  BY <1>1, <1>2, <1>4
     DEF Baton, Unanswered, Answered, HookMutex, Progress, Asking, Owns, TypeOK, Sem
<1>9. VerdictIsForTheCall'
  BY <1>1, <1>2 DEF VerdictIsForTheCall, Progress, Baton, Answered, Granted
<1> QED
  BY <1>3, <1>5, <1>6, <1>7, <1>8, <1>9

\* A call that was granted the answer goes on to read it.
LEMMA WakeAnswerLockStep ==
  ASSUME IInv, NEW c \in Calls, WakeAnswerLock(c)
  PROVE  IInv'
<1> USE DEF IInv
<1>1. /\ pc[c] = "answer_wait" /\ pc'[c] = "answered"
      /\ \A x \in Calls \ {c} : pc'[x] = pc[x]
      /\ UNCHANGED ret
      /\ ~Sleeps(answer_lock, c)
      /\ UNCHANGED <<k_auditsec_info, auditsec_answer, kt, usai, decided, expired>>
  BY DEF WakeAnswerLock, TypeOK
<1>2. UNCHANGED <<hook_lock, question_lock, answer_lock>>
  BY DEF WakeAnswerLock
<1>3. TypeOK'
  BY <1>2 DEF WakeAnswerLock, TypeOK, CallPc
<1>4. /\ \A x \in Calls : /\ Owns(x)' <=> Owns(x)
                          /\ Asking(x)' <=> Asking(x)
                          /\ Granted(x)' <=> Granted(x)
      /\ \A e \in Daemons : Serves(e)' <=> Serves(e)
  BY <1>1, <1>2 DEF Waiters, Owns, Asking, Granted, Serves
<1>5. Waiters'
  BY <1>1, <1>2 DEF Waiters
<1>6. HookMutex'
  BY <1>1, <1>2, <1>4 DEF HookMutex, Waiters, TypeOK, Sem
<1>7. Progress'
  BY <1>1, <1>2, <1>4 DEF Progress, HookMutex, Waiters, Owns
<1>8. Baton'
  <2>1. Granted(c)
    BY <1>1 DEF Granted
  <2>2. expired = {} => ~Unanswered /\ answer_lock.count = 0
    BY <2>1 DEF Baton, Answered, TypeOK, Sem
  <2> QED
    BY <1>1, <1>2, <1>4, <2>1, <2>2
       DEF Baton, Unanswered, Answered, HookMutex, Progress, Asking, Owns, TypeOK, Sem
<1>9. VerdictIsForTheCall'
  BY <1>1, <1>2 DEF VerdictIsForTheCall, Progress, Baton, Answered, Granted
<1> QED
  BY <1>3, <1>5, <1>6, <1>7, <1>8, <1>9

\* A call gives up waiting for its answer: from here on only the locks are kept.
LEMMA TimeoutAnswerLockStep ==
  ASSUME IInv, NEW c \in Calls, TimeoutAnswerLock(c)
  PROVE  IInv'
<1> USE DEF IInv
<1>1. /\ pc[c] = "answer_wait" /\ pc'[c] = "drain" /\ expired' = expired \cup {c}
      /\ \A x \in Calls \ {c} : pc'[x] = pc[x]
      /\ UNCHANGED <<hook_lock, question_lock, ret, k_auditsec_info, auditsec_answer,
                     kt, usai, decided>>
  BY DEF TimeoutAnswerLock, TypeOK
<1>2. /\ answer_lock' \in Sem(Calls) /\ Distinct(answer_lock')
      /\ \A v : Sleeps(answer_lock', v) <=> Sleeps(answer_lock, v) /\ v # c
  BY <1>1, LeaveFacts DEF TimeoutAnswerLock, TypeOK, Waiters
<1>3. TypeOK'
  BY <1>2 DEF TimeoutAnswerLock, TypeOK, CallPc
<1>4. \A x \in Calls : (Owns(x)' <=> Owns(x)) /\ (Asking(x)' <=> Asking(x))
  BY <1>1, <1>2 DEF Waiters, Owns, Asking, Granted, Serves
<1>5. Waiters'
  BY <1>1, <1>2 DEF Waiters
<1>6. HookMutex'
  BY <1>1, <1>2, <1>4 DEF HookMutex, Waiters, TypeOK, Sem
<1>7. Progress'
  BY <1>1, <1>2, <1>4 DEF Progress, HookMutex, Waiters, Owns
<1>8. Baton'
  BY <1>1, <1>2, <1>4
     DEF Baton, Unanswered, Answered, HookMutex, Progress, Asking, Owns, TypeOK, Sem
<1>9. VerdictIsForTheCall'
  BY <1>1, <1>2 DEF VerdictIsForTheCall, Progress, Baton, Answered, Granted
<1> QED
  BY <1>3, <1>5, <1>6, <1>7, <1>8, <1>9

\* A call that gave up withdraws its question and releases hook_lock.
LEMMA DrainQuestionStep ==
  ASSUME IInv, NEW c \in Calls, DrainQuestion(c)
  PROVE  IInv'
<1> USE DEF IInv
<1>1. /\ pc[c] = "drain" /\ pc'[c] = "done" /\ ret'[c] = "EFAULT" /\ Owns(c)
      /\ \A x \in Calls \ {c} : pc'[x] = pc[x] /\ ret'[x] = ret[x]
      /\ UNCHANGED <<answer_lock, k_auditsec_info, auditsec_answer, kt, usai, decided, expired>>
  BY DEF DrainQuestion, TypeOK, Owns
<1>2. /\ question_lock' \in Sem(Daemons) /\ Distinct(question_lock')
      /\ \A v : Sleeps(question_lock', v) <=> Sleeps(question_lock, v)
      /\ hook_lock' \in Sem(Calls) /\ Distinct(hook_lock')
      /\ \/ /\ \A v : ~Sleeps(hook_lock, v) /\ ~Sleeps(hook_lock', v)
            /\ hook_lock'.count = hook_lock.count + 1
         \/ /\ hook_lock'.count = hook_lock.count
            /\ \E h \in Calls : /\ Sleeps(hook_lock, h)
                             /\ \A v : Sleeps(hook_lock', v) <=> Sleeps(hook_lock, v) /\ v # h
  BY <1>1, UpFacts, TrylockFacts DEF DrainQuestion, TypeOK, Waiters
<1>3. TypeOK'
  BY <1>2 DEF DrainQuestion, TypeOK, CallPc, Owns
<1>4. \A x \in Calls : Asking(x)' <=> Asking(x) /\ x # c
  BY <1>1, <1>2 DEF Waiters, Owns, Asking, Granted, Serves
<1>10. hook_lock.count = 0 /\ \A x \in Calls : Owns(x) => x = c
  BY <1>1, OwnerFacts
<1>5. Waiters'
  BY <1>1, <1>2, <1>10 DEF Waiters
<1>6. HookMutex'
  <2>1. CASE \A v : ~Sleeps(hook_lock, v)
    <3>1. hook_lock'.count = 1 /\ \A x \in Calls : ~Sleeps(hook_lock', x)
      BY <1>2, <1>10, <2>1
    <3>2. \A x \in Calls : ~Owns(x)'
      BY <1>1, <1>10, <2>1 DEF Owns
    <3> QED
      BY <3>1, <3>2 DEF HookMutex
  <2>2. CASE \E v : Sleeps(hook_lock, v)
    <3>1. PICK h \in Calls : /\ Sleeps(hook_lock, h)
                            /\ \A v : Sleeps(hook_lock', v) <=> Sleeps(hook_lock, v) /\ v # h
      BY <1>2, <2>2
    <3>2. hook_lock'.count = 0
      BY <1>2, <1>10, <2>2
    <3>3. pc[h] = "lock_wait" /\ h # c
      BY <1>1, <3>1 DEF Waiters
    <3>4. \A x \in Calls : Owns(x)' <=> x = h
      BY <1>1, <1>10, <3>1, <3>3 DEF Owns, Waiters
    <3> QED
      BY <3>2, <3>4 DEF HookMutex
  <2> QED
    BY <2>1, <2>2
<1>7. Progress'
  BY <1>1, <1>2, <1>4 DEF Progress, HookMutex, Waiters, Owns
<1>8. Baton'
  BY <1>1, <1>2, <1>4
     DEF Baton, Unanswered, Answered, HookMutex, Progress, Asking, Owns, TypeOK, Sem
<1>9. VerdictIsForTheCall'
  BY <1>1, <1>2 DEF VerdictIsForTheCall, Progress, Baton, Answered, Granted
<1> QED
  BY <1>3, <1>5, <1>6, <1>7, <1>8, <1>9

\* A call reads its answer and releases hook_lock.
LEMMA ReadAnswerStep ==
  ASSUME IInv, NEW c \in Calls, ReadAnswer(c)
  PROVE  IInv'
<1> USE DEF IInv
<1>1. /\ pc[c] = "answered" /\ pc'[c] = "done" /\ Owns(c)
      /\ ret'[c] = IF auditsec_answer = 0 THEN "EACCES" ELSE "0"
      /\ \A x \in Calls \ {c} : pc'[x] = pc[x] /\ ret'[x] = ret[x]
      /\ UNCHANGED <<question_lock, answer_lock, k_auditsec_info, auditsec_answer, kt,
                     usai, decided, expired>>
  BY DEF ReadAnswer, TypeOK, Owns
<1>2. /\ hook_lock' \in Sem(Calls) /\ Distinct(hook_lock')
      /\ \/ /\ \A v : ~Sleeps(hook_lock, v) /\ ~Sleeps(hook_lock', v)
            /\ hook_lock'.count = hook_lock.count + 1
         \/ /\ hook_lock'.count = hook_lock.count
            /\ \E h \in Calls : /\ Sleeps(hook_lock, h)
                             /\ \A v : Sleeps(hook_lock', v) <=> Sleeps(hook_lock, v) /\ v # h
  BY <1>1, UpFacts DEF ReadAnswer, TypeOK, Waiters
<1>3. TypeOK'
  BY <1>2 DEF ReadAnswer, TypeOK, CallPc, Owns
<1>4. /\ \A x \in Calls : /\ Asking(x)' <=> Asking(x) /\ x # c
                          /\ Granted(x)' <=> Granted(x) /\ x # c
      /\ \A e \in Daemons : Serves(e)' <=> Serves(e)
      /\ Granted(c)
  BY <1>1, <1>2 DEF Waiters, Owns, Asking, Granted, Serves
<1>10. hook_lock.count = 0 /\ \A x \in Calls : Owns(x) => x = c
  BY <1>1, OwnerFacts
<1>5. Waiters'
  BY <1>1, <1>2, <1>10 DEF Waiters
<1>6. HookMutex'
  <2>1. CASE \A v : ~Sleeps(hook_lock, v)
    <3>1. hook_lock'.count = 1 /\ \A x \in Calls : ~Sleeps(hook_lock', x)
      BY <1>2, <1>10, <2>1
    <3>2. \A x \in Calls : ~Owns(x)'
      BY <1>1, <1>10, <2>1 DEF Owns
    <3> QED
      BY <3>1, <3>2 DEF HookMutex
  <2>2. CASE \E v : Sleeps(hook_lock, v)
    <3>1. PICK h \in Calls : /\ Sleeps(hook_lock, h)
                            /\ \A v : Sleeps(hook_lock', v) <=> Sleeps(hook_lock, v) /\ v # h
      BY <1>2, <2>2
    <3>2. hook_lock'.count = 0
      BY <1>2, <1>10, <2>2
    <3>3. pc[h] = "lock_wait" /\ h # c
      BY <1>1, <3>1 DEF Waiters
    <3>4. \A x \in Calls : Owns(x)' <=> x = h
      BY <1>1, <1>10, <3>1, <3>3 DEF Owns, Waiters
    <3> QED
      BY <3>2, <3>4 DEF HookMutex
  <2> QED
    BY <2>1, <2>2
<1>7. Progress'
  BY <1>1, <1>2, <1>4 DEF Progress, HookMutex, Waiters, Owns
<1>8. Baton'
  <2>1. Asking(c)
    BY <1>1 DEF Asking
  <2>2. ASSUME expired = {}
        PROVE  ~Unanswered /\ answer_lock.count = 0 /\ \A x \in Calls : Granted(x) => x = c
    <3>1. \A x \in Calls : Granted(x) => Asking(x)
      BY DEF Granted, Asking
    <3>2. ~Unanswered /\ answer_lock.count = 0
      BY <1>4, <2>2 DEF Baton, Answered, TypeOK, Sem
    <3> QED
      BY <3>1, <3>2, <1>1, OwnerFacts
  <2>3. expired = {} => ~Unanswered' /\ ~Answered'
    BY <1>1, <1>4, <2>2 DEF Unanswered, Answered
  <2> QED
    BY <1>1, <1>4, <2>1, <2>3 DEF Baton, Unanswered, Answered
<1>9. VerdictIsForTheCall'
  <2>1. k_auditsec_info = c
    BY <1>1 DEF Progress, Asking
  <2>2. expired = {} => decided[c] = IF auditsec_answer = 0 THEN "deny" ELSE "allow"
    BY <1>4, <2>1 DEF Baton, Answered
  <2> QED
    BY <1>1, <2>2 DEF VerdictIsForTheCall
<1> QED
  BY <1>3, <1>5, <1>6, <1>7, <1>8, <1>9

\* KThread is no longer contextd and ends, takes the question that is there, or sleeps.
LEMMA QuestionStep ==
  ASSUME IInv, NEW d \in Daemons, Question(d)
  PROVE  IInv'
<1> USE DEF IInv
<1>1. /\ kt[d] = "loop"
      /\ \A e \in Daemons \ {d} : kt'[e] = kt[e]
      /\ UNCHANGED <<hook_lock, answer_lock, pc, ret, k_auditsec_info, auditsec_answer,
                     decided, expired>>
      /\ usai' = usai
  BY DEF Question, TypeOK
<1>2. /\ question_lock' \in Sem(Daemons) /\ Distinct(question_lock')
      /\ \/ /\ kt'[d] = "ended" /\ question_lock' = question_lock
         \/ /\ kt'[d] = "copy" /\ question_lock.count > 0
            /\ question_lock'.count = question_lock.count - 1
            /\ \A v : Sleeps(question_lock', v) <=> Sleeps(question_lock, v)
         \/ /\ kt'[d] = "wait" /\ question_lock'.count = question_lock.count
            /\ \A v : Sleeps(question_lock', v) <=> Sleeps(question_lock, v) \/ v = d
  <2>1. CASE ~IsContextd(d)
    BY <2>1 DEF Question, TypeOK, Waiters
  <2>2. CASE IsContextd(d) /\ Free(question_lock)
    <3>1. question_lock' = Take(question_lock) /\ kt'[d] = "copy" /\ question_lock \in Sem(Daemons)
      BY <2>2 DEF Question, TypeOK
    <3> QED
      BY <2>2, <3>1, TakeFacts DEF Waiters, Free
  <2>3. CASE IsContextd(d) /\ ~Free(question_lock)
    <3>1. /\ question_lock' = Sleep(question_lock, d) /\ kt'[d] = "wait"
          /\ question_lock \in Sem(Daemons) /\ ~Sleeps(question_lock, d)
      BY <1>1, <2>3 DEF Question, TypeOK, Waiters
    <3> QED
      BY <2>3, <3>1, SleepFacts DEF Waiters
  <2> QED
    BY <2>1, <2>2, <2>3
<1>3. TypeOK'
  BY <1>2 DEF Question, TypeOK, CallPc
<1>4. /\ \A x \in Calls : /\ Owns(x)' <=> Owns(x)
                          /\ Asking(x)' <=> Asking(x)
                          /\ Granted(x)' <=> Granted(x)
      /\ \A e \in Daemons : e # d => (Serves(e)' <=> Serves(e))
      /\ ~Serves(d)
      /\ Serves(d)' => question_lock.count > 0 /\ question_lock'.count = question_lock.count - 1
      /\ ~Serves(d)' => question_lock'.count = question_lock.count
  BY <1>1, <1>2 DEF Waiters, Owns, Asking, Granted, Serves
<1>5. Waiters'
  BY <1>1, <1>2 DEF Waiters
<1>6. HookMutex'
  BY <1>1, <1>2, <1>4 DEF HookMutex, Waiters, TypeOK, Sem
<1>7. Progress'
  BY <1>1, <1>2, <1>4 DEF Progress, HookMutex, Waiters, Owns
<1>8. Baton'
  BY <1>1, <1>2, <1>4
     DEF Baton, Unanswered, Answered, HookMutex, Progress, Asking, Owns, TypeOK, Sem
<1>9. VerdictIsForTheCall'
  BY <1>1, <1>2 DEF VerdictIsForTheCall, Progress, Baton, Answered, Granted
<1> QED
  BY <1>3, <1>5, <1>6, <1>7, <1>8, <1>9

\* KThread was granted a question.
LEMMA WakeQuestionStep ==
  ASSUME IInv, NEW d \in Daemons, WakeQuestion(d)
  PROVE  IInv'
<1> USE DEF IInv
<1>1. /\ kt[d] = "wait" /\ ~Sleeps(question_lock, d) /\ kt'[d] = "copy"
      /\ \A e \in Daemons \ {d} : kt'[e] = kt[e]
      /\ UNCHANGED <<hook_lock, answer_lock, pc, ret, k_auditsec_info, auditsec_answer,
                     decided, expired>>
      /\ usai' = usai
  BY DEF WakeQuestion, TypeOK
<1>2. UNCHANGED <<hook_lock, question_lock, answer_lock>>
  BY DEF WakeQuestion
<1>3. TypeOK'
  BY <1>2 DEF WakeQuestion, TypeOK, CallPc
<1>4. /\ \A x \in Calls : /\ Owns(x)' <=> Owns(x)
                          /\ Asking(x)' <=> Asking(x)
                          /\ Granted(x)' <=> Granted(x)
      /\ \A e \in Daemons : Serves(e)' <=> Serves(e)
  BY <1>1, <1>2 DEF Waiters, Owns, Asking, Granted, Serves
<1>5. Waiters'
  BY <1>1, <1>2 DEF Waiters
<1>6. HookMutex'
  BY <1>1, <1>2, <1>4 DEF HookMutex, Waiters, TypeOK, Sem
<1>7. Progress'
  BY <1>1, <1>2, <1>4 DEF Progress, HookMutex, Waiters, Owns
<1>8. Baton'
  BY <1>1, <1>2, <1>4
     DEF Baton, Unanswered, Answered, HookMutex, Progress, Asking, Owns, TypeOK, Sem
<1>9. VerdictIsForTheCall'
  BY <1>1, <1>2 DEF VerdictIsForTheCall, Progress, Baton, Answered, Granted
<1> QED
  BY <1>3, <1>5, <1>6, <1>7, <1>8, <1>9

\* A signal ends the wait of KThread.
LEMMA InterruptQuestionStep ==
  ASSUME IInv, NEW d \in Daemons, InterruptQuestion(d)
  PROVE  IInv'
<1> USE DEF IInv
<1>1. /\ kt[d] = "wait" /\ Sleeps(question_lock, d) /\ kt'[d] = "ended"
      /\ \A e \in Daemons \ {d} : kt'[e] = kt[e]
      /\ UNCHANGED <<hook_lock, answer_lock, pc, ret, k_auditsec_info, auditsec_answer,
                     decided, expired>>
      /\ usai' = usai
  BY DEF InterruptQuestion, TypeOK
<1>2. /\ question_lock' \in Sem(Daemons) /\ Distinct(question_lock')
      /\ question_lock'.count = question_lock.count
      /\ \A v : Sleeps(question_lock', v) <=> Sleeps(question_lock, v) /\ v # d
  BY <1>1, LeaveFacts DEF InterruptQuestion, TypeOK, Waiters
<1>3. TypeOK'
  BY <1>2 DEF InterruptQuestion, TypeOK, CallPc
<1>4. /\ \A x \in Calls : /\ Owns(x)' <=> Owns(x)
                          /\ Asking(x)' <=> Asking(x)
                          /\ Granted(x)' <=> Granted(x)
      /\ \A e \in Daemons : Serves(e)' <=> Serves(e)
  BY <1>1, <1>2 DEF Waiters, Owns, Asking, Granted, Serves
<1>5. Waiters'
  BY <1>1, <1>2 DEF Waiters
<1>6. HookMutex'
  BY <1>1, <1>2, <1>4 DEF HookMutex, Waiters, TypeOK, Sem
<1>7. Progress'
  BY <1>1, <1>2, <1>4 DEF Progress, HookMutex, Waiters, Owns
<1>8. Baton'
  BY <1>1, <1>2, <1>4
     DEF Baton, Unanswered, Answered, HookMutex, Progress, Asking, Owns, TypeOK, Sem
<1>9. VerdictIsForTheCall'
  BY <1>1, <1>2 DEF VerdictIsForTheCall, Progress, Baton, Answered, Granted
<1> QED
  BY <1>3, <1>5, <1>6, <1>7, <1>8, <1>9

\* KThread reads the question.
LEMMA CopyStep ==
  ASSUME IInv, NEW d \in Daemons, Copy(d)
  PROVE  IInv'
<1> USE DEF IInv
<1>1. /\ kt[d] = "copy" /\ kt'[d] = "decide" /\ usai'[d] = k_auditsec_info
      /\ \A e \in Daemons \ {d} : kt'[e] = kt[e] /\ usai'[e] = usai[e]
      /\ UNCHANGED <<hook_lock, answer_lock, pc, ret, k_auditsec_info, auditsec_answer,
                     decided, expired>>
  BY DEF Copy, TypeOK
<1>2. UNCHANGED <<hook_lock, question_lock, answer_lock>>
  BY DEF Copy
<1>3. TypeOK'
  BY <1>2 DEF Copy, TypeOK, CallPc
<1>4. /\ \A x \in Calls : /\ Owns(x)' <=> Owns(x)
                          /\ Asking(x)' <=> Asking(x)
                          /\ Granted(x)' <=> Granted(x)
      /\ \A e \in Daemons : Serves(e)' <=> Serves(e)
  BY <1>1, <1>2 DEF Waiters, Owns, Asking, Granted, Serves
<1>5. Waiters'
  BY <1>1, <1>2 DEF Waiters
<1>6. HookMutex'
  BY <1>1, <1>2, <1>4 DEF HookMutex, Waiters, TypeOK, Sem
<1>7. Progress'
  BY <1>1, <1>2, <1>4 DEF Progress, HookMutex, Waiters, Owns
<1>8. Baton'
  BY <1>1, <1>2, <1>4
     DEF Baton, Unanswered, Answered, HookMutex, Progress, Asking, Owns, TypeOK, Sem
<1>9. VerdictIsForTheCall'
  BY <1>1, <1>2 DEF VerdictIsForTheCall, Progress, Baton, Answered, Granted
<1> QED
  BY <1>3, <1>5, <1>6, <1>7, <1>8, <1>9

\* Losing a daemon that serves a question loses the question and no more.
LEMMA DropStep ==
  ASSUME IInv, TypeOK', NEW d \in Daemons,
         kt'[d] \in {"loop", "ended"},
         \A e \in Daemons \ {d} : kt'[e] = kt[e],
         question_lock' \in Sem(Daemons), Distinct(question_lock'),
         question_lock'.count = question_lock.count,
         \A v : Sleeps(question_lock', v) <=> Sleeps(question_lock, v) /\ v # d,
         UNCHANGED <<hook_lock, answer_lock, pc, ret, k_auditsec_info, auditsec_answer, usai,
                     decided, expired>>
  PROVE  IInv'
<1> USE DEF IInv
<1>1. /\ \A x \in Calls : /\ Owns(x)' <=> Owns(x)
                          /\ Asking(x)' <=> Asking(x)
                          /\ Granted(x)' <=> Granted(x)
      /\ \A e \in Daemons : Serves(e)' <=> Serves(e) /\ e # d
  BY DEF Owns, Asking, Granted, Serves
<1>2. Waiters'
  BY DEF Waiters
<1>3. HookMutex' /\ Progress'
  BY <1>1 DEF HookMutex, Progress
<1>4. Baton'
  BY <1>1 DEF Baton, Unanswered, Answered
<1>5. VerdictIsForTheCall'
  BY DEF VerdictIsForTheCall
<1> QED
  BY <1>2, <1>3, <1>4, <1>5

\* A daemon that serves the question q answers it with v: KThread through
\* sys_auditsec_answer, or sys_auditsec_question itself after a failed copy.
LEMMA GiveAnswerStep ==
  ASSUME IInv, TypeOK', NEW d \in Daemons, NEW q \in Calls \cup {Torn}, NEW v \in {0, 1},
         kt[d] \in {"copy", "decide"},
         expired = {} => q = k_auditsec_info,
         kt'[d] \in {"loop", "ended"},
         \A e \in Daemons \ {d} : kt'[e] = kt[e],
         auditsec_answer' = v,
         answer_lock' = up(answer_lock),
         Decide(q, v),
         UNCHANGED <<hook_lock, question_lock, pc, ret, k_auditsec_info, usai, expired>>
  PROVE  IInv'
<1> USE DEF IInv
<1>1. /\ Distinct(answer_lock')
      /\ \/ /\ \A x : ~Sleeps(answer_lock, x) /\ ~Sleeps(answer_lock', x)
            /\ answer_lock'.count = answer_lock.count + 1
         \/ /\ answer_lock'.count = answer_lock.count
            /\ \E h \in Calls : /\ Sleeps(answer_lock, h)
                             /\ \A x : Sleeps(answer_lock', x) <=> Sleeps(answer_lock, x) /\ x # h
  BY UpFacts DEF TypeOK, Waiters
<1>2. /\ \A x \in Calls : (Owns(x)' <=> Owns(x)) /\ (Asking(x)' <=> Asking(x))
      /\ \A e \in Daemons : Serves(e)' <=> Serves(e) /\ e # d
      /\ Serves(d)
  BY DEF Owns, Asking, Serves, Waiters
<1>3. Waiters'
  BY <1>1 DEF Waiters
<1>4. HookMutex' /\ Progress'
  BY <1>2 DEF HookMutex, Progress
<1>5. ASSUME expired = {}
      PROVE  /\ q = k_auditsec_info /\ q \in Calls /\ pc[q] \in {"ask", "answer_wait"}
             /\ question_lock.count = 0 /\ answer_lock.count = 0
             /\ \A x \in Calls : ~Granted(x)
             /\ \A e \in Daemons : ~Serves(e)'
             /\ decided'[q] = IF v = 0 THEN "deny" ELSE "allow"
             /\ \A x \in Calls \ {q} : decided'[x] = decided[x]
  <2>1. /\ question_lock.count = 0 /\ answer_lock.count = 0
        /\ \A x \in Calls : ~Granted(x)
        /\ \A e \in Daemons : ~Serves(e)'
    BY <1>2, <1>5 DEF Baton, Unanswered, Answered, TypeOK, Sem
  <2>2. q = k_auditsec_info /\ q \in Calls /\ pc[q] \in {"ask", "answer_wait"}
    BY <1>2, <1>5 DEF Baton, Unanswered
  <2> QED
    BY <2>1, <2>2 DEF Decide, TypeOK
<1>6. ASSUME expired = {}
      PROVE  /\ answer_lock'.count <= 1
             /\ answer_lock'.count > 0 => \A x \in Calls : ~Granted(x)'
             /\ \A x \in Calls : Granted(x)' => x = q
  <2>1. \A x \in Calls : Asking(x) => x = q
    BY <1>5, <1>6 DEF Progress
  <2>2. \A x \in Calls : Granted(x)' => Asking(x)
    BY DEF Granted, Asking
  <2>3. \A x \in Calls : Granted(x)' => /\ ~Sleeps(answer_lock', x) /\ pc[x] = "answer_wait"
                                       /\ Sleeps(answer_lock, x)
    BY <1>5, <1>6 DEF Granted
  <2> QED
    BY <1>1, <1>5, <1>6, <2>1, <2>2, <2>3
<1>7. Baton'
  BY <1>2, <1>5, <1>6 DEF Baton, Unanswered, Answered, Serves, Progress, Asking
<1>8. VerdictIsForTheCall'
  BY <1>5 DEF VerdictIsForTheCall, Progress
<1> QED
  BY <1>3, <1>4, <1>7, <1>8

\* A failed copy refuses the operation.
LEMMA CopyFailsStep ==
  ASSUME IInv, NEW d \in Daemons, CopyFails(d)
  PROVE  IInv'
<1>1. answer_lock' \in Sem(Calls)
  BY UpFacts DEF CopyFails, IInv, TypeOK, Waiters
<1>2. TypeOK'
  BY <1>1 DEF CopyFails, Decide, IInv, TypeOK
<1> QED
  BY <1>2, GiveAnswerStep DEF CopyFails, IInv, TypeOK

\* An answer counts if the daemon is contextd and is lost otherwise.
LEMMA AnswerStep ==
  ASSUME IInv, NEW d \in Daemons, NEW v \in {0, 1}, Answer(d, v)
  PROVE  IInv'
<1>1. CASE IsContextd(d)
  <2>1. answer_lock' \in Sem(Calls)
    BY <1>1, UpFacts DEF Answer, IInv, TypeOK, Waiters
  <2>2. TypeOK'
    BY <1>1, <2>1 DEF Answer, Decide, IInv, TypeOK
  <2>3. expired = {} => usai[d] = k_auditsec_info
    BY DEF Answer, IInv, Baton
  <2> QED
    BY <1>1, <2>2, <2>3, GiveAnswerStep DEF Answer, IInv, TypeOK
<1>2. CASE ~IsContextd(d)
  <2>1. TypeOK'
    BY <1>2 DEF Answer, IInv, TypeOK
  <2> QED
    BY <1>2, <2>1, DropStep DEF Answer, IInv, TypeOK, Waiters
<1> QED
  BY <1>1, <1>2

\* A process that exits leaves the wait list of question_lock.
LEMMA ExitStep ==
  ASSUME IInv, NEW d \in Daemons, Exit(d),
         contextd_pid' \in Daemons \cup {NoPid}, daemon_launched' \in BOOLEAN,
         prog_list' \in SUBSET Progs,
         UNCHANGED <<hook_lock, answer_lock, k_auditsec_info, auditsec_answer, pc, ret, usai,
                     reset, decided, expired>>
  PROVE  IInv'
<1>1. /\ question_lock' \in Sem(Daemons) /\ Distinct(question_lock')
      /\ question_lock'.count = question_lock.count
      /\ \A v : Sleeps(question_lock', v) <=> Sleeps(question_lock, v) /\ v # d
  <2>1. CASE Sleeps(question_lock, d)
    BY <2>1, LeaveFacts DEF Exit, IInv, TypeOK, Waiters
  <2>2. CASE ~Sleeps(question_lock, d)
    BY <2>2 DEF Exit, IInv, TypeOK, Waiters
  <2> QED
    BY <2>1, <2>2
<1>2. TypeOK'
  BY <1>1 DEF Exit, Main, IInv, TypeOK
<1> QED
  BY <1>1, <1>2, DropStep DEF Exit, IInv, TypeOK

\* The main thread and the reset file touch no lock, except when a process exits.
LEMMA MainStep ==
  ASSUME IInv, NEW d \in Daemons, MainNext(d)
  PROVE  IInv'
<1> USE DEF IInv
<1>1. CASE RegCheck(d) \/ RegPid(d) \/ RegLaunched(d) \/ StopPid(d)
  <2>1. TypeOK'
    BY <1>1 DEF RegCheck, RegPid, RegLaunched, StopPid, Main, TypeOK
  <2> QED
    BY <1>1, <2>1, Frame DEF RegCheck, RegPid, RegLaunched, StopPid
<1>2. CASE \E p \in Progs : RegProg(d, p) \/ UnregProg(d, p)
  <2>1. TypeOK'
    BY <1>2 DEF RegProg, UnregProg, TypeOK
  <2> QED
    BY <1>2, <2>1, Frame DEF RegProg, UnregProg
<1>3. CASE StartKThread(d)
  <2>1. TypeOK'
    BY <1>3 DEF StartKThread, TypeOK
  <2> QED
    BY <1>3, <2>1, DropStep DEF StartKThread, TypeOK, Waiters
<1>4. CASE StopLaunched(d)
  BY <1>4, ExitStep DEF StopLaunched, TypeOK
<1>5. CASE Die(d)
  BY <1>5, ExitStep DEF Die, TypeOK
<1> QED
  BY <1>1, <1>2, <1>3, <1>4, <1>5 DEF MainNext

\* A write to /proc/contextd/status disturbs no call: it changes only the
\* three variables of the registration.
LEMMA ResetStep ==
  ASSUME IInv, ResetLaunched \/ ResetPid
  PROVE  IInv'
<1>1. TypeOK'
  BY DEF ResetLaunched, ResetPid, IInv, TypeOK
<1> QED
  BY <1>1, Frame DEF ResetLaunched, ResetPid

\* Every step of a hook keeps the invariant.
LEMMA CallStep ==
  ASSUME IInv, NEW c \in Calls, CallNext(c)
  PROVE  IInv'
BY EnterUnmonitoredStep, EnterMonitoredStep, CheckLaunchedStep, DownHookLockFreeStep,
   DownHookLockTakenStep, WakeHookLockStep, TimeoutHookLockStep, UpQuestionLockStep,
   DownAnswerLockFreeStep, DownAnswerLockTakenStep, WakeAnswerLockStep,
   TimeoutAnswerLockStep, DrainQuestionStep, ReadAnswerStep
   DEF CallNext, HookStep

\* Every step of KThread keeps the invariant.
LEMMA KThreadStep ==
  ASSUME IInv, NEW d \in Daemons, KThreadNext(d)
  PROVE  IInv'
BY QuestionStep, WakeQuestionStep, InterruptQuestionStep, CopyStep, CopyFailsStep, AnswerStep
   DEF KThreadNext

\* IInv is an invariant of the handshake.
THEOREM IInvHolds == Spec => []IInv
<1>1. IInv /\ [Next]_vars => IInv'
  <2> SUFFICES ASSUME IInv, [Next]_vars PROVE IInv'
    OBVIOUS
  <2>1. CASE Next
    BY <2>1, CallStep, MainStep, KThreadStep, ResetStep DEF Next
  <2>2. CASE UNCHANGED vars
    <3>1. TypeOK'
      BY <2>2 DEF vars, IInv, TypeOK
    <3> QED
      BY <2>2, <3>1, Frame DEF vars
  <2> QED
    BY <2>1, <2>2
<1> QED
  BY <1>1, InitIInv, PTL DEF Spec

-----------------------------------------------------------------------------
(* What follows from it.                                                    *)

\* Every variable keeps its type: no semaphore goes below zero.
THEOREM TypeCorrect == Spec => []TypeOK
BY IInvHolds, PTL DEF IInv

\* hook_lock is a mutex and no wake-up is lost, for any number of calls and
\* daemons, through every timeout, crash and reset.
THEOREM HookMutexHolds == Spec => []HookMutex
BY IInvHolds, PTL DEF IInv

\* Until some call has waited in vain for its answer, what a hook returns was
\* decided about that very call.
THEOREM VerdictHolds == Spec => []VerdictIsForTheCall
BY IInvHolds, PTL DEF IInv

\* Until then, contextd decides on complete questions, of the call that waits.
THEOREM QuestionHolds == Spec => []QuestionIsWhole
<1>1. IInv => QuestionIsWhole
  <2> SUFFICES ASSUME IInv, expired = {}, NEW d \in Daemons, kt[d] = "decide"
               PROVE  usai[d] # Torn /\ Owns(usai[d])
    BY DEF QuestionIsWhole
  <2>1. Unanswered
    BY DEF Unanswered, Serves
  <2>2. usai[d] = k_auditsec_info
    BY DEF IInv, Baton
  <2> QED
    BY <2>1, <2>2, InFlightCall DEF Asking, Owns
<1> QED
  BY <1>1, IInvHolds, PTL

-----------------------------------------------------------------------------
(* The drift of the two semaphores: what is in flight is counted.           *)

\* A set with one more element.
LEMMA OneMore ==
  ASSUME NEW X, NEW Y, NEW x, IsFiniteSet(X), x \notin X, Y = X \cup {x}
  PROVE  IsFiniteSet(Y) /\ Cardinality(Y) = Cardinality(X) + 1
BY FS_AddElement

\* And with one less.
LEMMA OneLess ==
  ASSUME NEW X, NEW Y, NEW x, IsFiniteSet(X), x \in X, Y = X \ {x}
  PROVE  IsFiniteSet(Y) /\ Cardinality(Y) = Cardinality(X) - 1
BY FS_RemoveElement

\* The counts are numbers.
LEMMA DriftTypes ==
  ASSUME IInv, DriftInv
  PROVE  /\ question_lock \in Sem(Daemons) /\ answer_lock \in Sem(Calls)
         /\ question_lock.count \in Nat /\ answer_lock.count \in Nat
         /\ IsFiniteSet(Servers) /\ IsFiniteSet(Grantees)
         /\ IsFiniteSet(InTime) /\ IsFiniteSet(expired)
         /\ Cardinality(Servers) \in Nat /\ Cardinality(Grantees) \in Nat
         /\ Cardinality(InTime) \in Nat /\ Cardinality(expired) \in Nat
         /\ question_lock.count + Cardinality(Servers) + answer_lock.count
              + Cardinality(Grantees) <= Cardinality(expired) + Cardinality(InTime)
<1>1. question_lock \in Sem(Daemons) /\ answer_lock \in Sem(Calls)
  BY DEF IInv, TypeOK
<1>2. question_lock.count \in Nat /\ answer_lock.count \in Nat
  BY <1>1 DEF Sem
<1> QED
  BY <1>1, <1>2, FS_CardinalityType DEF DriftInv

\* A step that puts nothing in flight: a question or a server of one may be lost.
LEMMA DriftQuiet ==
  ASSUME IInv, IInv', DriftInv, Servers' \subseteq Servers,
         question_lock'.count <= question_lock.count, answer_lock'.count = answer_lock.count,
         Grantees' = Grantees, InTime' = InTime, expired' = expired,
         \A c \in expired : pc'[c] \in {"drain", "done"}
  PROVE  DriftInv'
<1> DEFINE a == answer_lock.count
           q == question_lock.count
           s == Cardinality(Servers)
           g == Cardinality(Grantees)
           e == Cardinality(expired)
           i == Cardinality(InTime)
<1>1. /\ q \in Nat /\ a \in Nat /\ s \in Nat /\ g \in Nat /\ e \in Nat /\ i \in Nat
      /\ q + s + a + g <= e + i
      /\ IsFiniteSet(Servers) /\ IsFiniteSet(Grantees)
      /\ IsFiniteSet(InTime) /\ IsFiniteSet(expired)
  BY DriftTypes
<1>2. IsFiniteSet(Servers') /\ Cardinality(Servers') <= s /\ Cardinality(Servers') \in Nat
  BY <1>1, FS_Subset, FS_CardinalityType
<1>3. question_lock'.count \in Nat
  BY DEF IInv, TypeOK, Sem
<1>4. question_lock'.count + Cardinality(Servers') + answer_lock'.count
        + Cardinality(Grantees') <= Cardinality(expired') + Cardinality(InTime')
  <2> HIDE DEF a, q, s, g, e, i
  <2>1. question_lock'.count <= q
    BY DEF q
  <2>2. question_lock'.count + Cardinality(Servers') + a + g <= e + i
    BY ONLY <1>1, <1>2, <1>3, <2>1
  <2> QED
    BY <2>2 DEF a, g, e, i
<1> QED
  BY <1>1, <1>2, <1>4 DEF DriftInv

\* A hook hands over its question: one more waits in time, and one more question
\* is there or a daemon serves it.
LEMMA DriftAsks ==
  ASSUME IInv, IInv', DriftInv, NEW c \in Calls, UpQuestionLock(c)
  PROVE  DriftInv'
<1>1. /\ pc[c] = "fill" /\ pc'[c] = "ask"
      /\ \A x \in Calls \ {c} : pc'[x] = pc[x]
      /\ UNCHANGED <<answer_lock, kt, expired>> /\ question_lock' = up(question_lock)
  BY DEF UpQuestionLock, IInv, TypeOK
<1>2. c \notin InTime /\ InTime' = InTime \cup {c} /\ Grantees' = Grantees
  BY <1>1 DEF InTime, Grantees, Granted
<1>3. \A x \in expired' : pc'[x] \in {"drain", "done"}
  BY <1>1 DEF DriftInv, IInv, TypeOK
<1>4. IsFiniteSet(InTime') /\ Cardinality(InTime') = Cardinality(InTime) + 1
  BY <1>2, DriftTypes, OneMore
<1>5. /\ IsFiniteSet(Servers')
      /\ \/ /\ question_lock'.count = question_lock.count + 1
            /\ Cardinality(Servers') = Cardinality(Servers)
         \/ /\ question_lock'.count = question_lock.count
            /\ Cardinality(Servers') = Cardinality(Servers) + 1
  <2>1. question_lock \in Sem(Daemons) /\ Distinct(question_lock) /\ IsFiniteSet(Servers)
    BY DriftTypes DEF IInv, Waiters
  <2>2. \/ /\ \A v : ~Sleeps(question_lock, v) /\ ~Sleeps(question_lock', v)
           /\ question_lock'.count = question_lock.count + 1
        \/ /\ question_lock'.count = question_lock.count
           /\ \E h \in Daemons :
                /\ Sleeps(question_lock, h)
                /\ \A v : Sleeps(question_lock', v) <=> Sleeps(question_lock, v) /\ v # h
    BY <1>1, <2>1, UpFacts
  <2>3. CASE \A v : ~Sleeps(question_lock, v) /\ ~Sleeps(question_lock', v)
    <3>1. Servers' = Servers
      BY <1>1, <2>3 DEF Servers, Serves
    <3> QED
      BY <2>1, <2>2, <2>3, <3>1
  <2>4. CASE ~\A v : ~Sleeps(question_lock, v) /\ ~Sleeps(question_lock', v)
    <3>1. PICK h \in Daemons :
                /\ Sleeps(question_lock, h)
                /\ \A v : Sleeps(question_lock', v) <=> Sleeps(question_lock, v) /\ v # h
      BY <2>2, <2>4
    <3>2. kt[h] = "wait"
      BY <3>1 DEF IInv, Waiters
    <3>3. h \notin Servers /\ Servers' = Servers \cup {h}
      BY <1>1, <3>1, <3>2 DEF Servers, Serves
    <3>4. IsFiniteSet(Servers') /\ Cardinality(Servers') = Cardinality(Servers) + 1
      BY <2>1, <3>3, OneMore
    <3> QED
      BY <2>2, <2>4, <3>4
  <2> QED
    BY <2>3, <2>4
<1>6. question_lock'.count + Cardinality(Servers') + answer_lock'.count
        + Cardinality(Grantees') <= Cardinality(expired') + Cardinality(InTime')
  BY <1>1, <1>2, <1>4, <1>5, DriftTypes
<1> QED
  BY <1>1, <1>2, <1>3, <1>4, <1>5, <1>6, DriftTypes DEF DriftInv

\* The answer is already there: its unit is granted to the call.
LEMMA DriftTakesAnswer ==
  ASSUME IInv, IInv', DriftInv, NEW c \in Calls, DownAnswerLock(c), Free(answer_lock)
  PROVE  DriftInv'
<1>1. /\ pc[c] = "ask" /\ pc'[c] = "answered"
      /\ \A x \in Calls \ {c} : pc'[x] = pc[x]
      /\ UNCHANGED <<question_lock, kt, expired>> /\ answer_lock' = Take(answer_lock)
  BY DEF DownAnswerLock, IInv, TypeOK
<1>2. /\ answer_lock'.count = answer_lock.count - 1
      /\ \A v : Sleeps(answer_lock', v) <=> Sleeps(answer_lock, v)
  BY <1>1, DriftTypes, TakeFacts
<1>3. c \notin Grantees /\ Grantees' = Grantees \cup {c}
  BY <1>1, <1>2 DEF Grantees, Granted
<1>4. InTime' = InTime /\ Servers' = Servers
  BY <1>1 DEF InTime, Servers, Serves
<1>5. \A x \in expired' : pc'[x] \in {"drain", "done"}
  BY <1>1 DEF DriftInv, IInv, TypeOK
<1>6. IsFiniteSet(Grantees') /\ Cardinality(Grantees') = Cardinality(Grantees) + 1
  BY <1>3, DriftTypes, OneMore
<1>7. question_lock'.count + Cardinality(Servers') + answer_lock'.count
        + Cardinality(Grantees') <= Cardinality(expired') + Cardinality(InTime')
  BY <1>1, <1>2, <1>4, <1>6, DriftTypes
<1> QED
  BY <1>1, <1>4, <1>5, <1>6, <1>7, DriftTypes DEF DriftInv

\* A call gives up: it counts as expired and no longer as waiting in time.
LEMMA DriftExpires ==
  ASSUME IInv, IInv', DriftInv, NEW c \in Calls, TimeoutAnswerLock(c)
  PROVE  DriftInv'
<1>1. /\ pc[c] = "answer_wait" /\ pc'[c] = "drain" /\ expired' = expired \cup {c}
      /\ \A x \in Calls \ {c} : pc'[x] = pc[x]
      /\ UNCHANGED <<question_lock, kt>> /\ answer_lock' = Leave(answer_lock, c)
      /\ Sleeps(answer_lock, c)
  BY DEF TimeoutAnswerLock, IInv, TypeOK
<1>2. /\ answer_lock'.count = answer_lock.count
      /\ \A v : Sleeps(answer_lock', v) <=> Sleeps(answer_lock, v) /\ v # c
  BY <1>1, DriftTypes, LeaveFacts DEF IInv, Waiters
<1>3. c \notin expired /\ c \in InTime /\ InTime' = InTime \ {c}
  BY <1>1 DEF InTime, DriftInv
<1>4. Grantees' = Grantees /\ Servers' = Servers
  BY <1>1, <1>2 DEF Grantees, Granted, Servers, Serves
<1>5. \A x \in expired' : pc'[x] \in {"drain", "done"}
  BY <1>1 DEF DriftInv, IInv, TypeOK
<1>6. /\ IsFiniteSet(InTime') /\ Cardinality(InTime') = Cardinality(InTime) - 1
      /\ IsFiniteSet(expired') /\ Cardinality(expired') = Cardinality(expired) + 1
  BY <1>1, <1>3, DriftTypes, OneMore, OneLess
<1>7. question_lock'.count + Cardinality(Servers') + answer_lock'.count
        + Cardinality(Grantees') <= Cardinality(expired') + Cardinality(InTime')
  BY <1>1, <1>2, <1>4, <1>6, DriftTypes
<1> QED
  BY <1>4, <1>5, <1>6, <1>7, DriftTypes DEF DriftInv

\* A call reads its answer and is done.
LEMMA DriftReads ==
  ASSUME IInv, IInv', DriftInv, NEW c \in Calls, ReadAnswer(c)
  PROVE  DriftInv'
<1>1. /\ pc[c] = "answered" /\ pc'[c] = "done"
      /\ \A x \in Calls \ {c} : pc'[x] = pc[x]
      /\ UNCHANGED <<question_lock, answer_lock, kt, expired>>
  BY DEF ReadAnswer, IInv, TypeOK
<1>2. c \in InTime /\ InTime' = InTime \ {c} /\ c \in Grantees /\ Grantees' = Grantees \ {c}
  BY <1>1 DEF InTime, Grantees, Granted
<1>3. Servers' = Servers
  BY <1>1 DEF Servers, Serves
<1>4. \A x \in expired' : pc'[x] \in {"drain", "done"}
  BY <1>1 DEF DriftInv, IInv, TypeOK
<1>5. /\ IsFiniteSet(InTime') /\ Cardinality(InTime') = Cardinality(InTime) - 1
      /\ IsFiniteSet(Grantees') /\ Cardinality(Grantees') = Cardinality(Grantees) - 1
  BY <1>2, DriftTypes, OneLess
<1>6. question_lock'.count + Cardinality(Servers') + answer_lock'.count
        + Cardinality(Grantees') <= Cardinality(expired') + Cardinality(InTime')
  BY <1>1, <1>3, <1>5, DriftTypes
<1> QED
  BY <1>1, <1>3, <1>4, <1>5, <1>6, DriftTypes DEF DriftInv

\* An answer is given: its server is done, and a unit of answer_lock is there or a
\* call was granted it.
LEMMA DriftAnswers ==
  ASSUME IInv, IInv', DriftInv, NEW d \in Daemons, kt[d] \in {"copy", "decide"},
         kt'[d] \in {"loop", "ended"}, \A e \in Daemons \ {d} : kt'[e] = kt[e],
         answer_lock' = up(answer_lock), UNCHANGED <<question_lock, pc, expired>>
  PROVE  DriftInv'
<1>1. d \in Servers /\ Servers' = Servers \ {d} /\ InTime' = InTime
  BY DEF Servers, Serves, InTime
<1>2. IsFiniteSet(Servers') /\ Cardinality(Servers') = Cardinality(Servers) - 1
  BY <1>1, DriftTypes, OneLess
<1>3. /\ IsFiniteSet(Grantees')
      /\ \/ /\ answer_lock'.count = answer_lock.count + 1
            /\ Cardinality(Grantees') = Cardinality(Grantees)
         \/ /\ answer_lock'.count = answer_lock.count
            /\ Cardinality(Grantees') = Cardinality(Grantees) + 1
  <2>1. answer_lock \in Sem(Calls) /\ Distinct(answer_lock) /\ IsFiniteSet(Grantees)
    BY DriftTypes DEF IInv, Waiters
  <2>2. \/ /\ \A v : ~Sleeps(answer_lock, v) /\ ~Sleeps(answer_lock', v)
           /\ answer_lock'.count = answer_lock.count + 1
        \/ /\ answer_lock'.count = answer_lock.count
           /\ \E h \in Calls :
                /\ Sleeps(answer_lock, h)
                /\ \A v : Sleeps(answer_lock', v) <=> Sleeps(answer_lock, v) /\ v # h
    BY <2>1, UpFacts
  <2>3. CASE \A v : ~Sleeps(answer_lock, v) /\ ~Sleeps(answer_lock', v)
    <3>1. Grantees' = Grantees
      BY <2>3 DEF Grantees, Granted
    <3> QED
      BY <2>1, <2>2, <2>3, <3>1
  <2>4. CASE ~\A v : ~Sleeps(answer_lock, v) /\ ~Sleeps(answer_lock', v)
    <3>1. PICK h \in Calls :
                /\ Sleeps(answer_lock, h)
                /\ \A v : Sleeps(answer_lock', v) <=> Sleeps(answer_lock, v) /\ v # h
      BY <2>2, <2>4
    <3>2. pc[h] = "answer_wait"
      BY <3>1 DEF IInv, Waiters
    <3>3. h \notin Grantees /\ Grantees' = Grantees \cup {h}
      BY <3>1, <3>2 DEF Grantees, Granted
    <3>4. IsFiniteSet(Grantees') /\ Cardinality(Grantees') = Cardinality(Grantees) + 1
      BY <2>1, <3>3, OneMore
    <3> QED
      BY <2>2, <2>4, <3>4
  <2> QED
    BY <2>3, <2>4
<1>4. question_lock'.count + Cardinality(Servers') + answer_lock'.count
        + Cardinality(Grantees') <= Cardinality(expired') + Cardinality(InTime')
  BY <1>1, <1>2, <1>3, DriftTypes
<1> QED
  BY <1>1, <1>2, <1>3, <1>4, DriftTypes DEF DriftInv

\* A question is taken: its unit goes to the daemon that serves it now.
LEMMA DriftQuestion ==
  ASSUME IInv, IInv', DriftInv, NEW d \in Daemons, Question(d)
  PROVE  DriftInv'
<1>1. /\ kt[d] = "loop" /\ \A e \in Daemons \ {d} : kt'[e] = kt[e]
      /\ UNCHANGED <<answer_lock, pc, expired>>
  BY DEF Question, IInv, TypeOK
<1>2. InTime' = InTime /\ Grantees' = Grantees /\ d \notin Servers
  BY <1>1 DEF InTime, Grantees, Granted, Servers, Serves
<1>3. CASE IsContextd(d) /\ Free(question_lock)
  <2>1. question_lock' = Take(question_lock) /\ kt'[d] = "copy"
    BY <1>3 DEF Question, IInv, TypeOK
  <2>2. /\ question_lock'.count = question_lock.count - 1
        /\ \A v : Sleeps(question_lock', v) <=> Sleeps(question_lock, v)
    BY <1>3, <2>1, DriftTypes, TakeFacts
  <2>3. Servers' = Servers \cup {d}
    BY <1>1, <2>1, <2>2 DEF Servers, Serves
  <2>4. IsFiniteSet(Servers') /\ Cardinality(Servers') = Cardinality(Servers) + 1
    BY <1>2, <2>3, DriftTypes, OneMore
  <2>5. question_lock'.count + Cardinality(Servers') + answer_lock'.count
          + Cardinality(Grantees') <= Cardinality(expired') + Cardinality(InTime')
    BY <1>1, <1>2, <2>2, <2>4, DriftTypes
  <2> QED
    BY <1>1, <1>2, <2>4, <2>5 DEF DriftInv
<1>4. CASE ~(IsContextd(d) /\ Free(question_lock))
  <2>1. \/ kt'[d] = "ended" /\ question_lock' = question_lock
        \/ kt'[d] = "wait" /\ question_lock' = Sleep(question_lock, d)
    BY <1>4 DEF Question, IInv, TypeOK
  <2>2. /\ Sleep(question_lock, d).count = question_lock.count
        /\ \A v : Sleeps(Sleep(question_lock, d), v) <=> Sleeps(question_lock, v) \/ v = d
    BY DriftTypes, SleepFacts
  <2>3. Servers' = Servers /\ question_lock'.count = question_lock.count
    BY <1>1, <2>1, <2>2 DEF Servers, Serves
  <2>4. question_lock'.count <= question_lock.count
    BY <2>3, DriftTypes
  <2> QED
    BY <1>1, <1>2, <2>3, <2>4, DriftQuiet DEF DriftInv
<1> QED
  BY <1>3, <1>4

\* KThread ends its wait, goes on with its question or loses it.
LEMMA DriftLoses ==
  ASSUME IInv, IInv', DriftInv, NEW d \in Daemons,
         kt'[d] \in {"copy", "decide"} => Serves(d), kt'[d] # "wait",
         \A e \in Daemons \ {d} : kt'[e] = kt[e],
         question_lock'.count = question_lock.count,
         \A v : v # d => (Sleeps(question_lock', v) <=> Sleeps(question_lock, v)),
         UNCHANGED <<answer_lock, pc, expired>>
  PROVE  DriftInv'
<1>1. InTime' = InTime /\ Grantees' = Grantees /\ Servers' \subseteq Servers
  BY DEF InTime, Grantees, Granted, Servers, Serves
<1>2. question_lock'.count <= question_lock.count
  BY DriftTypes
<1> QED
  BY <1>1, <1>2, DriftQuiet DEF DriftInv

\* A hook that is not between its question and its answer.
LEMMA DriftOtherCall ==
  ASSUME IInv, IInv', DriftInv, NEW c \in Calls,
         pc[c] \notin {"ask", "answer_wait", "answered"},
         pc'[c] \notin {"ask", "answer_wait", "answered"},
         pc[c] \in {"drain", "done"} => pc'[c] \in {"drain", "done"},
         \A x \in Calls \ {c} : pc'[x] = pc[x],
         question_lock'.count <= question_lock.count,
         \A v : Sleeps(question_lock', v) <=> Sleeps(question_lock, v),
         UNCHANGED <<answer_lock, kt, expired>>
  PROVE  DriftInv'
<1>1. InTime' = InTime /\ Grantees' = Grantees /\ Servers' = Servers
  BY DEF InTime, Grantees, Granted, Servers, Serves
<1>2. \A x \in expired : pc'[x] \in {"drain", "done"}
  BY DEF DriftInv, IInv, TypeOK
<1> QED
  BY <1>1, <1>2, DriftQuiet

\* Every step of a hook keeps the bound.
LEMMA DriftCall ==
  ASSUME IInv, IInv', DriftInv, NEW c \in Calls, CallNext(c)
  PROVE  DriftInv'
<1>1. question_lock.count \in Nat /\ question_lock \in Sem(Daemons)
  BY DriftTypes
<1>2. CASE EnterUnmonitored(c) \/ EnterMonitored(c) \/ CheckLaunched(c) \/ DownHookLock(c)
             \/ WakeHookLock(c) \/ TimeoutHookLock(c)
  <2>1. /\ pc[c] \in {"idle", "check", "lock", "lock_wait"}
        /\ pc'[c] \in {"check", "lock", "lock_wait", "fill", "done"}
        /\ \A x \in Calls \ {c} : pc'[x] = pc[x]
        /\ UNCHANGED <<question_lock, answer_lock, kt, expired>>
    BY <1>2 DEF EnterUnmonitored, EnterMonitored, CheckLaunched, DownHookLock, WakeHookLock,
                TimeoutHookLock, IInv, TypeOK
  <2> QED
    BY <1>1, <2>1, DriftOtherCall
<1>3. CASE UpQuestionLock(c)
  BY <1>3, DriftAsks
<1>4. CASE DownAnswerLock(c)
  <2>1. CASE Free(answer_lock)
    BY <1>4, <2>1, DriftTakesAnswer
  <2>2. CASE ~Free(answer_lock)
    <3>1. /\ pc[c] = "ask" /\ pc'[c] = "answer_wait" /\ answer_lock' = Sleep(answer_lock, c)
          /\ \A x \in Calls \ {c} : pc'[x] = pc[x]
          /\ UNCHANGED <<question_lock, kt, expired>>
      BY <1>4, <2>2 DEF DownAnswerLock, IInv, TypeOK
    <3>2. /\ answer_lock'.count = answer_lock.count
          /\ \A v : Sleeps(answer_lock', v) <=> Sleeps(answer_lock, v) \/ v = c
      BY <3>1, DriftTypes, SleepFacts
    <3>3. InTime' = InTime /\ Grantees' = Grantees /\ Servers' = Servers
      BY <3>1, <3>2 DEF InTime, Grantees, Granted, Servers, Serves
    <3>4. \A x \in expired : pc'[x] \in {"drain", "done"}
      BY <3>1 DEF DriftInv, IInv, TypeOK
    <3> QED
      BY <1>1, <3>1, <3>2, <3>3, <3>4, DriftQuiet
  <2> QED
    BY <2>1, <2>2
<1>5. CASE WakeAnswerLock(c)
  <2>1. /\ pc[c] = "answer_wait" /\ pc'[c] = "answered" /\ ~Sleeps(answer_lock, c)
        /\ \A x \in Calls \ {c} : pc'[x] = pc[x]
        /\ UNCHANGED <<question_lock, answer_lock, kt, expired>>
    BY <1>5 DEF WakeAnswerLock, IInv, TypeOK
  <2>2. InTime' = InTime /\ Grantees' = Grantees /\ Servers' = Servers
    BY <2>1 DEF InTime, Grantees, Granted, Servers, Serves
  <2>3. \A x \in expired : pc'[x] \in {"drain", "done"}
    BY <2>1 DEF DriftInv, IInv, TypeOK
  <2> QED
    BY <1>1, <2>1, <2>2, <2>3, DriftQuiet
<1>6. CASE TimeoutAnswerLock(c)
  BY <1>6, DriftExpires
<1>7. CASE DrainQuestion(c)
  <2>1. /\ pc[c] = "drain" /\ pc'[c] = "done" /\ question_lock' = down_trylock(question_lock)
        /\ \A x \in Calls \ {c} : pc'[x] = pc[x]
        /\ UNCHANGED <<answer_lock, kt, expired>>
    BY <1>7 DEF DrainQuestion, IInv, TypeOK
  <2>2. /\ question_lock'.count <= question_lock.count
        /\ \A v : Sleeps(question_lock', v) <=> Sleeps(question_lock, v)
    BY <1>1, <2>1, TrylockFacts
  <2> QED
    BY <2>1, <2>2, DriftOtherCall
<1>8. CASE ReadAnswer(c)
  BY <1>8, DriftReads
<1> QED
  BY <1>2, <1>3, <1>4, <1>5, <1>6, <1>7, <1>8 DEF CallNext, HookStep

\* Every step of KThread keeps the bound.
LEMMA DriftKThread ==
  ASSUME IInv, IInv', DriftInv, NEW d \in Daemons, KThreadNext(d)
  PROVE  DriftInv'
<1>1. CASE Question(d)
  BY <1>1, DriftQuestion
<1>2. CASE WakeQuestion(d) \/ Copy(d)
  <2>1. /\ Serves(d) /\ kt'[d] \in {"copy", "decide"}
        /\ \A e \in Daemons \ {d} : kt'[e] = kt[e]
        /\ UNCHANGED <<question_lock, answer_lock, pc, expired>>
    BY <1>2 DEF WakeQuestion, Copy, Serves, IInv, TypeOK
  <2> QED
    BY <2>1, DriftLoses
<1>3. CASE InterruptQuestion(d)
  <2>1. /\ kt'[d] = "ended" /\ question_lock' = Leave(question_lock, d)
        /\ Sleeps(question_lock, d) /\ \A e \in Daemons \ {d} : kt'[e] = kt[e]
        /\ UNCHANGED <<answer_lock, pc, expired>>
    BY <1>3 DEF InterruptQuestion, IInv, TypeOK
  <2>2. /\ question_lock'.count = question_lock.count
        /\ \A v : Sleeps(question_lock', v) <=> Sleeps(question_lock, v) /\ v # d
    BY <2>1, DriftTypes, LeaveFacts DEF IInv, Waiters
  <2> QED
    BY <2>1, <2>2, DriftLoses
<1>4. CASE CopyFails(d)
  <2>1. /\ kt[d] = "copy" /\ kt'[d] = "ended" /\ answer_lock' = up(answer_lock)
        /\ \A e \in Daemons \ {d} : kt'[e] = kt[e]
        /\ UNCHANGED <<question_lock, pc, expired>>
    BY <1>4 DEF CopyFails, IInv, TypeOK
  <2> QED
    BY <2>1, DriftAnswers
<1>5. ASSUME NEW v \in {0, 1}, Answer(d, v) PROVE DriftInv'
  <2>1. /\ kt[d] = "decide" /\ kt'[d] = "loop" /\ \A e \in Daemons \ {d} : kt'[e] = kt[e]
        /\ UNCHANGED <<question_lock, pc, expired>>
        /\ answer_lock' = up(answer_lock) \/ answer_lock' = answer_lock
    BY <1>5 DEF Answer, IInv, TypeOK
  <2>2. CASE answer_lock' = up(answer_lock)
    BY <2>1, <2>2, DriftAnswers
  <2>3. CASE answer_lock' = answer_lock
    BY <2>1, <2>3, DriftLoses
  <2> QED
    BY <2>1, <2>2, <2>3
<1> QED
  BY <1>1, <1>2, <1>3, <1>4, <1>5 DEF KThreadNext

\* A step that leaves the hooks and KThread alone keeps the bound.
LEMMA DriftFrame ==
  ASSUME IInv, IInv', DriftInv, UNCHANGED <<hooks, kt>>
  PROVE  DriftInv'
<1>1. UNCHANGED <<question_lock, answer_lock, pc, expired, kt>>
  OBVIOUS
<1>2. InTime' = InTime /\ Grantees' = Grantees /\ Servers' = Servers
  BY <1>1 DEF InTime, Grantees, Granted, Servers, Serves
<1> QED
  BY <1>1, <1>2 DEF DriftInv

\* The main thread keeps the bound: a process that dies with a question loses it.
LEMMA DriftMain ==
  ASSUME IInv, IInv', DriftInv, NEW d \in Daemons, MainNext(d)
  PROVE  DriftInv'
<1>1. CASE RegCheck(d) \/ RegPid(d) \/ RegLaunched(d) \/ StopPid(d)
             \/ \E p \in Progs : RegProg(d, p) \/ UnregProg(d, p)
  BY <1>1, DriftFrame DEF RegCheck, RegPid, RegLaunched, StopPid, RegProg, UnregProg
<1>2. CASE StartKThread(d)
  <2>1. /\ kt'[d] = "loop" /\ \A e \in Daemons \ {d} : kt'[e] = kt[e]
        /\ UNCHANGED <<question_lock, answer_lock, pc, expired>>
    BY <1>2 DEF StartKThread, IInv, TypeOK
  <2> QED
    BY <2>1, DriftLoses
<1>3. CASE StopLaunched(d) \/ Die(d)
  <2>1. Exit(d) /\ UNCHANGED <<answer_lock, pc, expired>>
    BY <1>3 DEF StopLaunched, Die
  <2>2. kt'[d] = "ended" /\ \A e \in Daemons \ {d} : kt'[e] = kt[e]
    BY <2>1 DEF Exit, IInv, TypeOK
  <2>3. /\ question_lock'.count = question_lock.count
        /\ \A v : v # d => (Sleeps(question_lock', v) <=> Sleeps(question_lock, v))
    <3>1. CASE Sleeps(question_lock, d)
      BY <2>1, <3>1, DriftTypes, LeaveFacts DEF Exit, IInv, Waiters
    <3>2. CASE ~Sleeps(question_lock, d)
      BY <2>1, <3>2 DEF Exit
    <3> QED
      BY <3>1, <3>2
  <2> QED
    BY <2>1, <2>2, <2>3, DriftLoses
<1> QED
  BY <1>1, <1>2, <1>3 DEF MainNext

\* At the start nothing is in flight.
LEMMA DriftInit == Init => DriftInv
<1> SUFFICES ASSUME Init PROVE DriftInv
  OBVIOUS
<1>1. question_lock.count = 0 /\ answer_lock.count = 0
  BY DEF Init, InitLocks, SemInit
<1>2. Servers = {} /\ Grantees = {} /\ InTime = {} /\ expired = {}
  BY DEF Init, Servers, Serves, Grantees, Granted, InTime
<1>3. IsFiniteSet({}) /\ Cardinality({}) = 0
  BY FS_EmptySet
<1> QED
  BY <1>1, <1>2, <1>3 DEF DriftInv

\* The two semaphores drift by at most the number of answers that were waited for
\* in vain, for any number of calls and daemons.
THEOREM DriftHolds == Spec => []BoundedDrift
<1>1. IInv /\ IInv' /\ DriftInv /\ [Next]_vars => DriftInv'
  <2> SUFFICES ASSUME IInv, IInv', DriftInv, [Next]_vars PROVE DriftInv'
    OBVIOUS
  <2>1. CASE \E c \in Calls : CallNext(c)
    BY <2>1, DriftCall
  <2>2. CASE \E d \in Daemons : MainNext(d) \/ KThreadNext(d)
    BY <2>2, DriftMain, DriftKThread
  <2>3. CASE ResetLaunched \/ ResetPid
    BY <2>3, DriftFrame DEF ResetLaunched, ResetPid
  <2>4. CASE UNCHANGED vars
    BY <2>4, DriftFrame DEF vars
  <2> QED
    BY <2>1, <2>2, <2>3, <2>4 DEF Next
<1>2. IInv /\ DriftInv => BoundedDrift
  <2> SUFFICES ASSUME IInv, DriftInv PROVE BoundedDrift
    OBVIOUS
  <2> DEFINE A == {c \in Calls : Asking(c)}
  <2>1. IsFiniteSet(InTime) /\ IsFiniteSet(expired)
    BY DEF DriftInv
  <2>2. InTime \subseteq A /\ A \subseteq InTime \cup expired
    BY DEF InTime, Asking, IInv, Progress
  <2>3. IsFiniteSet(InTime \cup expired)
    BY <2>1, FS_Union
  <2> HIDE DEF A
  <2>4. IsFiniteSet(A)
    BY <2>2, <2>3, FS_Subset
  <2>5. Cardinality(InTime) <= Cardinality(A) /\ Cardinality(A) \in Nat
    BY <2>2, <2>4, FS_Subset, FS_CardinalityType
  <2>6. question_lock.count + Cardinality(Servers) + answer_lock.count
          + Cardinality(Grantees) <= Cardinality(expired) + Cardinality(A)
    BY <2>5, DriftTypes
  <2> QED
    BY <2>6 DEF BoundedDrift, Servers, Grantees, A
<1> QED
  BY <1>1, <1>2, DriftInit, IInvHolds, PTL DEF Spec

-----------------------------------------------------------------------------
(* The handshake implements the abstract service.                           *)

\* The open call is the asking call, if there is one.
LEMMA OpenCallIs ==
  ASSUME IInv
  PROVE  /\ \A c \in Calls : Asking(c) <=> OpenCall = c
         /\ OpenCall = NoCall <=> \A c \in Calls : ~Asking(c)
BY DEF OpenCall, NoCall, IInv, Progress

\* A step that changes neither the asking calls, nor what is decided or
\* returned, nor whether a call has given up, is a stutter of the service.
LEMMA ServiceStutter ==
  ASSUME IInv, IInv', \A c \in Calls : Asking(c)' <=> Asking(c),
         UNCHANGED <<decided, ret, expired>>
  PROVE  UNCHANGED Service!avars
<1>1. OpenCall' = OpenCall
  <2>1. CASE \A c \in Calls : ~Asking(c)
    BY <2>1 DEF OpenCall
  <2>2. CASE \E c \in Calls : Asking(c)
    <3>1. PICK c \in Calls : Asking(c)
      BY <2>2
    <3>2. k_auditsec_info = c /\ k_auditsec_info' = c
      BY <3>1 DEF IInv, Progress
    <3> QED
      BY <3>1, <3>2 DEF OpenCall
  <2> QED
    BY <2>1, <2>2
<1> QED
  BY <1>1 DEF Service!avars

\* A call that does not ask fails or is exempt.
LEMMA ServiceFail ==
  ASSUME IInv, IInv', NEW c \in Calls, ~Asking(c), ret[c] = "none",
         \A x \in Calls : Asking(x)' <=> Asking(x),
         NEW e \in {"EFAULT", "ENOMEM"}, ret' = [ret EXCEPT ![c] = e],
         UNCHANGED <<k_auditsec_info, decided, expired>>
  PROVE  Service!Fail(c)
<1>1. OpenCall # c /\ OpenCall' = OpenCall
  BY OpenCallIs DEF OpenCall
<1> QED
  BY <1>1 DEF Service!Fail

\* Each step of a call is a step of the service or a stutter.
LEMMA CallRefines ==
  ASSUME IInv, IInv', NEW c \in Calls, CallNext(c)
  PROVE  [Service!ANext]_(Service!avars)
<1>1. ASSUME EnterUnmonitored(c) PROVE Service!Exempt(c)
  <2>1. pc[c] = "idle" /\ ret[c] = "none" /\ ~Asking(c)
    BY <1>1 DEF EnterUnmonitored, IInv, Progress, Asking, TypeOK
  <2>2. \A x \in Calls : Asking(x)' <=> Asking(x)
    BY <1>1, <2>1 DEF EnterUnmonitored, Asking, IInv, TypeOK
  <2>3. OpenCall # c /\ OpenCall' = OpenCall
    BY <1>1, <2>1, <2>2, OpenCallIs DEF OpenCall, EnterUnmonitored
  <2> QED
    BY <1>1, <2>1, <2>3 DEF EnterUnmonitored, Service!Exempt
<1>2. ASSUME EnterMonitored(c) \/ CheckLaunched(c) \/ TimeoutHookLock(c)
      PROVE  Service!Fail(c) \/ UNCHANGED Service!avars
  <2>1. ret[c] = "none" /\ ~Asking(c) /\ UNCHANGED <<k_auditsec_info, decided, expired>>
    BY <1>2 DEF EnterMonitored, CheckLaunched, TimeoutHookLock, IInv, Progress, Asking, TypeOK
  <2>2. \A x \in Calls : Asking(x)' <=> Asking(x)
    BY <1>2 DEF EnterMonitored, CheckLaunched, TimeoutHookLock, Asking, IInv, TypeOK
  <2>3. CASE ret' = ret
    BY <2>1, <2>2, <2>3, ServiceStutter
  <2>4. CASE \E e \in {"EFAULT", "ENOMEM"} : ret' = [ret EXCEPT ![c] = e]
    BY <2>1, <2>2, <2>4, ServiceFail
  <2> QED
    BY <1>2, <2>3, <2>4 DEF EnterMonitored, CheckLaunched, TimeoutHookLock
<1>3. ASSUME DownHookLock(c) \/ WakeHookLock(c) \/ DownAnswerLock(c) \/ WakeAnswerLock(c)
      PROVE  UNCHANGED Service!avars
  <2>1. \A x \in Calls : Asking(x)' <=> Asking(x)
    BY <1>3 DEF DownHookLock, WakeHookLock, DownAnswerLock, WakeAnswerLock, Asking, IInv, TypeOK
  <2> QED
    BY <1>3, <2>1, ServiceStutter DEF DownHookLock, WakeHookLock, DownAnswerLock, WakeAnswerLock
<1>4. ASSUME UpQuestionLock(c) PROVE Service!Submit(c)
  <2>1. Owns(c) /\ ~Asking(c) /\ ret[c] = "none"
    BY <1>4 DEF UpQuestionLock, Owns, Asking, IInv, Progress, TypeOK
  <2>2. OpenCall = NoCall
    BY <2>1, OwnerFacts, OpenCallIs
  <2>3. Asking(c)' /\ k_auditsec_info' = c
    BY <1>4 DEF UpQuestionLock, Asking, IInv, TypeOK
  <2>4. OpenCall' = c
    BY <2>3 DEF OpenCall
  <2> QED
    BY <1>4, <2>1, <2>2, <2>4 DEF UpQuestionLock, Service!Submit, NoCall
<1>5. ASSUME TimeoutAnswerLock(c) PROVE Service!GiveUp(c)
  <2>1. Asking(c) /\ Asking(c)' /\ UNCHANGED k_auditsec_info
    BY <1>5 DEF TimeoutAnswerLock, Asking, IInv, TypeOK
  <2>2. OpenCall = c /\ OpenCall' = OpenCall
    BY <2>1, OpenCallIs DEF OpenCall
  <2>3. (expired # {})' = TRUE
    BY <1>5 DEF TimeoutAnswerLock
  <2> QED
    BY <1>5, <2>2, <2>3 DEF TimeoutAnswerLock, Service!GiveUp
<1>6. ASSUME DrainQuestion(c) PROVE Service!Abandon(c)
  <2>1. Asking(c) /\ Owns(c) /\ expired # {}
    BY <1>6 DEF DrainQuestion, Asking, Owns, IInv, Progress
  <2>2. \A x \in Calls : ~Asking(x)'
    BY <1>6, <2>1, OwnerFacts DEF DrainQuestion, Asking, IInv, TypeOK
  <2>3. OpenCall = c /\ OpenCall' = NoCall
    BY <2>1, <2>2, OpenCallIs DEF OpenCall, NoCall
  <2> QED
    BY <1>6, <2>1, <2>3 DEF DrainQuestion, Service!Abandon, NoCall
<1>7. ASSUME ReadAnswer(c) PROVE Service!Deliver(c)
  <2>1. Asking(c) /\ Owns(c) /\ Granted(c) /\ k_auditsec_info = c
    BY <1>7 DEF ReadAnswer, Asking, Owns, Granted, IInv, Progress
  <2>2. \A x \in Calls : ~Asking(x)'
    BY <1>7, <2>1, OwnerFacts DEF ReadAnswer, Asking, IInv, TypeOK
  <2>3. OpenCall = c /\ OpenCall' = NoCall
    BY <2>1, <2>2, OpenCallIs DEF OpenCall, NoCall
  <2> DEFINE v == IF auditsec_answer = 0 THEN "deny" ELSE "allow"
  <2>4. expired = {} => decided[c] = v
    BY <2>1 DEF IInv, Baton, Answered
  <2>5. v \in Service!Verdict
    BY DEF Service!Verdict
  <2>6. ret' = [ret EXCEPT ![c] = Service!ReturnOf(v)]
    BY <1>7 DEF ReadAnswer, Service!ReturnOf
  <2> HIDE DEF v
  <2> QED
    BY <1>7, <2>3, <2>4, <2>5, <2>6 DEF ReadAnswer, Service!Deliver, NoCall
<1> QED
  BY <1>1, <1>2, <1>3, <1>4, <1>5, <1>6, <1>7 DEF CallNext, HookStep, Service!ANext

\* Deciding about a question is a step of the service or a stutter.
LEMMA DecideRefines ==
  ASSUME IInv, IInv', NEW q \in Calls \cup {Torn}, NEW v \in {0, 1}, Decide(q, v),
         NEW d \in Daemons, Serves(d), expired = {} => q = k_auditsec_info,
         UNCHANGED <<pc, ret, k_auditsec_info, expired>>
  PROVE  (\E c \in Calls : Service!Settle(c)) \/ UNCHANGED Service!avars
<1>1. OpenCall' = OpenCall
  BY DEF OpenCall, Asking
<1>2. CASE q = Torn
  BY <1>1, <1>2 DEF Decide, Service!avars
<1>3. CASE q \in Calls
  <2>1. expired = {} => q = OpenCall /\ decided[q] = "none"
    BY <1>3, InFlightCall, OpenCallIs DEF IInv, Baton, Unanswered
  <2>2. \E w \in Service!Verdict : decided' = [decided EXCEPT ![q] = w]
    BY <1>3 DEF Decide, Service!Verdict
  <2> QED
    BY <1>1, <1>3, <2>1, <2>2 DEF Service!Settle
<1> QED
  BY <1>2, <1>3

\* Each step of KThread is a step of the service or a stutter.
LEMMA KThreadRefines ==
  ASSUME IInv, IInv', NEW d \in Daemons, KThreadNext(d)
  PROVE  [Service!ANext]_(Service!avars)
<1>1. ASSUME Question(d) \/ WakeQuestion(d) \/ InterruptQuestion(d) \/ Copy(d)
      PROVE  UNCHANGED Service!avars
  BY <1>1, ServiceStutter DEF Question, WakeQuestion, InterruptQuestion, Copy, Asking
<1>2. ASSUME CopyFails(d)
      PROVE  (\E c \in Calls : Service!Settle(c)) \/ UNCHANGED Service!avars
  <2>1. Serves(d) /\ k_auditsec_info \in Calls \cup {Torn}
    BY <1>2 DEF CopyFails, Serves, IInv, TypeOK
  <2> QED
    BY <1>2, <2>1, DecideRefines DEF CopyFails
<1>3. ASSUME NEW v \in {0, 1}, Answer(d, v)
      PROVE  (\E c \in Calls : Service!Settle(c)) \/ UNCHANGED Service!avars
  <2>1. Serves(d) /\ usai[d] \in Calls \cup {Torn} /\ (expired = {} => usai[d] = k_auditsec_info)
    BY <1>3 DEF Answer, Serves, IInv, TypeOK, Baton
  <2>2. CASE IsContextd(d)
    BY <1>3, <2>1, <2>2, DecideRefines DEF Answer
  <2>3. CASE ~IsContextd(d)
    BY <1>3, <2>3, ServiceStutter DEF Answer, Asking
  <2> QED
    BY <2>2, <2>3
<1> QED
  BY <1>1, <1>2, <1>3 DEF KThreadNext, Service!ANext

\* The main thread decides nothing: its steps are stutters of the service.
LEMMA MainRefines ==
  ASSUME IInv, IInv', NEW d \in Daemons, MainNext(d)
  PROVE  UNCHANGED Service!avars
<1>1. UNCHANGED <<pc, ret, decided, expired>>
  BY DEF MainNext, RegCheck, RegPid, RegLaunched, RegProg, UnregProg, StartKThread,
     StopPid, StopLaunched, Die
<1> QED
  BY <1>1, ServiceStutter DEF Asking

\* The handshake, with its semaphores, its crashes and its timeouts,
\* implements the service that decides one call at a time.
THEOREM Refinement == Spec => ImplementsService
<1>1. Init => Service!AInit
  BY DEF Init, Service!AInit, OpenCall, Asking, NoCall
<1>2. IInv /\ IInv' /\ [Next]_vars => [Service!ANext]_(Service!avars)
  <2> SUFFICES ASSUME IInv, IInv', [Next]_vars
               PROVE  [Service!ANext]_(Service!avars)
    OBVIOUS
  <2>1. ASSUME ResetLaunched \/ ResetPid PROVE UNCHANGED Service!avars
    BY <2>1, ServiceStutter DEF ResetLaunched, ResetPid, Asking
  <2>2. ASSUME UNCHANGED vars PROVE UNCHANGED Service!avars
    BY <2>2, ServiceStutter DEF vars, Asking
  <2> QED
    BY <2>1, <2>2, CallRefines, KThreadRefines, MainRefines DEF Next
<1> QED
  BY <1>1, <1>2, IInvHolds, PTL DEF Spec, ImplementsService, Service!ASpec
=============================================================================
