------------------------------ MODULE AuditSec ------------------------------
(***************************************************************************)
(* The AuditSec LSM: the four hooks that stop a monitored program until    *)
(* contextd has decided (hooks.c), the three system calls contextd drives  *)
(* it with (syscall.c), the state they share (share.c), the reset file     *)
(* /proc/contextd/status, and the two threads of contextd that make the    *)
(* calls: the main thread, which registers and stops, and KThread, which   *)
(* takes questions and answers them.                                       *)
(*                                                                         *)
(* A call is one invocation of a hook by some task.  A daemon is one       *)
(* process that registers as contextd; a restarted contextd is another     *)
(* one.  contextd_pid, daemon_launched and prog_list are plain variables   *)
(* no lock protects, so the system calls that write two of them do it in   *)
(* two steps here.                                                         *)
(***************************************************************************)
EXTENDS Semaphore, FiniteSets

CONSTANTS
  Calls,      \* invocations of a hook
  Daemons,    \* tgids of the processes that try to be contextd
  Progs,      \* program names (task comm)
  comm,       \* comm[c]: the program that makes call c
  hook,       \* hook[c]: the hook called
  NoPid,      \* contextd_pid = -1
  Torn        \* a k_auditsec_info nobody has completely written

HookTypes == {"inode_mkdir", "file_permission", "socket_bind", "socket_sendmsg"}

ASSUME CommType == comm \in [Calls -> Progs]
ASSUME HookType == hook \in [Calls -> HookTypes]
ASSUME NoPidIsNoDaemon == NoPid \notin Daemons
ASSUME TornIsNoCall == Torn \notin Calls

VARIABLES
  contextd_pid, daemon_launched, prog_list,          \* share.c
  hook_lock, question_lock, answer_lock,
  k_auditsec_info,                                   \* the call it describes
  auditsec_answer,
  pc, ret,                                           \* each call
  mt, kt, usai,                                      \* each daemon
  reset,                                             \* a write to /proc/contextd/status
  decided, expired                                   \* history

shared == <<contextd_pid, daemon_launched, prog_list>>
locks == <<hook_lock, question_lock, answer_lock>>
daemons == <<mt, kt, usai>>
vars == <<contextd_pid, daemon_launched, prog_list, hook_lock, question_lock,
          answer_lock, k_auditsec_info, auditsec_answer, pc, ret, mt, kt, usai,
          reset, decided, expired>>

CallPc == {"idle", "check", "lock", "lock_wait", "fill", "ask", "answer_wait",
           "answered", "drain", "done"}

TypeOK ==
  /\ contextd_pid \in Daemons \cup {NoPid}
  /\ daemon_launched \in BOOLEAN
  /\ prog_list \in SUBSET Progs
  /\ hook_lock \in Sem(Calls)
  /\ question_lock \in Sem(Daemons)
  /\ answer_lock \in Sem(Calls)
  /\ k_auditsec_info \in Calls \cup {Torn}
  /\ auditsec_answer \in {0, 1}
  /\ pc \in [Calls -> CallPc]
  /\ ret \in [Calls -> {"none", "0", "EACCES", "EFAULT", "ENOMEM"}]
  /\ mt \in [Daemons -> {"off", "checked", "named", "up", "stopping", "dead"}]
  /\ kt \in [Daemons -> {"off", "loop", "wait", "copy", "decide", "ended"}]
  /\ usai \in [Daemons -> Calls \cup {Torn}]
  /\ reset \in {"idle", "started"}
  /\ decided \in [Calls -> {"none", "exempt", "allow", "deny"}]
  /\ expired \in SUBSET Calls

\* Mutant: auditsec_init does not take the answer lock.
AnswerLockLeftFree ==
  /\ hook_lock = SemInit(1)
  /\ question_lock = SemInit(0)
  /\ answer_lock = SemInit(1)

\* auditsec_init: hook_lock is a mutex, the other two start taken.
InitLocks ==
  /\ hook_lock = SemInit(1)
  /\ question_lock = SemInit(0)
  /\ answer_lock = SemInit(0)

Init ==
  /\ contextd_pid = NoPid
  /\ daemon_launched = FALSE
  /\ prog_list = {}
  /\ InitLocks
  /\ k_auditsec_info = Torn
  /\ auditsec_answer = 1
  /\ pc = [c \in Calls |-> "idle"]
  /\ ret = [c \in Calls |-> "none"]
  /\ mt = [d \in Daemons |-> "off"]
  /\ kt = [d \in Daemons |-> "off"]
  /\ usai = [d \in Daemons |-> Torn]
  /\ reset = "idle"
  /\ decided = [c \in Calls |-> "none"]
  /\ expired = {}

-----------------------------------------------------------------------------
(* The hooks.  The four bodies differ only in the payload they write and   *)
(* in that the first two allocate a buffer for the path.                   *)

Goto(c, l) == pc' = [pc EXCEPT ![c] = l]

Return(c, r) == Goto(c, "done") /\ ret' = [ret EXCEPT ![c] = r]

prog_is_monitored(c) == comm[c] \in prog_list

Allocates(c) == hook[c] \in {"inode_mkdir", "file_permission"}

\* The program is not monitored: the hook allows at once.
EnterUnmonitored(c) ==
  /\ pc[c] = "idle"
  /\ ~prog_is_monitored(c)
  /\ Return(c, "0")
  /\ decided' = [decided EXCEPT ![c] = "exempt"]
  /\ UNCHANGED <<shared, locks, k_auditsec_info, auditsec_answer, daemons, reset, expired>>

EnterMonitored(c) ==
  /\ pc[c] = "idle"
  /\ prog_is_monitored(c)
  /\ \/ Goto(c, "check") /\ UNCHANGED ret
     \/ Allocates(c) /\ Return(c, "ENOMEM")
  /\ UNCHANGED <<shared, locks, k_auditsec_info, auditsec_answer, daemons, reset,
                 decided, expired>>

CheckLaunched(c) ==
  /\ pc[c] = "check"
  /\ IF daemon_launched THEN Goto(c, "lock") /\ UNCHANGED ret
                        ELSE Return(c, "EFAULT")
  /\ UNCHANGED <<shared, locks, k_auditsec_info, auditsec_answer, daemons, reset,
                 decided, expired>>

\* Owning hook_lock, a call starts to overwrite k_auditsec_info.
StartFill(c) == Goto(c, "fill") /\ k_auditsec_info' = Torn

DownHookLock(c) ==
  /\ pc[c] = "lock"
  /\ IF Free(hook_lock)
       THEN hook_lock' = Take(hook_lock) /\ StartFill(c)
       ELSE /\ hook_lock' = Sleep(hook_lock, c)
            /\ Goto(c, "lock_wait")
            /\ UNCHANGED k_auditsec_info
  /\ UNCHANGED <<shared, question_lock, answer_lock, auditsec_answer, ret, daemons,
                 reset, decided, expired>>

WakeHookLock(c) ==
  /\ pc[c] = "lock_wait"
  /\ ~Sleeps(hook_lock, c)
  /\ StartFill(c)
  /\ UNCHANGED <<shared, locks, auditsec_answer, ret, daemons, reset, decided, expired>>

\* Mutant: a hook that could not take hook_lock releases it all the same.
TimeoutReleasesHookLock(c) ==
  /\ pc[c] = "lock_wait"
  /\ Sleeps(hook_lock, c)
  /\ hook_lock' = up(Leave(hook_lock, c))
  /\ Return(c, "EFAULT")
  /\ UNCHANGED <<shared, question_lock, answer_lock, k_auditsec_info, auditsec_answer,
                 daemons, reset, decided, expired>>

TimeoutHookLock(c) ==
  /\ pc[c] = "lock_wait"
  /\ Sleeps(hook_lock, c)
  /\ hook_lock' = Leave(hook_lock, c)
  /\ Return(c, "EFAULT")
  /\ UNCHANGED <<shared, question_lock, answer_lock, k_auditsec_info, auditsec_answer,
                 daemons, reset, decided, expired>>

\* Mutant: the question is handed over before the structure is written.
UpQuestionLockFirst(c) ==
  /\ pc[c] = "fill"
  /\ question_lock' = up(question_lock)
  /\ Goto(c, "ask")
  /\ UNCHANGED <<shared, hook_lock, answer_lock, k_auditsec_info, auditsec_answer, ret,
                 daemons, reset, decided, expired>>

\* The structure is complete: hand the question over.
UpQuestionLock(c) ==
  /\ pc[c] = "fill"
  /\ k_auditsec_info' = c
  /\ question_lock' = up(question_lock)
  /\ Goto(c, "ask")
  /\ UNCHANGED <<shared, hook_lock, answer_lock, auditsec_answer, ret, daemons, reset,
                 decided, expired>>

DownAnswerLock(c) ==
  /\ pc[c] = "ask"
  /\ IF Free(answer_lock)
       THEN answer_lock' = Take(answer_lock) /\ Goto(c, "answered")
       ELSE answer_lock' = Sleep(answer_lock, c) /\ Goto(c, "answer_wait")
  /\ UNCHANGED <<shared, hook_lock, question_lock, k_auditsec_info, auditsec_answer, ret,
                 daemons, reset, decided, expired>>

WakeAnswerLock(c) ==
  /\ pc[c] = "answer_wait"
  /\ ~Sleeps(answer_lock, c)
  /\ Goto(c, "answered")
  /\ UNCHANGED <<shared, locks, k_auditsec_info, auditsec_answer, ret, daemons, reset,
                 decided, expired>>

\* Mutant: down instead of down_timeout on the answer lock.
NoTimeoutAnswerLock(c) == FALSE /\ UNCHANGED vars

\* 30 s without an answer.  The answer may still come.
TimeoutAnswerLock(c) ==
  /\ pc[c] = "answer_wait"
  /\ Sleeps(answer_lock, c)
  /\ answer_lock' = Leave(answer_lock, c)
  /\ expired' = expired \cup {c}
  /\ Goto(c, "drain")
  /\ UNCHANGED <<shared, hook_lock, question_lock, k_auditsec_info, auditsec_answer, ret,
                 daemons, reset, decided>>

\* Mutant: the question is withdrawn even if somebody has taken it.
DrainAlways(c) ==
  /\ pc[c] = "drain"
  /\ question_lock' = Take(question_lock)
  /\ hook_lock' = up(hook_lock)
  /\ Return(c, "EFAULT")
  /\ UNCHANGED <<shared, answer_lock, k_auditsec_info, auditsec_answer, daemons, reset,
                 decided, expired>>

\* The question is withdrawn if nobody has taken it yet.
DrainQuestion(c) ==
  /\ pc[c] = "drain"
  /\ question_lock' = down_trylock(question_lock)
  /\ hook_lock' = up(hook_lock)
  /\ Return(c, "EFAULT")
  /\ UNCHANGED <<shared, answer_lock, k_auditsec_info, auditsec_answer, daemons, reset,
                 decided, expired>>

ReadAnswer(c) ==
  /\ pc[c] = "answered"
  /\ hook_lock' = up(hook_lock)
  /\ Return(c, IF auditsec_answer = 0 THEN "EACCES" ELSE "0")
  /\ UNCHANGED <<shared, question_lock, answer_lock, k_auditsec_info, auditsec_answer,
                 daemons, reset, decided, expired>>

HookStep(c) ==
  \/ CheckLaunched(c)
  \/ DownHookLock(c) \/ WakeHookLock(c) \/ TimeoutHookLock(c)
  \/ UpQuestionLock(c)
  \/ DownAnswerLock(c) \/ WakeAnswerLock(c) \/ TimeoutAnswerLock(c)
  \/ DrainQuestion(c) \/ ReadAnswer(c)

-----------------------------------------------------------------------------
(* sys_auditsec_reg and the main thread of contextd.                       *)

hooks == <<hook_lock, question_lock, answer_lock, k_auditsec_info, auditsec_answer, pc,
           ret, decided, expired>>

Main(d, l) == mt' = [mt EXCEPT ![d] = l]

\* auditsec_register(1, NULL) finds contextd_pid = -1 ...
RegCheck(d) ==
  /\ mt[d] = "off"
  /\ Main(d, IF contextd_pid = NoPid THEN "checked" ELSE "dead")
  /\ UNCHANGED <<shared, hooks, kt, usai, reset>>

\* ... then writes it ...
RegPid(d) ==
  /\ mt[d] = "checked"
  /\ contextd_pid' = d
  /\ Main(d, "named")
  /\ UNCHANGED <<daemon_launched, prog_list, hooks, kt, usai, reset>>

\* ... then daemon_launched, and returns 1.
RegLaunched(d) ==
  /\ mt[d] = "named"
  /\ daemon_launched' = TRUE
  /\ Main(d, "up")
  /\ UNCHANGED <<contextd_pid, prog_list, hooks, kt, usai, reset>>

\* auditsec_register(1, p) and auditsec_register(0, p), at start and on reload.
RegProg(d, p) ==
  /\ mt[d] = "up"
  /\ contextd_pid = d
  /\ p \notin prog_list
  /\ prog_list' = prog_list \cup {p}
  /\ UNCHANGED <<contextd_pid, daemon_launched, hooks, daemons, reset>>

UnregProg(d, p) ==
  /\ mt[d] = "up"
  /\ contextd_pid = d
  /\ p \in prog_list
  /\ prog_list' = prog_list \ {p}
  /\ UNCHANGED <<contextd_pid, daemon_launched, hooks, daemons, reset>>

StartKThread(d) ==
  /\ mt[d] = "up"
  /\ kt[d] = "off"
  /\ kt' = [kt EXCEPT ![d] = "loop"]
  /\ UNCHANGED <<shared, hooks, mt, usai, reset>>

\* A process that dies leaves the wait lists, whatever it was doing.
Exit(d) ==
  /\ Main(d, "dead")
  /\ kt' = [kt EXCEPT ![d] = "ended"]
  /\ question_lock' = IF Sleeps(question_lock, d) THEN Leave(question_lock, d)
                                                  ELSE question_lock

\* auditsec_register(0, NULL) in the signal handler, then exit: the pid ...
StopPid(d) ==
  /\ mt[d] = "up"
  /\ contextd_pid = d
  /\ contextd_pid' = NoPid
  /\ Main(d, "stopping")
  /\ UNCHANGED <<daemon_launched, prog_list, hooks, kt, usai, reset>>

\* ... then the flag and the list.
StopLaunched(d) ==
  /\ mt[d] = "stopping"
  /\ daemon_launched' = FALSE
  /\ prog_list' = {}
  /\ Exit(d)
  /\ UNCHANGED <<contextd_pid, hook_lock, answer_lock, k_auditsec_info, auditsec_answer,
                 pc, ret, usai, reset, decided, expired>>

\* The same call by a process that is no longer registered, which changes
\* nothing; and a process that is killed, which tells the kernel nothing.  A
\* killed process first finishes the system call its main thread is in.
Die(d) ==
  /\ mt[d] = "up"
  /\ Exit(d)
  /\ UNCHANGED <<shared, hook_lock, answer_lock, k_auditsec_info, auditsec_answer, pc, ret,
                 usai, reset, decided, expired>>

\* auditsec_proc_status_write of a 0, by an administrator.
ResetLaunched ==
  /\ reset = "idle"
  /\ reset' = "started"
  /\ daemon_launched' = FALSE
  /\ UNCHANGED <<contextd_pid, prog_list, hooks, daemons>>

ResetPid ==
  /\ reset = "started"
  /\ reset' = "idle"
  /\ contextd_pid' = NoPid
  /\ prog_list' = {}
  /\ UNCHANGED <<daemon_launched, hooks, daemons>>

-----------------------------------------------------------------------------
(* KThread::run with sys_auditsec_question and sys_auditsec_answer.        *)

KGoto(d, l) == kt' = [kt EXCEPT ![d] = l]

IsContextd(d) == daemon_launched /\ contextd_pid = d

Question(d) ==
  /\ kt[d] = "loop"
  /\ IF ~IsContextd(d)
       THEN KGoto(d, "ended") /\ UNCHANGED question_lock
       ELSE IF Free(question_lock)
              THEN question_lock' = Take(question_lock) /\ KGoto(d, "copy")
              ELSE question_lock' = Sleep(question_lock, d) /\ KGoto(d, "wait")
  /\ UNCHANGED <<shared, hook_lock, answer_lock, k_auditsec_info, auditsec_answer, pc, ret,
                 mt, usai, reset, decided, expired>>

WakeQuestion(d) ==
  /\ kt[d] = "wait"
  /\ ~Sleeps(question_lock, d)
  /\ KGoto(d, "copy")
  /\ UNCHANGED <<shared, hooks, mt, usai, reset>>

\* A signal ends the wait, the call fails, and the loop ends for good.
InterruptQuestion(d) ==
  /\ kt[d] = "wait"
  /\ Sleeps(question_lock, d)
  /\ question_lock' = Leave(question_lock, d)
  /\ KGoto(d, "ended")
  /\ UNCHANGED <<shared, hook_lock, answer_lock, k_auditsec_info, auditsec_answer, pc, ret,
                 mt, usai, reset, decided, expired>>

Copy(d) ==
  /\ kt[d] = "copy"
  /\ usai' = [usai EXCEPT ![d] = k_auditsec_info]
  /\ KGoto(d, "decide")
  /\ UNCHANGED <<shared, hooks, mt, reset>>

\* Record what was decided about the question q.
Decide(q, v) ==
  decided' = IF q = Torn THEN decided
                         ELSE [decided EXCEPT ![q] = IF v = 0 THEN "deny" ELSE "allow"]

\* Mutant: a failed copy refuses the operation and lets contextd answer too.
CopyFailsButReturns(d) ==
  /\ kt[d] = "copy"
  /\ auditsec_answer' = 0
  /\ answer_lock' = up(answer_lock)
  /\ Decide(k_auditsec_info, 0)
  /\ KGoto(d, "decide")
  /\ UNCHANGED <<shared, hook_lock, question_lock, k_auditsec_info, pc, ret, mt, usai, reset,
                 expired>>

\* copy_to_user fails: the kernel itself refuses the operation.
CopyFails(d) ==
  /\ kt[d] = "copy"
  /\ auditsec_answer' = 0
  /\ answer_lock' = up(answer_lock)
  /\ Decide(k_auditsec_info, 0)
  /\ KGoto(d, "ended")
  /\ UNCHANGED <<shared, hook_lock, question_lock, k_auditsec_info, pc, ret, mt, usai, reset,
                 expired>>

\* Sockets and messages are always accepted; a file or directory is decided by
\* KernelContext::domain_changed.  A torn question may be read as any of them.
Verdicts(q) ==
  IF q \in Calls /\ ~Allocates(q) THEN {1} ELSE {0, 1}

Answer(d, v) ==
  /\ kt[d] = "decide"
  /\ v \in Verdicts(usai[d])
  /\ IF IsContextd(d)
       THEN /\ auditsec_answer' = v
            /\ answer_lock' = up(answer_lock)
            /\ Decide(usai[d], v)
       ELSE UNCHANGED <<auditsec_answer, answer_lock, decided>>
  /\ KGoto(d, "loop")
  /\ UNCHANGED <<shared, hook_lock, question_lock, k_auditsec_info, pc, ret, mt, usai, reset,
                 expired>>

-----------------------------------------------------------------------------
CallNext(c) == EnterUnmonitored(c) \/ EnterMonitored(c) \/ HookStep(c)

MainNext(d) ==
  \/ RegCheck(d) \/ RegPid(d) \/ RegLaunched(d)
  \/ \E p \in Progs : RegProg(d, p) \/ UnregProg(d, p)
  \/ StartKThread(d)
  \/ StopPid(d) \/ StopLaunched(d) \/ Die(d)

KThreadNext(d) ==
  \/ Question(d) \/ WakeQuestion(d) \/ InterruptQuestion(d)
  \/ Copy(d) \/ CopyFails(d)
  \/ \E v \in {0, 1} : Answer(d, v)

Next ==
  \/ \E c \in Calls : CallNext(c)
  \/ \E d \in Daemons : MainNext(d) \/ KThreadNext(d)
  \/ ResetLaunched \/ ResetPid

Spec == Init /\ [][Next]_vars

\* A hook that has started keeps running: the kernel schedules its task and
\* every down_timeout ends.
FairSpec == Spec /\ \A c \in Calls : WF_vars(HookStep(c))

-----------------------------------------------------------------------------
(* Properties *)

\* The call owns hook_lock: it was granted it and has not released it.
Owns(c) ==
  \/ pc[c] \in {"fill", "ask", "answer_wait", "answered", "drain"}
  \/ pc[c] = "lock_wait" /\ ~Sleeps(hook_lock, c)

\* hook_lock works as the mutex of k_auditsec_info across every timeout: at
\* most one call owns it, it is free only when no call does, and no call
\* sleeps on it unless another one will release it (no wake-up is lost).
HookMutex ==
  /\ \A c1, c2 \in Calls : Owns(c1) /\ Owns(c2) => c1 = c2
  /\ hook_lock.count = 1 <=> ~ \E c \in Calls : Owns(c)
  /\ \A c \in Calls : Sleeps(hook_lock, c) => \E o \in Calls : Owns(o)

\* Until an answer has been waited for in vain, what a hook returns is what
\* was decided about that very call: 0 only if it was exempt or allowed,
\* -EACCES only if it was denied.
VerdictIsForTheCall ==
  expired = {} =>
    \A c \in Calls : /\ ret[c] = "0" => decided[c] \in {"exempt", "allow"}
                     /\ ret[c] = "EACCES" => decided[c] = "deny"

\* With no condition: no monitored call goes through that contextd did not
\* allow, which is what the locks are there for.
AllowedOnlyByContextd ==
  \A c \in Calls : ret[c] = "0" => decided[c] \in {"exempt", "allow"}

\* Until an answer has been waited for in vain, contextd never decides on a
\* structure that a hook is still writing, and it decides on the question of
\* the call that waits for it.
QuestionIsWhole ==
  expired = {} =>
    \A d \in Daemons : kt[d] = "decide" => /\ usai[d] # Torn
                                           /\ Owns(usai[d])

\* A daemon that holds a question: it was granted question_lock and has not
\* answered yet.
Serves(d) ==
  \/ kt[d] \in {"copy", "decide"}
  \/ kt[d] = "wait" /\ ~Sleeps(question_lock, d)

\* A call that waits for, or has been granted, an answer.
Asking(c) == pc[c] \in {"ask", "answer_wait", "answered", "drain"}

Granted(c) ==
  \/ pc[c] = "answered"
  \/ pc[c] = "answer_wait" /\ ~Sleeps(answer_lock, c)

\* Questions and answers in flight, wherever they are, never exceed the call
\* that asks plus one for each answer that was waited for in vain: the two
\* semaphores drift by at most the number of timeouts.
BoundedDrift ==
  question_lock.count + Cardinality({d \in Daemons : Serves(d)})
    + answer_lock.count + Cardinality({c \in Calls : Granted(c)})
  <= Cardinality(expired) + Cardinality({c \in Calls : Asking(c)})

\* Every hook that has started returns, whatever happens to contextd.
CallReturns ==
  \A c \in Calls : pc[c] \notin {"idle", "done"} ~> pc[c] = "done"

\* The inductive invariant behind these.  Who sleeps on which semaphore:
Waiters ==
  /\ Distinct(hook_lock) /\ Distinct(question_lock) /\ Distinct(answer_lock)
  /\ hook_lock.count <= 1
  /\ \A c \in Calls : /\ Sleeps(hook_lock, c) => pc[c] = "lock_wait"
                      /\ Sleeps(answer_lock, c) => pc[c] = "answer_wait"
  /\ \A d \in Daemons : Sleeps(question_lock, d) => kt[d] = "wait"

\* what a call has come to;
Progress ==
  \A c \in Calls : /\ pc[c] = "done" <=> ret[c] # "none"
                   /\ pc[c] = "drain" => c \in expired
                   /\ Asking(c) => k_auditsec_info = c

\* the one question or answer in flight while every answer came in time.
Unanswered == question_lock.count > 0 \/ \E d \in Daemons : Serves(d)

Answered == answer_lock.count > 0 \/ \E c \in Calls : Granted(c)

Baton ==
  expired = {} =>
    /\ question_lock.count <= 1 /\ answer_lock.count <= 1
    /\ \A d, e \in Daemons : Serves(d) /\ Serves(e) => d = e
    /\ ~(question_lock.count > 0 /\ \E d \in Daemons : Serves(d))
    /\ ~(answer_lock.count > 0 /\ \E c \in Calls : Granted(c))
    /\ ~(Unanswered /\ Answered)
    /\ Unanswered \/ answer_lock.count > 0
         => \E c \in Calls : /\ pc[c] \in {"ask", "answer_wait"}
                            /\ k_auditsec_info = c
    /\ \A d \in Daemons : kt[d] = "decide" => usai[d] = k_auditsec_info
    /\ Unanswered => decided[k_auditsec_info] = "none"
    /\ Answered => decided[k_auditsec_info] = IF auditsec_answer = 0 THEN "deny" ELSE "allow"
    /\ \A c \in Calls : ~Asking(c) /\ pc[c] # "done" => decided[c] = "none"

\* What bounds the drift: a call that has given up counts in expired and no longer
\* as one that waits in time, so that its leaving keeps the bound.
Servers == {d \in Daemons : Serves(d)}
Grantees == {c \in Calls : Granted(c)}
InTime == {c \in Calls : pc[c] \in {"ask", "answer_wait", "answered"}}

DriftInv ==
  /\ IsFiniteSet(Servers) /\ IsFiniteSet(Grantees)
  /\ IsFiniteSet(InTime) /\ IsFiniteSet(expired)
  /\ \A c \in expired : pc[c] \in {"drain", "done"}
  /\ question_lock.count + Cardinality(Servers) + answer_lock.count + Cardinality(Grantees)
       <= Cardinality(expired) + Cardinality(InTime)

IInv == TypeOK /\ Waiters /\ HookMutex /\ Progress /\ Baton /\ VerdictIsForTheCall

\* The abstract service: the open call is the one that has handed over its
\* question and has not returned.
NoCall == Torn

OpenCall == IF \E c \in Calls : Asking(c) THEN k_auditsec_info ELSE NoCall

Service == INSTANCE AuditSecService
             WITH open <- OpenCall, verdict <- decided, result <- ret,
                  degraded <- expired # {}

\* The handshake implements the abstract service, through crashes, restarts,
\* resets, interrupted questions and failed copies.
ImplementsService == Service!ASpec
=============================================================================
