----------------------------- MODULE ProgramList -----------------------------
(***************************************************************************)
(* Which programs the kernel asks contextd about.  KernelContext registers *)
(* the programs of program.d one by one when it starts, and brings the     *)
(* kernel up to date when SIGUSR2 makes it read program.d again; it keeps  *)
(* its own list of what is registered.  The kernel keeps, and compares,    *)
(* the first TASK_COMM_LEN characters of a name: programs whose names      *)
(* begin alike are one to it, and a name that long is never the name of a  *)
(* task, which has one character less.  The handshake is in AuditSec.      *)
(*                                                                         *)
(* Between two system calls program.d may change, contextd may be          *)
(* terminated or killed, and the kernel may be reset through /proc.  No    *)
(* lock is held in the kernel: register_prog may sleep for memory between  *)
(* the tests and the change of the list, and a reset or a stop forgets     *)
(* contextd first and cleans the list later.  A call that has begun ends   *)
(* before its process does; there is one contextd and one reload at a time.*)
(***************************************************************************)
EXTENDS Naturals

CONSTANTS
  NProgs,       \* the programs are 1..NProgs, in the order of QDir::entryList
  Key,          \* Key[p]: the first TASK_COMM_LEN characters of the name
  TooLong,      \* the programs whose name has TASK_COMM_LEN characters or more
  OverDBus,     \* firefox and the like, which are not registered with the kernel
  MaxResets     \* how many resets and stops are under way at a time

Progs == 1..NProgs
KeysOf(ps) == {Key[p] : p \in ps}

ASSUME NProgsType == NProgs \in Nat
ASSUME KeyType == DOMAIN Key = Progs
ASSUME TooLongType == TooLong \in SUBSET Progs
ASSUME ShortIsWhole == \A p \in Progs \ TooLong : \A q \in Progs : Key[q] = Key[p] => q = p
ASSUME OverDBusType == OverDBus \in SUBSET Progs
ASSUME MaxResetsType == MaxResets \in Nat

NoProg == 0

VARIABLES
  files,          \* the files of program.d
  programList,    \* _programList
  phase,          \* what contextd is doing
  tmp, todo,      \* _tmpProgramList, and what it has not come to of the list it goes through
  contextd_pid, prog_list,   \* share.c
  adding,         \* the program register_prog is about to add
  cleaning,       \* how many resets and stops have still to clean the list
  refused,        \* history: the programs whose registration the kernel refused,
  overtaken,      \* those added when contextd was registered no more,
  wiped           \* and those that a reset or a stop has cleaned away

contextd == <<programList, phase, tmp, todo>>
kernel == <<contextd_pid, prog_list, adding, cleaning>>
history == <<refused, overtaken, wiped>>
vars == <<files, contextd, kernel, history>>

TypeOK ==
  /\ files \in SUBSET Progs
  /\ programList \in SUBSET (Progs \ OverDBus)
  /\ phase \in {"off", "start", "up", "register", "unregister"}
  /\ tmp \in SUBSET (Progs \ OverDBus)
  /\ todo \in SUBSET Progs
  /\ contextd_pid \in {"none", "contextd", "gone"}
  /\ prog_list \in SUBSET KeysOf(Progs)
  /\ adding \in Progs \cup {NoProg}
  /\ cleaning \in 0..MaxResets
  /\ refused \in SUBSET Progs /\ overtaken \in SUBSET Progs /\ wiped \in SUBSET Progs

Init ==
  /\ files \in SUBSET Progs
  /\ programList = {} /\ tmp = {} /\ todo = {}
  /\ phase = "off"
  /\ contextd_pid = "none" /\ prog_list = {} /\ adding = NoProg /\ cleaning = 0
  /\ refused = {} /\ overtaken = {} /\ wiped = {}

-----------------------------------------------------------------------------
(* program.d and the kernel.                                               *)

\* The lists are gone through in their order.
Due(p) == p \in todo /\ \A q \in todo : p <= q
Passed(p) == todo' = todo \ {p}

prog_is_monitored(p) == p \notin TooLong /\ Key[p] \in prog_list

\* Mutant: the programs that talk over D-Bus are not left out.
AllOf(fs) == fs

\* entryList() and clearProgList().
clearProgList(fs) == fs \ OverDBus

ProgramChanges(p) ==
  /\ files' = IF p \in files THEN files \ {p} ELSE files \cup {p}
  /\ UNCHANGED <<contextd, kernel, history>>

\* The tests of sys_auditsec_reg and register_prog: contextd is registered, and the
\* name is not known yet.
Accepts(p) == contextd_pid = "contextd" /\ Key[p] \notin prog_list

\* auditsec_register(1, p) returns: p is added, however long ago the tests were made
\* (register_prog), or one of them failed, or there is no memory.
RegisterProg(p) ==
  /\ adding' = NoProg
  /\ \/ /\ adding = p
        /\ prog_list' = prog_list \cup {Key[p]}
        /\ refused' = refused \ {p} /\ wiped' = wiped \ {p}
        /\ overtaken' = IF contextd_pid = "contextd" THEN overtaken ELSE overtaken \cup {p}
     \/ /\ adding = p \/ (adding = NoProg /\ ~Accepts(p))
        /\ refused' = refused \cup {p}
        /\ UNCHANGED <<prog_list, overtaken, wiped>>

\* auditsec_register(0, p); it fails if there is no such name.
UnregisterProg(p) ==
  /\ IF contextd_pid = "contextd"
       THEN /\ prog_list' = prog_list \ {Key[p]}
            /\ overtaken' = {q \in overtaken : Key[q] # Key[p]}
       ELSE UNCHANGED <<prog_list, overtaken>>
  /\ refused' = refused \ {p} /\ wiped' = wiped \ {p}

-----------------------------------------------------------------------------
(* KernelContext.                                                          *)

\* The constructor: it gives up if the kernel has a contextd already.
Start ==
  /\ phase = "off"
  /\ contextd_pid = "none"
  /\ contextd_pid' = "contextd"
  /\ phase' = "start"
  /\ programList' = {} /\ tmp' = {}
  /\ todo' = clearProgList(files)
  /\ refused' = {} /\ wiped' = {}
  /\ UNCHANGED <<files, prog_list, adding, cleaning, overtaken>>

\* The first half of auditsec_register(1, p) for a program that is not listed.
register_prog(p) ==
  /\ phase \in {"start", "register"} /\ Due(p)
  /\ p \notin programList
  /\ adding = NoProg /\ Accepts(p)
  /\ adding' = p
  /\ UNCHANGED <<files, contextd, contextd_pid, prog_list, cleaning, history>>

\* Only what the kernel accepts is listed ...
StartNext(p) ==
  /\ phase = "start" /\ Due(p)
  /\ RegisterProg(p)
  /\ programList' = IF p \in refused' THEN programList
                    ELSE programList \cup {p}
  /\ Passed(p)
  /\ UNCHANGED <<files, phase, tmp, contextd_pid, cleaning>>

StartEnds ==
  /\ phase = "start" /\ todo = {}
  /\ phase' = "up"
  /\ UNCHANGED <<files, programList, tmp, todo, kernel, history>>

reloadProgramList ==
  /\ phase = "up"
  /\ phase' = "register"
  /\ tmp' = clearProgList(files)
  /\ todo' = tmp'
  /\ UNCHANGED <<files, programList, kernel, history>>

\* Mutant: a program that is listed stays in the list of those to remove.
RegisterKeepsKnown(p) ==
  /\ phase = "register" /\ Due(p)
  /\ Passed(p)
  /\ IF p \in programList
       THEN UNCHANGED <<prog_list, adding, history>>
       ELSE RegisterProg(p)
  /\ UNCHANGED <<files, programList, phase, tmp, contextd_pid, cleaning>>

\* A program that is listed is taken off the list, so that the ones to remove
\* are left; another one is registered.
RegisterNext(p) ==
  /\ phase = "register" /\ Due(p)
  /\ Passed(p)
  /\ IF p \in programList
       THEN programList' = programList \ {p} /\ UNCHANGED <<prog_list, adding, history>>
       ELSE RegisterProg(p) /\ UNCHANGED programList
  /\ UNCHANGED <<files, phase, tmp, contextd_pid, cleaning>>

\* Mutant: the new list is put in place before the old one is gone through.
RegisterEndsWithNewList ==
  /\ phase = "register" /\ todo = {}
  /\ phase' = "unregister"
  /\ programList' = tmp
  /\ todo' = {}
  /\ UNCHANGED <<files, tmp, kernel, history>>

RegisterEnds ==
  /\ phase = "register" /\ todo = {}
  /\ phase' = "unregister"
  /\ todo' = programList
  /\ UNCHANGED <<files, programList, tmp, kernel, history>>

UnregisterNext(p) ==
  /\ phase = "unregister" /\ Due(p)
  /\ UnregisterProg(p)
  /\ Passed(p)
  /\ UNCHANGED <<files, programList, phase, tmp, contextd_pid, adding, cleaning>>

\* ... but after a reload everything that should be registered is.
ReloadEnds ==
  /\ phase = "unregister" /\ todo = {}
  /\ phase' = "up"
  /\ programList' = tmp
  /\ tmp' = {}
  /\ UNCHANGED <<files, todo, kernel, history>>

-----------------------------------------------------------------------------
\* contextd is forgotten now and the list is cleaned later.
Forget ==
  /\ cleaning < MaxResets
  /\ contextd_pid' = "none"
  /\ cleaning' = cleaning + 1

Off ==
  /\ phase # "off" /\ adding = NoProg
  /\ phase' = "off" /\ programList' = {} /\ tmp' = {} /\ todo' = {}

\* The handler of SIGTERM and the like: auditsec_register(0, NULL), then exit.
Terminate ==
  /\ Off
  /\ IF contextd_pid = "contextd" THEN Forget ELSE UNCHANGED <<contextd_pid, cleaning>>
  /\ UNCHANGED <<files, prog_list, adding, history>>

\* contextd is killed; the kernel does not learn of it.
Crash ==
  /\ Off
  /\ contextd_pid' = IF contextd_pid = "contextd" THEN "gone" ELSE contextd_pid
  /\ UNCHANGED <<files, prog_list, adding, cleaning, history>>

\* The reset of /proc/contextd, whether contextd runs or not.
Reset ==
  /\ Forget
  /\ UNCHANGED <<files, contextd, prog_list, adding, history>>

\* The second half of a reset or a stop, whoever is registered by then.
clean_prog_list ==
  /\ cleaning > 0
  /\ cleaning' = cleaning - 1
  /\ prog_list' = {}
  /\ overtaken' = {}
  /\ wiped' = wiped \cup {p \in Progs : Key[p] \in prog_list}
  /\ UNCHANGED <<files, contextd, contextd_pid, adding, refused>>

Next ==
  \/ \E p \in Progs : ProgramChanges(p)
  \/ \E p \in Progs : register_prog(p) \/ StartNext(p) \/ RegisterNext(p) \/ UnregisterNext(p)
  \/ Start \/ StartEnds
  \/ reloadProgramList \/ RegisterEnds \/ ReloadEnds
  \/ Terminate \/ Crash \/ Reset \/ clean_prog_list

Spec == Init /\ [][Next]_vars

-----------------------------------------------------------------------------
(* Properties *)

\* Between reloads, and when no reset or stop is half done, every name the kernel has
\* is one contextd lists, and will unregister, or was added after contextd had been
\* forgotten: whatever was refused, begins alike or was reset before.
NothingLeftBehind ==
  phase = "up" /\ cleaning = 0 => prog_list \subseteq KeysOf(programList \cup overtaken)

\* Between reloads, as long as contextd is registered, the kernel asks about every
\* program contextd lists that was not refused and that no reset or stop begun before
\* contextd registered has cleaned away, but for the names that are too long: such a
\* one may go with another whose name begins alike.
NothingMissing ==
  phase = "up" /\ contextd_pid = "contextd" =>
    \A p \in programList \ (refused \cup wiped \cup TooLong) : prog_is_monitored(p)

-----------------------------------------------------------------------------
(* The inductive invariant.                                                *)

\* The programs that have been dealt with or not come to yet, which the kernel
\* may have and, if they were accepted, has.
Current ==
  IF phase = "register" THEN programList \cup (tmp \ todo)
  ELSE IF phase = "unregister" THEN tmp \cup todo
  ELSE programList

\* Each pass goes through the right list.
InPass ==
  /\ contextd_pid = "none" /\ cleaning = 0 => prog_list \subseteq KeysOf(overtaken)
  /\ adding # NoProg => /\ phase \in {"start", "register"}
                        /\ adding \in todo \ programList /\ Due(adding)
  /\ IF phase = "off" THEN contextd_pid # "contextd" ELSE contextd_pid # "gone"
  /\ phase \in {"off", "up"} => todo = {}
  /\ phase = "start" => todo \cap (programList \cup OverDBus) = {}
  /\ phase = "register" => todo \subseteq tmp /\ programList \cap tmp \subseteq todo
  /\ phase = "unregister" => todo \subseteq programList /\ programList \cap tmp = {}

\* What the kernel has is a program that is, or is about to be, listed.
NoMore ==
  phase # "off" /\ cleaning = 0 => prog_list \subseteq KeysOf(Current \cup overtaken)

\* What is listed, or about to be, and was not refused or cleaned away the kernel has.
NoLess ==
  phase # "off" /\ contextd_pid = "contextd" =>
    \A p \in (IF phase = "unregister" THEN tmp ELSE Current) \ (refused \cup wiped \cup TooLong) :
      Key[p] \in prog_list

ListInv == TypeOK /\ InPass /\ NoMore /\ NoLess
=============================================================================
