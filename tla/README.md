# A verification of contextd and the AuditSec LSM

contextd moves a desktop between *domains* (e-commerce, mail, ...). An
application tells it what it is doing (its *context*), the rules of
`transitions.xml` say which domain that context belongs to, and contextd
accepts the transition, moves the one global domain and kills what is left of
the old one. Applications that cannot be patched to talk to contextd are stopped
by a Linux security module, AuditSec, which asks contextd on their behalf.

The modules here model the parts in which a mistake is hardest to find by
testing: the handshake between the kernel and the daemon, the list of programs
the kernel asks about, the threads of the daemon that decide, the protocol with
PIGA, which validates transitions, the firewall rules that follow the
transitions, the search through the rules, and the editor that changes them,
with its undo stack.

## 1. Inventory

Paths are below `src/`; `auditsec/` is
`linux-2.6.32-hardened-r22/security/auditsec/`, `contextd_src/` is
`piga-systrans/src/contextd_src/`.

### AuditSec (`auditsec/hooks.c`, `syscall.c`, `share.c`)

*State.* `contextd_pid` (-1 or the tgid of the daemon), `daemon_launched`, the
list of monitored program names; one structure `k_auditsec_info` for the question
and one integer for the answer; three semaphores. None but the semaphores is
protected.

*Operations.* Four hooks (`inode_mkdir`, `file_permission`, `socket_bind`,
`socket_sendmsg`) with the same body: leave if the program is not monitored, fail
if no daemon is launched, take `hook_lock` (30 s at most), fill the structure, up
`question_lock`, down `answer_lock` (30 s at most), read the answer, up
`hook_lock`. On an answer timeout the question is taken back with
`down_trylock` and the call fails. Three system calls: `auditsec_reg` registers or
stops the daemon and adds or removes a program; `auditsec_question` sleeps on
`question_lock`, interruptibly, and copies the structure out; `auditsec_answer`
writes the answer and ups `answer_lock`. Writing 0 to `/proc/contextd/status`
forgets the daemon.

*Hard.* Hooks run in any number of tasks; both timeouts race with the grant they
wait for; the daemon may be killed, stopped, interrupted or replaced at any point;
two variables are written where one step is meant.

*Correct when.* One call at a time uses the structure; a call returns the verdict
made about it; contextd sees whole questions; every call returns.

### contextd (`contextd_src/`)

*Threads.* The main thread (D-Bus calls, timers, signals), `KThread` (kernel
questions), `ClientsCleaner` (every two minutes), the Xorg plugin (polls the X
server), the domain cache of the iptables plugin.

*State.* `AbstractContext::clients`, a map from pid to `ContextClient` with a
read-write lock, shared by `KernelContext` and `DBusContext`; in each client its
program and its current context; `DomainHolder::c_domain`, the current domain;
`Configuration`, the rules; in `PigaHandler` a socket and the last trace number.

*Operations.* `register_application`, `is_registered`, `domain_changed`, of which
the last runs `ContextClient::updateState`: parse the context into the client,
find the first matching transition from the current domain, prompt the user if
the rule says so, ask PIGA, set the domain, send an event to the plugins. The
killer answers that event, when the transition changes the domain, by killing
every user program that is not on the nokill list.

*Interaction.* Kernel questions come in and answers go out through the system
calls; D-Bus calls are handled in the main thread, and prompts are D-Bus calls to
`context-notify` that block it; plugins run in the thread that sends the event.

*Hard.* Two threads decide at once under locks held for reading; a prompt or PIGA
takes up to 30 s, with the lock held, and a plugin may wait for a page for ever; the
cleaner takes no lock; processes exec and pids are reused; replies of PIGA come late.

*Correct when.* A registration is never replaced, and stands for the program that
made it; a transition starts from the current domain; a domain change leaves no
program of the old domain; a request is decided on its own context; every request
is answered, as far as what it waits for ends; PIGA's verdict is applied to the
transition it is about.

### Rule matching (`configuration.cpp`, `abstractrule.cpp`, `mrule.cpp`, `trule.cpp`)

*State.* For each program a list of loops and a list of rules, each with mrules
(conditions on the context) and trules (domains it may be left from). Constant
while a request is decided, in what is modelled.

*Operations.* `getFirstMatchingTransition` calls `AbstractRule::matches` on the loops and
then the rules; it tries the mrules and, when one matches, the trules.

*Hard.* A rule that matches and whose trules do not must end the search in four
loops, through a flag that each call resets; a match is recognised by a count.

*Correct when.* The first loop or rule that applies decides alone, and the search ends.

### The program list (`contextd_src/kernel-context.cpp`, `auditsec/share.c`)

*State.* The files of `program.d`; `_programList`, what contextd believes it has
registered; `prog_list` in the kernel, by the first `TASK_COMM_LEN` characters.

*Operations.* The constructor registers every program; `reloadProgramList`, on
`SIGUSR2`, registers the new ones, unregisters the ones that are gone and replaces
the list; the kernel forgets all of it on a stop or a reset.

*Hard.* Registrations can be refused; names are cut, so that two programs are one to
the kernel; contextd may be stopped or killed and the kernel reset between any two
system calls and, since no lock is held, in the middle of one; the old list is taken
apart to find the programs to remove.

*Correct when.* Between reloads the kernel has exactly what contextd lists and was
not refused, but for what a reset half way through has taken or left.

### The iptables blocker (`contextd_src/plugins/iptable-blocker/`)

*State.* The iptables rules added, by application; for each visited host the links of
its page; the application and the URL of the page to fetch.

*Operations.* On a transition: flush, add the static rules of the domain, allow the
host that was asked for, start the thread that fetches its page and allows what it
links to. On a restart: flush. On a reload: read the options again.

*Hard.* Events come from three threads; the lock covers single accesses to the list;
each command is a detached process, and nobody notices one that fails; the cache has no
lock and relies on `wait()`; a fetch has no time limit.

*Correct when.* What iptables lets through is what the list has, so that the next
flush closes it, but for commands that were lost; the cache is used by one thread at a
time; nobody waits for ever but for a server.

### The editor (`configuration.cpp`, `context-editor_src/configurationstack.cpp` and the dialogs)

*State.* `Configuration`: domains, and for each program the loops and the rules by
priority. `ConfigurationStack`: the instances undo and redo go through, the current
and the last saved index, the programs, the hidden names.

*Operations.* Add, edit, delete domains, rules, loops, programs; swap priorities; save
to and read from `transitions.xml`; undo, redo, new, open, hide.

*Hard.* One thread, but long sequences of calls: edits change the current instance in
place and the old copy goes under it, programs change in all instances, the stack is
cut at both ends, renamings run forward and backward; rules are found by an id in one
place and by the name of their program in another.

*Correct when.* Undo and redo are those of a history; nothing refers to a domain that
is gone, unless the user typed it; the lists stay sorted; saving and opening gives the
same rules in the same order; the editor knows whether there is something to save.

### The other parts

The SELinux and logger plugins, `EventDispatcher`, libcontext, librecompare, selaudit,
the application extensions and the windows of the editor. `PROJECT.json` gives the
status of each and, for those that are not modelled, the reason. It also lists the
hazards, each at its line.

## 2. Modules

| module | models | extends |
|---|---|---|
| `Semaphore` | `struct semaphore` and its operations, as operators on a record | |
| `AuditSec` | hooks, system calls, reset, KThread, main thread | `Semaphore` |
| `AuditSecService` | what AuditSec promises: the abstract specification | |
| `AuditSecProofs` | the theorems, and what each operation of `Semaphore` does to the count and the wait list | `AuditSec`, `TLAPS` |
| `Contextd` | the decision path of the daemon | |
| `ContextdProofs` | its theorems | `Contextd`, `TLAPS` |
| `PigaHandler` | the trace protocol with PIGA | |
| `PigaHandlerProofs` | its theorems | `PigaHandler`, `TLAPS` |
| `Matching` | the search for the transition of a request | |
| `MatchingProofs` | its theorems | `Matching`, `TLAPS` |
| `ProgramList` | which programs the kernel asks about | |
| `ProgramListProofs` | its theorems | `ProgramList`, `TLAPS` |
| `RuleList` | the iptables blocker | |
| `RuleListProofs` | its theorems | `RuleList`, `TLAPS` |
| `Configuration` | the edits of the rules, and `transitions.xml` | |
| `ConfigurationProofs` | its theorems | `Configuration`, `TLAPS` |
| `ConfigurationStack` | the undo stack of the editor | |
| `EditHistory` | what undo and redo promise: the abstract specification | |
| `ConfigurationStackProofs` | the theorems, and that the stack implements `EditHistory` | `ConfigurationStack`, `TLAPS` |
| `MCAuditSec`, `MCContextd`, `MCMatching`, `MCProgramList`, `MCRuleList`, `MCConfiguration`, `MCConfigurationStack` | constants for TLC | |

Definitions whose comment begins with *Mutant* are not part of the specification: each
is a plausible mistake in the definition after it, with which some run fails.

### Semaphore

A semaphore is its count and the queue of its waiters. `Take` and `Sleep` are the two
halves of a down, `up` gives the unit to the first waiter or to the count, and a
waiter that is no longer in the queue was granted it, which is the `waiter.up` flag
of `__down_common`. Each operator is atomic because the C function holds the
semaphore's spin lock.

### AuditSec

A *call* is one invocation of a hook, a *daemon* one process that registers; a
restarted contextd is another daemon. `pc[c]` is where a call is in the hook body,
`mt[d]` and `kt[d]` where the two threads of a daemon are. `k_auditsec_info` holds
the call it describes, or `Torn` while a hook writes it; `usai[d]` is the daemon's
copy. `decided` and `expired` are history: the verdict made about each call, and the
calls whose wait for an answer timed out.

Each hook is one sequence of actions, split where the code sleeps or where another
actor can see the difference: `EnterMonitored`, `CheckLaunched`, `DownHookLock`, (`WakeHookLock`
or `TimeoutHookLock`), `UpQuestionLock`, `DownAnswerLock`, (`WakeAnswerLock` or
`TimeoutAnswerLock`), then `ReadAnswer` or `DrainQuestion`. The four bodies
differ in their payload, which is abstracted to the call, and in that two of them
allocate a buffer and may return `-ENOMEM`. `sys_auditsec_reg` writes `contextd_pid`
and `daemon_launched` in two actions, as the reset and the stop do in the opposite
order. `sys_auditsec_question` and `sys_auditsec_answer` test `daemon_launched` and
`contextd_pid` and act in one step: neither variable is used after the test, so a
reset in between has the same effect as one just after. A reading of `prog_list` is
atomic too; the freed entries a reader may run over are outside the model.

A KThread is blocked or runs whatever its main thread does; `Exit` ends both, since a
process dies as a whole. What KThread answers is a free choice for files and
directories, as `Contextd` decides it, and yes for sockets and messages.

### AuditSecService

At most one call is open. It is decided once, returns what was decided, or gives
up; calls that are not monitored return 0 and calls that cannot be submitted fail.
Once a call has given up the service is *degraded* and promises no more about
verdicts, only that calls are still served one at a time. The refinement mapping
takes `expired # {}` for degraded, and as the open call the one that has upped
`question_lock` and not returned. That the promise has to end there is what the run
`stale_answer` shows.

### Contextd

Each deciding thread carries one request at a time through `pc`: `is_registered`,
`register` (or `write_wait`), `insert`, `domain_changed`, `update`, `match`, `prompt`, `hooks`,
`accept`, `event`. `readers` are the threads that hold the lock of the map for
reading; a thread in `write_wait` keeps new readers out, as `QReadWriteLock` does.
`clients` maps a pid to the program it is registered as; `NoClient` is no entry and
`Blank` the default client that `QMap::operator[]` inserts when the cleaner has
removed the entry between `contains` and `[]`. When a thread runs on a client that
was removed, the program and the state it reads are free choices. `state` is
`_currentState`: parsing writes it, the lookup reads it, and two threads may do that to
one client. `procs` and `born` are the processes and the domain each began to run
in; `ProcExec` is an `execve`, after which the pid, the registration and the process are
the same and the executable is another. `register_application` reads the path of the
process in one step (`Register`) and inserts the client in another (`Insert`), with the
lock held for writing in between; the process may exec or exit there. `ran` and
`overtaken` are history: what each pid has run since it was registered, and the
processes there were when the domain was set by a transition looked up in another
domain, or by a reset. They say what the properties do not promise: that a client is
what its process runs *now*, since the path is never compared again
(`kernel-context.cpp:195`), and that no program is left behind by an overtaken
transition; the violation run `stray_program` shows one.

The configuration is a parameter: `FullPath`, `NoKill` and `FirstMatch`, the
transition that `getFirstMatchingTransition` returns for a program, a domain and a
context. The killer runs with killing enabled (without `noKillingSpree`) and all
programs belong to users. An event is delivered inside the action that sends it;
the change of domain and the event after it are two actions. The event runs the
plugins on the deciding thread with the lock held, and the iptables blocker may wait
there for a page without a limit (`domaincachethread.cpp:122`, `synchttp.h:38`), so the
event is not fair. The killer's walk through
`/proc` is one step: a program that starts during the walk starts in the new domain,
and is none of those the properties are about.

### PigaHandler

`sent` and `arrived` are the two directions of the socket. `sendTrace` is three
steps: increment `traceId`, write the trace with the identifier there is by then,
wait for the identifier there is by then. A reply has no end of line: it is
split at a space and its second word compared as a whole, so whatever has arrived
is read as one line, and two replies read together are an error. PIGA is external: it
replies in order, at any time or never, and the connection may end; the code never
connects again.

### Matching

One behaviour is one call of `getFirstMatchingTransition`: `Init` chooses the
program, the domain, the context and the two lists, and each action is one turn of
one of the loops. `pc` says which loop runs, `list` whether it is over the loops
or the rules, and `i`, `m`, `t` are the indices. A regular expression is the set of
strings it accepts, or is in `Broken` when Qt finds it not valid, and `Clean` is what
the code makes of an address of claws-mail before comparing it.
`FirstRuleDecides` compares the result with a definition that has no loop and no
flag.

### ProgramList

`phase` says which pass contextd is in (`start`, `register`, `unregister`, or `up`
between them), `todo` what that pass has not come to. The kernel holds no lock:
`register_prog` is two steps, the tests and, after a `kmalloc` that may sleep, the
addition (`adding` is the program in between), and a reset or a stop is two steps too,
`Forget` and `clean_prog_list` (`cleaning` counts those in between). `refused`,
`overtaken` and `wiped` are history, and name the programs for which the kernel and
contextd do disagree: refused, added after contextd had been forgotten, cleaned away.
`Key[p]` is what the kernel keeps of a name and `TooLong` the names that do not fit:
those with `TASK_COMM_LEN` characters or more never equal a task's name, and may share
a key. The kernel may refuse any registration (no memory). `contextd_pid` is `gone`
after contextd was killed: the kernel does not know. The handshake is left to
`AuditSec`, which has the same registration without the list as an algorithm.

### RuleList

Each thread has a sequence `todo` of operations; a step does the first and puts what it
calls in front of the rest, so one operator stands for one C++ function up to the
next place where another thread can come in: between the test and the push of
`addRule`, between the copy, each `reject` and the clearing in `removeAppRules`, between
`wait()` and `start()` in `updateCache`. `running` counts the commands that were
started and have not ended; they end in any order. A rule is its host. What a name
resolves to, what a page links to and whether a link is allowed are inputs.

There are four threads: the main thread and KThread, which send transitions, the Xorg
thread, which sends restarts, and the cache thread. The plugin reads the state of the
client when the event comes, and the two deciding threads share the client, so either may
find the URL that only D-Bus sends, and both may call `updateCache`. `shared` is history:
two threads were in `updateCache` at once, both having waited for the cache thread.

A command may not be started (the result of `startDetached` is ignored) or may be refused
by the kernel, as when another one has changed the table in between; `MaxFailures` bounds
how often. `astray` is history, a count for each host: a lost insertion is one rule less
in iptables than listed, a lost deletion one more, and a removal that clears other rules
than it deleted makes the difference between the two. `FirewallIsListed` says that nothing
else makes iptables differ from the lists. The kernel compares the numbers of entries
only (`x_tables.c:716`), so two commands that leave the number the same could also undo
each other's change; that is not modelled. Accesses to `rules` that take no lock
(`rulelist.cpp:195`, `:261`), and those to the cache once it is shared, are atomic here.

A fetch is two steps: `Fetch` sends the request, and `Reply`, which need never happen,
is its end.

### Configuration

One action for each operation a dialog or a dock calls, with the guards the dialogs
give (names are blacklisted, targets and sources come from lists of domains). The
operators that change a configuration take it as an argument, so that `deleteDomain`
and `updateDomain` can go through the loops and the rules as they were, as in the
code: `InEach` makes one turn per rule (`InRule`), and a domain without a new name is
one that is deleted. `Entered` is what a dialog may return: `DomainSelectionWidget` has one
line for each domain, but also lines with expressions the user types, so a list may name
a domain twice, or something that is no domain, and `mruletreewidget.cpp:118` leaves
mrules without conditions when the program is switched. `Open` replaces the configuration
by one read from a file (`Files`), which may do the same. `loose` is history: the source
names that were no domain, or were twice in the list, when a rule got them. `ByPriority`
is the `qSort` of `allAbstractRules`, by the number of elements that come before each.
`Find`, `DeleteId` and `DeleteObject` keep the difference between finding a
rule by its id in any list and by the name of its program. `moved` is history: a rule
has been given a program of another name, after which copies of it may be left in two
lists. `Element` and `Parse` are the two conversions: the identifiers are not saved, a
flag of a trule that is set is saved as true, whatever it is, and mrules without conditions
are saved and not read, which `SameWhenReopened` states as it is. `Files` has no rule
whose target is unknown: the parser drops such a rule and makes a domain without a name
of its target, which none of the operations can then reach by its name.

### ConfigurationStack and EditHistory

An instance is its domains, its rules and its programs. Of a rule there is the name it is
kept under and the name of its program, which the file has and which a change of the
programs rewrites in all instances (`Rewrite`); the rest is in `Configuration`. `Push` is
`pushCurrentInstance`, including the edit in place before it. The change types are the
renamings they carry. `disk` is what the file at `_file_path` holds; opening reads any
content. `EditHistory` has a past, a present and a future, and the refinement mapping
cuts the stack at the current index. `savedGone`, `rewritten` and `hiddenUnknown` are
history: an edit after an undo has dropped the instance that was saved; rules got a
program of another name since the save, which `hasChanges` does not tell; programs that
were hidden, on the arrow of a rule, when no program of that name was known.

## 3. Runs

Each run answers one question. A run marked *violation* shows that the code does
not do what a comment or the report says of it; the quotations are under `findings`.

| run | question | result |
|---|---|---|
| `protocol` | `TypeOK`, `HookMutex`, `VerdictIsForTheCall`, `QuestionIsWhole`, `BoundedDrift`, that every call that has started returns, and that the handshake implements `AuditSecService`, over two calls and two daemons | holds |
| `stale_answer` | is every monitored call that goes through one contextd allowed? | violation: a late answer is taken by the next call |
| `decisions` | with both threads: `NotReregistered`, `ClientIsTheProgram`, `NoStrayUnlessOvertaken`, `HoldersGoOn`, `RequestAnswered` | holds |
| `cleaner` | with two pids: is the client of a process that is gone removed (`StaleClientRemoved`)? | holds, unless another pid comes back for ever |
| `stray_program` | does a domain change leave no killable program of the old domain? | violation: a stale loop puts the old domain back without a kill |
| `piga` | with two threads: `DecidedByPiga` while they take turns, `AnswerIsTheDecision` until a thread gives up waiting | holds |
| `matching` | `TypeOK`, `FirstRuleDecides`, `SearchEnds` over every small configuration and request | holds |
| `programs` | `NothingLeftBehind`, `NothingMissing` through starts, reloads, refusals, stops, crashes, resets | holds |
| `firewall` | `FirewallIsListed` at rest, `CacheHasOneOwner` until two threads share the cache, `ComesToRest` unless a server never replies | holds |
| `rules` | `SortedByPriority`, `WellKept`, `SameWhenReopened` through every sequence of edits and opened files | holds |
| `undo` | `HiddenAreThere`, `SamePrograms`, `UnchangedIsSavedWhileKept`, and that the stack implements `EditHistory` | holds |
| `unsaved_changes` | does `hasChanges` tell whether there is something to save? | violation: save, undo, edit |

*Bounds.* Two calls are enough for one to meet what the other left behind, and two
daemons for a crash followed by a restart, or for two registrations at once; each call
is made once and each daemon lives once, which keeps the runs finite. In `decisions` one
pid is enough for the lock, the map and the killer (both threads then meet on one entry,
and the pid is reused), with two executables of one task name, of which one is refused,
and two names of one executable; `stray_program` has two pids, and so has `cleaner`,
where the walk of the cleaner needs more than one, with KThread only. Two domains, two
contexts (one loop and one change, with a prompt one way). In `PigaHandler`, `MaxTraces`
bounds the traces: three for a late reply to meet the next two calls. `CHECK_DEADLOCK`
is off there because the traces run out. In `Matching` one loop and two rules let each
kind of rule come before and after one that decides; the mrules have none, one or two
conditions, valid and not, and the trules cover no domain, one or all. `CHECK_DEADLOCK`
is off because the call returns. `ProgramList` has four programs: a short name, two that
begin alike and do not fit, one that talks over D-Bus; at most two resets or stops are
half done at a time (`MaxResets`), so that one can be overtaken by the next contextd and
its stop. `RuleList` has two events (`MaxEvents`) and one failure (`MaxFailures`) on two
hosts, of which one links to the other and the other is also a static rule, with both
kinds of option: an event and another that interrupts it; a visit comes with the
commands and the fetch it starts. `CHECK_DEADLOCK` is off because the events run out.
`Configuration` has two domain names, two programs, two rules or loops at a time and two
ever created (`MaxId`, `MaxRules`). `ConfigurationStack` has a limit of two instances,
one domain, one rule and one hidden name at a time: an undo, a redo and the loss of the
oldest instance all happen, and the theorems are for every limit. In both the domain
names, in the second the program names too, are interchangeable and symmetry is used for
properties of states and steps only.

*Fairness.* `AuditSec!FairSpec` is weak fairness of each hook that has started:
its task is scheduled, and a `down_timeout` ends by itself. Nothing is assumed of
the daemon, so `CallReturns` holds whatever contextd does. `Contextd!FairSpec` is weak
fairness of each deciding thread except in its event: a prompt is a D-Bus call with a
timeout and PIGA is waited for 30 s at most, but the event runs the iptables blocker,
which may wait for ever. `RequestAnswered` therefore names the requests that may not be
answered: the one whose own event never ends, a registration that waits for the lock
behind such an event, and one that the other thread overtakes with registrations again and
again. It is also weak fairness of the cleaner, which a timer starts every two minutes
(`contextd.cpp:320`). Nothing is assumed of processes or of the X server.
`RuleList!FairSpec` is weak fairness of each thread and of the commands; a server need
not reply, since `SyncHTTP::syncGet` has no time limit, and `ComesToRest` excepts the cache
thread that waits for it and the threads that wait for the cache thread.
`Matching!FairSpec` is weak fairness of the one thread that runs.

## 4. Proofs

`AuditSecProofs` proves, for every set of calls, daemons and programs:

- `TypeCorrect`: `Spec => []TypeOK`;
- `HookMutexHolds`: `Spec => []HookMutex`;
- `VerdictHolds`: `Spec => []VerdictIsForTheCall`;
- `QuestionHolds`: `Spec => []QuestionIsWhole`;
- `DriftHolds`: `Spec => []BoundedDrift`;
- `Refinement`: `Spec => ImplementsService`.

The assumptions are those of `AuditSec`: `comm` and `hook` are functions on the
calls, `NoPid` is no daemon and `Torn` no call.

None of the invariants is inductive alone. `IInv` adds

- `Waiters`: a call in the queue of a semaphore is where it waits for it, no one
  is queued twice, and `hook_lock` never exceeds one. Without it a timeout could
  remove a call that is not in the queue, or an `up` grant one that does not wait;
- `Progress`: a call has returned exactly when it is done, and while a call asks
  the structure is its own;
- `Baton`: as long as no wait for an answer has timed out, there is at most one
  thing in flight, which is in turn a unit of `question_lock`, a daemon that holds
  the question, a unit of `answer_lock`, and a call that was granted it; it
  belongs to the call in `k_auditsec_info`, which is undecided in the first half and
  decided as `auditsec_answer` says in the second.

There is one lemma per action, each of which first reduces the step to what it does
to one call or daemon and to the wait lists (the first section of the module), and
then goes through the conjuncts. Facts common to the actions are lemmas of their own:
`Frame` for the actions of the main thread and the reset, which touch nothing
`IInv` is about, `OwnerFacts` for what owning `hook_lock` excludes, and `InFlightCall` for
the call the baton belongs to. `Refinement` uses `IInv` in every step: a
hook step is a stutter or one action of the service, and `Copy`, `Question` and the
main thread are stutters.

`DriftHolds` needs an invariant of its own, `DriftInv`, on top of `IInv`. `BoundedDrift`
counts every call that asks, and a call that has given up still asks until it has tried
to take its question back: when it leaves, the bound goes down and nothing in flight
has to. `DriftInv` therefore counts only the calls that are in time (`InTime`), and the
ones that gave up only in `expired`. It also says that the four sets that are counted
are finite: each grows by one element at a time, so this is part of the induction and
no assumption on the calls or the daemons.

`PigaHandlerProofs` proves, for any threads and any number of traces, `PigaTypes`,
`PigaDecides` (`DecidedByPiga`) and `PigaAnswers` (`AnswerIsTheDecision`). The properties
compare what a thread decided with what PIGA said; `PigaInv` says what is on the socket
between the two. `Numbered` holds always: `traceId` counts the traces. `Turns` and
`InTransit` hold while the threads take turns: the thread in `sendTrace` has the last
number, each trace is on its way once and under its own number, and a reply on its way
back is the verdict on the trace it names, so that a late reply is read and discarded
by its number. `OneInTransit` holds until a thread gives up: the socket then holds the
trace of the thread that waits, or its reply, and nothing else, so that no reply is
read together with another. The only assumption is that `MaxTraces` is a number.

`ContextdProofs` proves, for every configuration, any number of pids and one or both
deciding threads, `ContextdTypes`, `ClientsAreTheirPrograms` (`ClientIsTheProgram`),
`NoStrayLeftBehind` (`NoStrayUnlessOvertaken`), `LockHoldersGoOn` (`HoldersGoOn`) and the
action property `RegistrationsStay` (`NotReregistered`). `DecisionInv` adds `Serving`, what
a thread has where it is (a request, and from the prompt on a transition), `Inserting`
(a thread between reading the path and inserting the client is alone with the map, and the
pid has run the program), `Running` (what a process runs is among what its pid has run) and
`KilledOrKilling`: a program of another domain that was not overtaken is one that a
thread is about to kill. `NoStrayUnlessOvertaken` says nothing while an event is due, and
so is not inductive; the induction step that matters is the acceptance of a transition
that another thread has made stale, which puts every process there is in `overtaken`.
That a registration is not replaced rests on the second look at the map in
`register_application`, not on the lock alone.

`RuleListProofs` proves, for any hosts, applications, links, options and events,
`RuleListTypes`, `OneOwner` (`CacheHasOneOwner`) and `FirewallListed` (`FirewallIsListed`).
The second is about the state at rest; `Balanced` is the equation it comes from, which
holds between any two steps: for each host the rules in iptables, the insertions that
run and the rules deleted but still listed are as many as the rules listed, the
deletions that run and the rules astray. What is half removed is read off what a thread
has to do, so `OneRemoval` has to say that a thread has at most one removal in progress,
before anything else, and that its deletions are the last ones of the list it saw. `Lanes`
says which thread may have which work to do, in particular that the cache thread and the
Xorg thread never call `updateCache` and that the others do so as the last thing of an
event; with `NoJobYet` it gives the one owner of the cache as long as it is not shared.
That the lists have finitely many places of a host is part of the induction. The proof
has three layers: lemmas about counting places when one list changes, lemmas about a
thread that does the first thing it has to do, and one lemma per operation.

`MatchingProofs` proves, for every configuration and request:

- `MRuleMatchesHolds`: the count of `MRule::matches` is right, from the finiteness of
  the set of variables;
- `MatchingTypeCorrect` and `MatchingFirstRuleDecides`: `Spec => []TypeOK` and
  `Spec => []FirstRuleDecides`.

The inductive invariant `SearchInv` says what each loop knows of what it has passed: no
rule before `i` applies, no mrule before `m` holds, no trule before `t` covers the
domain, and, once the flag is set, that the rule that decides refuses (`Barred`). The
flag alone does not say which rule set it, which is why `Barred` is needed. The
assumptions are that the lists are sequences of rules, that there are finitely
many variables and that no transition is `NoTransition`.

`ProgramListProofs` proves, for any programs, keys and refusals, `TypeCorrect`,
`NothingIsLeftBehind` and `NothingIsMissing`. The properties are about the state between
reloads; `ListInv` says what holds in the middle of each pass, with a registration between
its tests and its addition, and resets that have not cleaned the list yet. `Current` is what the
kernel may have by then: in the first pass of a reload the old list, without what was
already met, and the part of the new one that was passed; in the second the new list and
what is still to be removed. `NoMore` bounds the kernel by it, `NoLess` the other way for
the names that fit, and `InPass` relates `todo` to the two lists. The only assumption
that matters is `ShortIsWhole`: a name that fits shares its key with no other.

`ConfigurationStackProofs` proves, for any names, rules, programs and limit, `TypeCorrect`,
`HiddenNamesAreThere`, `ProgramsAreTheSame`, `UnchangedIsSavedIfKept` and
`StackImplementsHistory`. `StackInv` adds to the properties `SavedInstance` (the instance
at the saved index, if it is in the stack, has what the file has, but for the programs of
rules that were rewritten since) and `RenamingsChain`
(the change type of each instance is the renaming from the one before it): without
the second nothing says that what undo renames back was there. `PushShape` gives the new
stack in one form for both cases, within the limit and over it, and the other lemmas on
`Push` use it. For the refinement each kind of step is mapped once (`EditMaps`,
`UndoMaps`, `RedoMaps`, `ProgramsMap`, `RestartMaps`, `StutterMaps`); that all
instances have the same programs is what makes a program change a step of the history.

`ConfigurationProofs` proves, for any domains, any number of programs and rules, any
lists that dialogs return and any files, `TypeCorrect`, `ListsStaySorted`
(`SortedByPriority`), `StaysWellKept` (`WellKept`) and `SavedAndReopened`
(`SameWhenReopened`). `EditInv` adds to what `WellKept` says:

- `Tidy` says by lists and not by the order of `AllRules` that ids and priorities are
  unique and that a rule is kept under its program. This is what makes
  `deleteRule(Rule &)`, which looks only under the program's name, and `deleteRule(int)`,
  which takes the first rule with the id, remove the same rule;
- `Fits` is stronger than `ReferencesExist`: a loop has no target, a rule has one, and it
  covers a name at most once, unless the name is loose. Without the last, `deleteTRule`, which removes the first
  trule of a domain, would leave another one behind and `deleteDomain` a reference
  to a domain that is gone; without the second the parser could drop a rule;
- the ids and priorities are at most `idCounter`, so the next ones are new.

`TypeOK` and `SortedByPriority` hold also after a rule has been moved; the rest ends there,
as the property says. What an operation does is stated in terms of the set of rules of a
kind (`Rules`) and the order of the lists; `InEachChanges` then says of the whole loop of
`updateDomain` or `deleteDomain` that afterwards every rule fits the new domains, though
each turn works on a configuration the turns before have changed and on a rule as it
was before all of them. For `SameWhenReopened`, two lists with rising priorities and the
same elements are equal (`RisingSame`): the file rises because no two priorities are the
same, what is read of it for one program rises because it is a part of the file, and
the list of the program rises because it was sorted.

The loops are recursive functions over the numbers of the turns. The induction theorems of
the library take an operator as a parameter, which the provers cannot instantiate; here
the induction is over the set of the numbers for which a fact holds (`UpTo`, from the
least number for which it does not), and `Recursion` shows in the same way that a
recursively defined function exists and satisfies its equations.

Only model-checked: the liveness properties `CallReturns`, `RequestAnswered`,
`StaleClientRemoved`, `ComesToRest` and `SearchEnds`, since liveness and `ENABLED` are out
of the prover's reach. Every other property that a passing run checks is a theorem.

## 5. Not modelled

Almost all of the repository is Linux 2.6.32, of which AuditSec and the semaphore are
the only parts this project is about; the share of all lines that the modules cover is
therefore near zero, and about 40 % of the files they are about.

Some of what the code does is in the modules without a property of its own: the
acceptance of kernel questions about processes that could not be registered, and the
two threads that parse and match the contexts of one client.

Memory-level races (a list entry freed under a reader, a `QMap` rebalanced under an
iterator, rules reloaded in the signal handler while they are matched) appear only by
their effect on the protocol, if at all: a removed client reads as anything, and an
iterator is a position among the keys. The contents of XML, paths and names; the
wording of replies; logs; the pid and lock files; user interface. The default branch of
KThread's switch cannot be reached with a whole question. `KernelContext::stop` comes
after the event loop, which nothing in the daemon ends. The D-Bus calls that only read
(`is_registered`, `required_domain`, `current_domain`) are left out, though
`required_domain` uses the parser of the client and so can change the context a
`domain_changed` of the same process is about to be matched on. In `ProgramList` one
reload runs at a time. In `RuleList` the destructor is a flush like that of a restart.

The SELinux plugin starts detached `semodule` processes and never learns what they did;
`EventDispatcher` delivers in the sender's thread, which the models fold into the
sender; libcontext forwards calls; librecompare serves the editor's warnings only, and
its equality of automata is a TODO.

Met while modelling, besides the findings, and modelled as they are:

- two processes that register at once both succeed (`syscall.c:39`);
- a late reply of PIGA shifts all later answers by one, and two threads can send two
  traces under one number (`pigahandler.cpp:137`, `:170`);
- a rule whose program is changed is kept under the old program as well, with the same id
  (`configuration.cpp:1158`), and `deleteDomain` may then leave a target that is gone;
- a domain that is twice in the list of a rule, once as an expression, is still named
  there after `deleteDomain`, whose comment says "references to it inside Rules and Loops
  must be cleared" (`configuration.cpp:876`); in the same way, `updateDomain` changes only
  the first;
- the prompt and notify flags of a trule that are set are saved as true
  (`configuration.cpp:649`), and mrules without conditions are saved and not read
  (`configuration.cpp:27`);
- renaming a program changes what a save would write, and `hasChanges` does not tell
  (`configuration.cpp:443`);
- an unknown program can be hidden (`graphicsview.cpp:627`), and a later program of that
  name starts hidden;
- a contextd that registers while a reset is half done loses its programs when the reset
  goes on (`hooks.c:583`), and a registration that slept for memory may add a name after
  the list was cleaned (`share.c:92`);
- the cleaner can be kept from a pid by another that comes back for ever
  (`clientscleaner.cpp:22`);
- a process that execs keeps its registration (`kernel-context.cpp:195`);
- a server that never replies holds up the cache thread and, at the next visit, the
  deciding thread with the lock of the map (`domaincachethread.cpp:122`); then a
  registration waits for ever, and with it those that come after it;
- an iptables command that fails is not noticed (`rulelist.cpp:100`): a host may stay open
  that no list has;
- a write that fails with -1 counts as a save (`configurationstack.cpp:702`);
- an autosaved file that is opened has no changes and no path, and if it could not be
  opened the configuration that stays loses its path too (`configurationstack.cpp:129`);
- a rule shared by two applications belongs to the first, and goes with it
  (`rulelist.cpp:72`); with one domain per application a page's links displace its
  own host (`rulelist.cpp:195`);
- remembered links are added for the application of the job before
  (`domaincachethread.cpp:84`);
- a refused transition adds the static rules of the domain that was refused
  (`contextdpluginiptableblocker.cpp:134`).

## 6. Plan

Done: the handshake, the decision path, PIGA, matching, the program list, the iptables
blocker, the configuration and its undo stack, with the proofs above. Left, in this
order:

1. The composition of `AuditSec` with a specification of what `Contextd` answers.
2. `Contextd`'s `FirstMatch` as the result of `Matching`, with a reload of the rules
   while a request is matched.
3. The SELinux plugin's choice of modules, and the killer's rules.
