------------------------------ MODULE Contextd ------------------------------
(***************************************************************************)
(* The decision path of the daemon.  Two threads decide: KThread, for the  *)
(* questions of the kernel (KernelContext), and the main thread, for the   *)
(* applications that talk over D-Bus (DBusContext).  Both register         *)
(* applications in one map of clients and run ContextClient::updateState,  *)
(* which looks the transition up, prompts the user, asks PIGA, moves the   *)
(* one global domain and tells the plugins; the killer then kills the      *)
(* programs of the domain that was left.  Beside them the ClientsCleaner   *)
(* thread removes the clients whose process is gone and the Xorg plugin    *)
(* resets the domain when the X server changes.  The plugins are told by   *)
(* the deciding thread itself, with the lock of the map held; the iptables *)
(* blocker (RuleList) may make it wait there for ever.                     *)
(*                                                                         *)
(* The configuration is fixed here: which program has which executable,    *)
(* and the transition getFirstMatchingTransition finds for a program, a    *)
(* domain and a context.                                                   *)
(***************************************************************************)
EXTENDS Naturals, FiniteSets, FiniteSetsExt

CONSTANTS
  MaxPid,        \* the pids are 1..MaxPid and are reused
  Names,         \* the programs of program.d
  Exes,          \* executables
  Comm,          \* Comm[e]: the task comm of a process that runs e
  FullPath,      \* FullPath[n]: the executable of program n
  NoKill,        \* the executables of the nokill list
  Domains, Default,
  Contexts,      \* what a client says it does
  FirstMatch,    \* FirstMatch[n][d][x]: a transition or NoTransition
  Threads,       \* {"kernel"}, or {"kernel", "dbus"}
  XRestarts,     \* whether the X server may change
  NoClient,      \* no entry for the pid in the map of clients
  Blank,         \* a default ContextClient, whose program is invalid
  NoContext,     \* the context of a question about a socket or a message
  NoState,       \* a ContextClient that has parsed no context yet
  NoProcess, NoTransition, NoRequest

Pids == 1..MaxPid
Transitions == [to : Domains, prompt : BOOLEAN]

ASSUME MaxPidType == MaxPid \in Nat
ASSUME CommIsAName == Comm \in [Exes -> Names]
ASSUME FullPathType == FullPath \in [Names -> Exes]
ASSUME NoKillType == NoKill \in SUBSET Exes
ASSUME DefaultType == Default \in Domains
ASSUME FirstMatchType ==
  FirstMatch \in [Names -> [Domains -> [Contexts -> Transitions \cup {NoTransition}]]]
ASSUME ThreadsType == Threads \in SUBSET {"kernel", "dbus"}
ASSUME XRestartsType == XRestarts \in BOOLEAN
ASSUME NoClientIsNoName == NoClient \notin Names /\ Blank \notin Names /\ NoClient # Blank
ASSUME NoProcessIsNoExe == NoProcess \notin Exes
ASSUME NoContextIsNone == NoContext \notin Contexts /\ NoState \notin Contexts
ASSUME NoTransitionIsNone == NoTransition \notin Transitions

VARIABLES
  c_domain,          \* DomainHolder::c_domain
  clients,           \* AbstractContext::clients, the program of each client
  state,             \* ContextClient::_currentState of each client
  readers,           \* the threads that hold AbstractContext::lock for reading
  pc, req,           \* each thread: where it is and its request
  found,             \* each thread: transition_found, with its transitFrom
  procs,             \* the executable each pid runs
  born,              \* history: the domain in which each process began to run it
  overtaken,         \* history: the processes there were when the domain was set by
                     \* a transition from another domain or by a reset
  ran,               \* history: what each pid has run, since it was registered if it is
  pidList, cursor    \* ClientsCleaner::run

threadVars == <<pc, req, found>>
cleanerVars == <<pidList, cursor>>
history == <<born, overtaken, ran>>
vars == <<c_domain, clients, state, readers, pc, req, found, procs, born, overtaken,
          ran, pidList, cursor>>

Requests == [pid : Pids, name : Names, ctx : Contexts \cup {NoContext}]
Found == [from : Domains, to : Domains, prompt : BOOLEAN]
Off == MaxPid + 1    \* cursor of a cleaner that does not run

TypeOK ==
  /\ c_domain \in Domains
  /\ clients \in [Pids -> Names \cup {NoClient, Blank}]
  /\ state \in [Pids -> Contexts \cup {NoState}]
  /\ readers \in SUBSET Threads
  /\ pc \in [Threads -> {"idle", "is_registered", "register", "write_wait", "insert",
                         "domain_changed", "update", "match", "prompt", "hooks", "accept",
                         "event"}]
  /\ req \in [Threads -> Requests \cup {NoRequest}]
  /\ found \in [Threads -> Found \cup {NoTransition}]
  /\ procs \in [Pids -> Exes \cup {NoProcess}]
  /\ born \in [Pids -> Domains]
  /\ overtaken \in SUBSET Pids
  /\ ran \in [Pids -> SUBSET Exes]
  /\ pidList \in SUBSET Pids
  /\ cursor \in 0..Off

Init ==
  /\ c_domain = Default
  /\ clients = [p \in Pids |-> NoClient]
  /\ state = [p \in Pids |-> NoState]
  /\ readers = {}
  /\ pc = [th \in Threads |-> "idle"]
  /\ req = [th \in Threads |-> NoRequest]
  /\ found = [th \in Threads |-> NoTransition]
  /\ procs = [p \in Pids |-> NoProcess]
  /\ born = [p \in Pids |-> Default]
  /\ overtaken = {}
  /\ ran = [p \in Pids |-> {}]
  /\ pidList = {}
  /\ cursor = Off

-----------------------------------------------------------------------------
(* Processes start, exec, exit and reuse pids.                             *)

Alive == {p \in Pids : procs[p] # NoProcess}

\* The pid is registered, or its path has been found right and it is about to be.
Registering(p) ==
  clients[p] # NoClient \/ \E th \in Threads : pc[th] = "insert" /\ req[th].pid = p

Run(p, e) ==
  /\ procs' = [procs EXCEPT ![p] = e]
  /\ born' = [born EXCEPT ![p] = c_domain]
  /\ overtaken' = overtaken \ {p}
  /\ ran' = [ran EXCEPT ![p] = IF Registering(p) THEN ran[p] \cup {e} ELSE {e}]
  /\ UNCHANGED <<c_domain, clients, state, readers, threadVars, cleanerVars>>

\* A pid is given away again once its process is gone, registered or not.
ProcStart(p, e) == procs[p] = NoProcess /\ Run(p, e)

\* execve: the process keeps its pid, and its registration.
ProcExec(p, e) == procs[p] \notin {NoProcess, e} /\ Run(p, e)

Dead(ps) ==
  /\ procs' = [p \in Pids |-> IF p \in ps THEN NoProcess ELSE procs[p]]
  /\ born' = [p \in Pids |-> IF p \in ps THEN Default ELSE born[p]]
  /\ overtaken' = overtaken \ ps
  /\ UNCHANGED ran

ProcExit(p) ==
  /\ procs[p] # NoProcess
  /\ Dead({p})
  /\ UNCHANGED <<c_domain, clients, state, readers, threadVars, cleanerVars>>

-----------------------------------------------------------------------------
(* A thread and its request.                                               *)

Goto(th, l) == pc' = [pc EXCEPT ![th] = l]

\* The request is over: the thread lets go of the lock and replies.
Finish(th) ==
  /\ pc' = [pc EXCEPT ![th] = "idle"]
  /\ req' = [req EXCEPT ![th] = NoRequest]
  /\ found' = [found EXCEPT ![th] = NoTransition]
  /\ readers' = readers \ {th}

Begin(th, l, r) ==
  /\ pc[th] = "idle"
  /\ Goto(th, l)
  /\ req' = [req EXCEPT ![th] = r]

\* KThread::run: auditsec_question has returned.  Only questions about files
\* and directories carry a context.
AskKernel(p, x) ==
  /\ "kernel" \in Threads
  /\ procs[p] # NoProcess
  /\ Begin("kernel", "is_registered", [pid |-> p, name |-> Comm[procs[p]], ctx |-> x])
  /\ UNCHANGED <<c_domain, clients, state, readers, found, procs, history, cleanerVars>>

\* An application calls register_application over D-Bus under a name it
\* chooses.
AskRegister(p, n) ==
  /\ "dbus" \in Threads
  /\ procs[p] # NoProcess
  /\ Begin("dbus", "register", [pid |-> p, name |-> n, ctx |-> NoContext])
  /\ UNCHANGED <<c_domain, clients, state, readers, found, procs, history, cleanerVars>>

\* An application calls domain_changed over D-Bus.
AskDomain(p, x) ==
  /\ "dbus" \in Threads
  /\ procs[p] # NoProcess
  /\ Begin("dbus", "domain_changed", [pid |-> p, name |-> Comm[procs[p]], ctx |-> x])
  /\ UNCHANGED <<c_domain, clients, state, readers, found, procs, history, cleanerVars>>

-----------------------------------------------------------------------------
(* AbstractContext::lock.  A waiting writer keeps new readers out.         *)

CanRead == \A th \in Threads : pc[th] \notin {"write_wait", "insert"}
CanWrite == readers = {} /\ \A th \in Threads : pc[th] # "insert"

\* KThread::run, once the program is registered or could not be: sockets and
\* messages are accepted without looking.
Registered ==
  IF req["kernel"].ctx = NoContext
    THEN Finish("kernel")
    ELSE Goto("kernel", "domain_changed") /\ UNCHANGED <<req, found, readers>>

\* Mutant: the lock is still held for reading when it is asked for writing.
IsRegisteredKeepsLock(th) ==
  /\ pc[th] = "is_registered"
  /\ CanRead
  /\ IF clients[req[th].pid] # NoClient
       THEN Registered
       ELSE /\ Goto(th, "register")
            /\ readers' = readers \cup {th}
            /\ UNCHANGED <<req, found>>
  /\ UNCHANGED <<c_domain, clients, state, procs, history, cleanerVars>>

\* KernelContext::is_registered takes the lock and gives it back.
IsRegistered(th) ==
  /\ pc[th] = "is_registered"
  /\ CanRead
  /\ IF clients[req[th].pid] # NoClient
       THEN Registered
       ELSE Goto(th, "register") /\ UNCHANGED <<req, found, readers>>
  /\ UNCHANGED <<c_domain, clients, state, procs, history, cleanerVars>>

RegisterWaits(th) ==
  /\ pc[th] = "register"
  /\ ~CanWrite
  /\ Goto(th, "write_wait")
  /\ UNCHANGED <<c_domain, clients, state, readers, req, found, procs, history, cleanerVars>>

\* Configuration::isProgramAllowed for the executable of the process.
isProgramAllowed(n, p) == procs[p] = FullPath[n]

\* Mutant: KThread tries again until the program is registered.
AfterRegisterAgain(th) ==
  IF th = "kernel" /\ clients[req[th].pid] = NoClient
    THEN Goto(th, "is_registered") /\ UNCHANGED <<req, found, readers>>
    ELSE IF th = "kernel" THEN Registered ELSE Finish(th)

\* After register_application KThread goes on whatever came out of it, and
\* the D-Bus call returns.
AfterRegister(th) == IF th = "kernel" THEN Registered ELSE Finish(th)

\* Mutant: register_application does not look again for the pid.
RegisterOverwrites(th) ==
  /\ pc[th] \in {"register", "write_wait"}
  /\ CanWrite
  /\ IF isProgramAllowed(req[th].name, req[th].pid)
       THEN Goto(th, "insert") /\ UNCHANGED <<req, found, readers>>
       ELSE AfterRegister(th)
  /\ UNCHANGED <<c_domain, clients, state, procs, history, cleanerVars>>

\* Mutant: only the name of the program is looked at.
RegisterByName(th) ==
  /\ pc[th] \in {"register", "write_wait"}
  /\ CanWrite
  /\ IF clients[req[th].pid] = NoClient
       THEN Goto(th, "insert") /\ UNCHANGED <<req, found, readers>>
       ELSE AfterRegister(th)
  /\ UNCHANGED <<c_domain, clients, state, procs, history, cleanerVars>>

\* register_application: under the write lock the pid is looked for again, and the
\* path of its process is read and compared ...
Register(th) ==
  /\ pc[th] \in {"register", "write_wait"}
  /\ CanWrite
  /\ IF clients[req[th].pid] = NoClient /\ isProgramAllowed(req[th].name, req[th].pid)
       THEN Goto(th, "insert") /\ UNCHANGED <<req, found, readers>>
       ELSE AfterRegister(th)
  /\ UNCHANGED <<c_domain, clients, state, procs, history, cleanerVars>>

\* Mutant: the client is given its executable for a program.
InsertByPath(th) ==
  /\ pc[th] = "insert"
  /\ clients' = [clients EXCEPT ![req[th].pid] = procs[req[th].pid]]
  /\ AfterRegister(th)
  /\ UNCHANGED <<c_domain, state, procs, history, cleanerVars>>

\* ... and then the client is inserted, whatever the process runs by now.
Insert(th) ==
  /\ pc[th] = "insert"
  /\ clients' = [clients EXCEPT ![req[th].pid] = req[th].name]
  /\ AfterRegister(th)
  /\ UNCHANGED <<c_domain, state, procs, history, cleanerVars>>

\* domain_changed: a registered client goes on with the lock held for
\* reading.  KernelContext lets the others through, DBusContext does not.
DomainChanged(th) ==
  /\ pc[th] = "domain_changed"
  /\ CanRead
  /\ IF clients[req[th].pid] # NoClient
       THEN /\ readers' = readers \cup {th}
            /\ Goto(th, "update")
            /\ UNCHANGED <<req, found>>
       ELSE Finish(th)
  /\ UNCHANGED <<c_domain, clients, state, procs, history, cleanerVars>>

-----------------------------------------------------------------------------
(* ContextClient::updateState.                                             *)

\* clients[p] inserts a default client where there is none, which happens when
\* the cleaner has just removed it.
Touched(p) == IF clients[p] = NoClient THEN [clients EXCEPT ![p] = Blank] ELSE clients

\* After updateState KernelContext looks at clients[pid] once more, to log.
LookAgain(th) == IF th = "kernel" THEN Touched(req[th].pid) ELSE clients

\* The program updateState runs with.  If the cleaner took the client away,
\* it is the fresh one, or the object it runs on is gone and any may be read.
ProgramsOf(p) == IF clients[p] = NoClient THEN Names \cup {Blank} ELSE {clients[p]}

getFirstMatchingTransition(n, x) ==
  IF n = Blank THEN NoTransition ELSE FirstMatch[n][c_domain][x]

\* The XML is parsed into the client, which the two threads may share: the
\* lock is held for reading only.
Parse(th) ==
  /\ pc[th] = "update"
  /\ state' = IF clients[req[th].pid] = NoClient
                THEN state ELSE [state EXCEPT ![req[th].pid] = req[th].ctx]
  /\ Goto(th, "match")
  /\ UNCHANGED <<c_domain, clients, readers, req, found, procs, history, cleanerVars>>

\* The state the lookup finds in the client; any, if the client is gone.
StatesOf(p) == IF state[p] = NoState THEN Contexts ELSE {state[p]}

\* The first transition is looked up in the current domain.
Match(th) ==
  /\ pc[th] = "match"
  /\ \E n \in ProgramsOf(req[th].pid), x \in StatesOf(req[th].pid) :
       LET t == getFirstMatchingTransition(n, x)
       IN  IF t = NoTransition
             THEN /\ Finish(th)
                  /\ clients' = IF n = Blank THEN Touched(req[th].pid) ELSE LookAgain(th)
             ELSE /\ found' = [found EXCEPT ![th] = [from |-> c_domain, to |-> t.to,
                                                     prompt |-> t.prompt]]
                  /\ Goto(th, IF t.prompt THEN "prompt" ELSE "hooks")
                  /\ UNCHANGED <<clients, req, readers>>
  /\ UNCHANGED <<c_domain, state, procs, history, cleanerVars>>

\* The context does not parse.
UpdateFails(th) ==
  /\ pc[th] = "update"
  /\ Finish(th)
  /\ clients' \in {LookAgain(th), Touched(req[th].pid)}
  /\ UNCHANGED <<c_domain, state, procs, history, cleanerVars>>

\* ContextNotify::promptUserForAutorisation: yes; or no, no context-notify, or
\* no answer before the D-Bus call times out.
PromptAccepted(th) ==
  /\ pc[th] = "prompt"
  /\ Goto(th, "hooks")
  /\ UNCHANGED <<c_domain, clients, state, readers, req, found, procs, history, cleanerVars>>

PromptRefused(th) ==
  /\ pc[th] = "prompt"
  /\ Finish(th)
  /\ clients' = LookAgain(th)
  /\ UNCHANGED <<c_domain, state, procs, history, cleanerVars>>

\* onAcceptHooks: what PIGA says of the transition.  It may have the client
\* killed.
PigaAllows(th) ==
  /\ pc[th] = "hooks"
  /\ Goto(th, "accept")
  /\ UNCHANGED <<c_domain, clients, state, readers, req, found, procs, history, cleanerVars>>

PigaRefuses(th) ==
  /\ pc[th] = "hooks"
  /\ Finish(th)
  /\ Dead({req[th].pid}) \/ UNCHANGED <<procs, history>>
  /\ clients' = LookAgain(th)
  /\ UNCHANGED <<c_domain, state, cleanerVars>>

\* onAcceptTransition: DomainHolder::setCurrentDomain ...
SetDomain(th) ==
  /\ pc[th] = "accept"
  /\ c_domain' = found[th].to
  /\ Goto(th, "event")
  /\ overtaken' = IF found[th].from = c_domain THEN overtaken ELSE Alive
  /\ UNCHANGED <<clients, state, readers, req, found, procs, born, ran, cleanerVars>>

Killable == {p \in Pids : procs[p] \in Exes \ NoKill}

\* Mutant: the killer compares the target with the domain it finds.
KillIfStillElsewhere(th) ==
  /\ pc[th] = "event"
  /\ IF found[th].to # c_domain THEN Dead(Killable) ELSE UNCHANGED <<procs, history>>
  /\ Finish(th)
  /\ clients' = LookAgain(th)
  /\ UNCHANGED <<c_domain, state, cleanerVars>>

\* ... then the event: if the transition changes the domain, the killer
\* kills every program that is not in the nokill list.
KillerEvent(th) ==
  /\ pc[th] = "event"
  /\ IF found[th].from # found[th].to THEN Dead(Killable) ELSE UNCHANGED <<procs, history>>
  /\ Finish(th)
  /\ clients' = LookAgain(th)
  /\ UNCHANGED <<c_domain, state, cleanerVars>>

-----------------------------------------------------------------------------
(* The other threads.                                                      *)

\* ContextdPluginXorg::run sends a restart event; DomainHolder resets.
XorgRestart ==
  /\ XRestarts
  /\ c_domain' = Default
  /\ overtaken' = IF c_domain = Default THEN overtaken ELSE Alive
  /\ UNCHANGED <<clients, state, readers, threadVars, procs, born, ran, cleanerVars>>

\* ClientsCleaner::run reads /proc once ...
CleanerStart ==
  /\ cursor = Off
  /\ pidList' = Alive
  /\ cursor' = 0
  /\ UNCHANGED <<c_domain, clients, state, readers, threadVars, procs, history>>

\* The next client of the walk, and its removal.
Unseen == {p \in Pids : p > cursor /\ clients[p] # NoClient}

Remove(p) ==
  /\ clients' = [clients EXCEPT ![p] = NoClient]
  /\ state' = [state EXCEPT ![p] = NoState]
  /\ ran' = [ran EXCEPT ![p] = {procs[p]} \ {NoProcess}]

\* Mutant: the walk ends at the first client whose process is there.
CleanerStopsEarly ==
  /\ cursor # Off
  /\ IF Unseen = {} \/ Min(Unseen) \in pidList
       THEN cursor' = Off /\ pidList' = {} /\ UNCHANGED <<clients, state, ran>>
       ELSE Remove(Min(Unseen)) /\ cursor' = 0 /\ UNCHANGED pidList
  /\ UNCHANGED <<c_domain, readers, threadVars, procs, born, overtaken>>

\* ... then walks the map, from its beginning again after each removal.  It
\* does not take the lock.
CleanerStep ==
  /\ cursor # Off
  /\ IF Unseen = {}
       THEN cursor' = Off /\ pidList' = {} /\ UNCHANGED <<clients, state, ran>>
       ELSE /\ IF Min(Unseen) \in pidList
                 THEN cursor' = Min(Unseen) /\ UNCHANGED <<clients, state, ran>>
                 ELSE Remove(Min(Unseen)) /\ cursor' = 0
            /\ UNCHANGED pidList
  /\ UNCHANGED <<c_domain, readers, threadVars, procs, born, overtaken>>

-----------------------------------------------------------------------------
ThreadStep(th) ==
  \/ IsRegistered(th) \/ RegisterWaits(th) \/ Register(th) \/ Insert(th)
  \/ DomainChanged(th)
  \/ Parse(th) \/ UpdateFails(th) \/ Match(th)
  \/ PromptAccepted(th) \/ PromptRefused(th)
  \/ PigaAllows(th) \/ PigaRefuses(th)
  \/ SetDomain(th) \/ KillerEvent(th)

Next ==
  \/ \E p \in Pids : \/ \E e \in Exes : ProcStart(p, e) \/ ProcExec(p, e)
                     \/ ProcExit(p)
  \/ \E p \in Pids :
       \/ \E x \in Contexts \cup {NoContext} : AskKernel(p, x)
       \/ \E n \in Names : AskRegister(p, n)
       \/ \E x \in Contexts : AskDomain(p, x)
  \/ \E th \in Threads : ThreadStep(th)
  \/ XorgRestart
  \/ CleanerStart \/ CleanerStep

Spec == Init /\ [][Next]_vars

\* Both threads are scheduled, and prompts and PIGA have timeouts; but nothing says
\* that the event comes to an end, since a plugin may wait for a page.  The timer
\* starts the cleaner every two minutes.
FairSpec ==
  /\ Spec
  /\ \A th \in Threads : WF_vars(pc[th] # "event" /\ ThreadStep(th))
  /\ WF_vars(CleanerStart \/ CleanerStep)

-----------------------------------------------------------------------------
(* Properties *)

\* Every question of the kernel and every D-Bus call is answered, unless the thread
\* that serves it is held up in its own event for ever, or waits to register a
\* program behind one that is, or the other thread registers programs again and
\* again while it waits for the lock.  Whoever only reads the map goes on past a
\* thread that is held up, and a prompt or PIGA holds nobody up for ever.
RequestAnswered ==
  \A th \in Threads :
    \/ pc[th] # "idle" ~> pc[th] = "idle"
    \/ <>[](pc[th] = "event")
    \/ <>[](pc[th] = "write_wait" /\ \E o \in Threads : pc[o] = "event")
    \/ /\ <>[](pc[th] \in {"is_registered", "domain_changed", "write_wait"})
       /\ []<>(\E o \in Threads \ {th} : pc[o] = "insert")

\* The registration of a pid is never replaced by another one: whichever
\* thread registers second finds the first registration.
NotReregistered ==
  [][\A p \in Pids : clients[p] # NoClient => clients'[p] \in {clients[p], NoClient}]_vars

\* A client is a program that its pid has run since it was registered, or since its
\* path was read for that, through execs, exits and new processes of the same pid: so
\* it is what the process runs if it ran nothing else.
ClientIsTheProgram ==
  \A p \in Pids : clients[p] \in Names => FullPath[clients[p]] \in ran[p]

Stale(p) == clients[p] # NoClient /\ procs[p] = NoProcess

\* The cleaner removes what is left of a process that is gone, the empty client
\* that updateState has inserted behind its back too, unless the pid is in use
\* again, or a walk never ends: it goes by the /proc it has read and starts again
\* with each removal, so another pid that is removed and registered for ever, lower
\* or higher, keeps it from this one.
StaleClientRemoved ==
  \A p \in Pids :
    \/ Stale(p) ~> ~Stale(p)
    \/ \E q \in Pids \ {p} : []<>(clients[q] = NoClient) /\ []<>(clients[q] # NoClient)

\* Whenever no transition is being carried out, every program that may be
\* killed was started in the current domain: a domain change leaves none of
\* the programs of the old domain behind.
NoStrayProgram ==
  (\A th \in Threads : pc[th] # "event") =>
    \A p \in Killable : born[p] = c_domain

\* So it is with both threads deciding, but for the processes there were when the
\* domain was set by a transition that was looked up in a domain the other thread
\* or a reset had left since.
NoStrayUnlessOvertaken ==
  (\A th \in Threads : pc[th] # "event") =>
    \A p \in Killable \ overtaken : born[p] = c_domain

\* ContextClient::updateState runs from the second look at the map to the reply.
Updating == {"update", "match", "prompt", "hooks", "accept", "event"}

\* Nobody waits for a lock that it holds, or that somebody holds who waits for it:
\* the threads that hold AbstractContext::lock are in updateState, which asks for
\* no lock until it gives it back.
HoldersGoOn == readers = {th \in Threads : pc[th] \in Updating}

\* The inductive invariant behind these.  What a thread has where it is:
Serving ==
  \A th \in Threads :
    /\ pc[th] # "idle" => req[th] \in Requests
    /\ pc[th] = "is_registered" => th = "kernel"
    /\ pc[th] \in Updating \cup {"domain_changed"} => req[th].ctx \in Contexts
    /\ pc[th] \in {"prompt", "hooks", "accept", "event"} => found[th] \in Found

\* A program of another domain that was not overtaken is about to be killed.
KilledOrKilling ==
  \A p \in Killable \ overtaken :
    \/ born[p] = c_domain
    \/ \E th \in Threads : pc[th] = "event" /\ found[th].from # found[th].to

\* A thread that is about to insert a client is alone with the map, and the pid has
\* run the program.
Inserting ==
  \A th \in Threads :
    pc[th] = "insert" =>
      /\ readers = {} /\ \A o \in Threads \ {th} : pc[o] # "insert"
      /\ clients[req[th].pid] = NoClient
      /\ FullPath[req[th].name] \in ran[req[th].pid]

Running == \A p \in Alive : procs[p] \in ran[p]

DecisionInv ==
  /\ TypeOK
  /\ Serving
  /\ HoldersGoOn
  /\ ClientIsTheProgram /\ Inserting /\ Running
  /\ KilledOrKilling
=============================================================================
