--------------------------- MODULE ContextdProofs ---------------------------
(***************************************************************************)
(* For every configuration, every number of pids and either set of         *)
(* threads, DecisionInv is an invariant of the decision path: a client is  *)
(* a program that its pid has run since it was registered, no program of a *)
(* domain that was left stays behind unless it was overtaken, and whoever  *)
(* holds the lock goes on.                                                 *)
(*                                                                         *)
(* The invariant has three parts that the actions disturb separately: what *)
(* the threads have (ThreadsInv), the map of clients (MapInv)              *)
(* and the programs of the other domains (KilledOrKilling).  A lemma for   *)
(* each says under which change it is kept; each action is then shown to   *)
(* be such a change.                                                       *)
(***************************************************************************)
EXTENDS Contextd, WellFoundedInduction, TLAPS

USE MaxPidType
USE DEF Pids, threadVars, cleanerVars, history

Stages == {"idle", "is_registered", "register", "write_wait", "insert", "domain_changed",
           "update", "match", "prompt", "hooks", "accept", "event"}

\* What the threads have, and who holds the lock.
ThreadsInv ==
  /\ readers \in SUBSET Threads
  /\ pc \in [Threads -> Stages]
  /\ req \in [Threads -> Requests \cup {NoRequest}]
  /\ found \in [Threads -> Found \cup {NoTransition}]
  /\ Serving
  /\ HoldersGoOn

\* The rest of the types.
RestTypes ==
  /\ c_domain \in Domains
  /\ clients \in [Pids -> Names \cup {NoClient, Blank}]
  /\ state \in [Pids -> Contexts \cup {NoState}]
  /\ procs \in [Pids -> Exes \cup {NoProcess}]
  /\ born \in [Pids -> Domains]
  /\ overtaken \in SUBSET Pids
  /\ ran \in [Pids -> SUBSET Exes]
  /\ pidList \in SUBSET Pids
  /\ cursor \in 0..Off

\* The map of clients, who is about to change it, and what the pids have run.
MapInv == ClientIsTheProgram /\ Inserting /\ Running

\* DecisionInv is these parts together.
LEMMA Parts == DecisionInv <=> ThreadsInv /\ RestTypes /\ MapInv /\ KilledOrKilling
BY DEF DecisionInv, ThreadsInv, RestTypes, MapInv, TypeOK, Stages

\* ... after a step too.
LEMMA PartsNext ==
  ASSUME ThreadsInv', RestTypes', MapInv', KilledOrKilling'
  PROVE  DecisionInv'
BY DEF DecisionInv, ThreadsInv, RestTypes, MapInv, TypeOK, Stages

\* Min of a set of pids is one of them.
LEMMA MinOfPids ==
  ASSUME NEW S \in SUBSET Pids, S # {}
  PROVE  Min(S) \in S
<1> DEFINE R == {ss \in Nat \X Nat : ss[1] < ss[2]}
<1>1. IsWellFoundedOn(R, Nat)
  BY NatLessThanWellFounded DEF OpToRel
<1> HIDE DEF R
<1>2. PICK x \in S : \A y \in S : ~(<<y, x>> \in R)
  <2>1. S \subseteq Nat
    OBVIOUS
  <2> QED
    BY <1>1, <2>1, WFMin
<1>3. \A y \in S : x <= y
  <2> SUFFICES ASSUME NEW y \in S PROVE ~(y < x)
    OBVIOUS
  <2>1. <<y, x>> \in Nat \X Nat /\ <<y, x>>[1] = y /\ <<y, x>>[2] = x
    OBVIOUS
  <2> QED
    BY <1>2, <2>1 DEF R
<1> QED
  BY <1>3 DEF Min

-----------------------------------------------------------------------------
(* The threads.                                                            *)

\* A thread that is done has let go of everything.
LEMMA FinishThreads ==
  ASSUME ThreadsInv, NEW th \in Threads, Finish(th)
  PROVE  ThreadsInv'
<1>1. /\ pc'[th] = "idle" /\ \A x \in Threads \ {th} : pc'[x] = pc[x] /\ req'[x] = req[x]
                                                       /\ found'[x] = found[x]
      /\ pc' \in [Threads -> Stages] /\ req' \in [Threads -> Requests \cup {NoRequest}]
      /\ found' \in [Threads -> Found \cup {NoTransition}] /\ readers' = readers \ {th}
  BY DEF ThreadsInv, Finish, Stages
<1>2. Serving'
  BY <1>1 DEF ThreadsInv, Serving, Updating
<1>3. HoldersGoOn'
  BY <1>1 DEF ThreadsInv, HoldersGoOn, Updating
<1> QED
  BY <1>1, <1>2, <1>3 DEF ThreadsInv

\* A thread that goes on with its request has what it needs there, and takes the
\* lock to enter updateState.
LEMMA GotoThreads ==
  ASSUME ThreadsInv, NEW th \in Threads, NEW l \in Stages \ {"is_registered"}, Goto(th, l),
         pc[th] # "idle", UNCHANGED req,
         found' = found \/ \E f \in Found : found' = [found EXCEPT ![th] = f],
         l \in Updating \cup {"domain_changed"} => req[th].ctx \in Contexts,
         l \in {"prompt", "hooks", "accept", "event"} => found'[th] \in Found,
         readers' = IF l \in Updating THEN readers \cup {th} ELSE readers \ {th}
  PROVE  ThreadsInv'
<1>1. /\ pc'[th] = l /\ \A x \in Threads \ {th} : pc'[x] = pc[x] /\ found'[x] = found[x]
      /\ pc' \in [Threads -> Stages]
      /\ found' \in [Threads -> Found \cup {NoTransition}]
  BY DEF ThreadsInv, Goto
<1>2. Serving'
  BY <1>1 DEF ThreadsInv, Serving
<1>3. HoldersGoOn'
  BY <1>1 DEF ThreadsInv, HoldersGoOn
<1> QED
  BY <1>1, <1>2, <1>3 DEF ThreadsInv

\* A thread that takes up a request.
LEMMA BeginThreads ==
  ASSUME ThreadsInv, NEW th \in Threads, NEW r \in Requests,
         NEW l \in {"is_registered", "register", "domain_changed"}, Begin(th, l, r),
         l = "is_registered" => th = "kernel",
         l = "domain_changed" => r.ctx \in Contexts,
         UNCHANGED <<found, readers>>
  PROVE  ThreadsInv' /\ pc[th] = "idle"
<1>1. /\ pc[th] = "idle" /\ pc'[th] = l /\ req'[th] = r
      /\ \A x \in Threads \ {th} : pc'[x] = pc[x] /\ req'[x] = req[x]
      /\ pc' \in [Threads -> Stages] /\ req' \in [Threads -> Requests \cup {NoRequest}]
  BY DEF ThreadsInv, Begin, Goto, Stages
<1>2. Serving'
  BY <1>1 DEF ThreadsInv, Serving, Updating
<1>3. HoldersGoOn'
  BY <1>1 DEF ThreadsInv, HoldersGoOn, Updating
<1> QED
  BY <1>1, <1>2, <1>3 DEF ThreadsInv

-----------------------------------------------------------------------------
(* The map of clients.                                                     *)

\* A client that is inserted is blank, or a program its pid has run; the others
\* stay or are removed.
Registers ==
  \A p \in Pids :
    \/ clients'[p] = clients[p]
    \/ clients'[p] = NoClient
    \/ clients[p] = NoClient /\ clients'[p] = Blank
    \/ /\ clients[p] = NoClient /\ clients'[p] \in Names
       /\ FullPath[clients'[p]] \in ran[p]

\* clients[q] at most inserts a blank client.
LEMMA TouchedFacts ==
  ASSUME RestTypes, NEW q, clients' \in {clients, Touched(q)}
  PROVE  /\ Registers
         /\ clients' \in [Pids -> Names \cup {NoClient, Blank}]
BY DEF RestTypes, Touched, Registers

\* Whoever is about to insert a client was before, and finds the map as it was.
InsertersStay ==
  \A th \in Threads : pc'[th] = "insert" =>
    /\ pc[th] = "insert" /\ req'[th] = req[th] /\ readers' \subseteq readers
    /\ clients'[req[th].pid] = clients[req[th].pid]

\* A thread that has the lock for reading keeps the others from inserting.
LEMMA NoInserter ==
  ASSUME MapInv, NEW th \in readers
  PROVE  \A o \in Threads : pc[o] # "insert"
BY DEF MapInv, Inserting

\* Registration keeps the clients what their pids have run ...
LEMMA ClientsKept ==
  ASSUME MapInv, Registers, InsertersStay, UNCHANGED <<procs, ran>>
  PROVE  MapInv'
<1>1. ClientIsTheProgram'
  BY NoClientIsNoName DEF MapInv, ClientIsTheProgram, Registers
<1>2. Inserting'
  BY DEF MapInv, Inserting, InsertersStay
<1>3. Running'
  BY DEF MapInv, Running, Alive
<1> QED
  BY <1>1, <1>2, <1>3 DEF MapInv

\* ... and so it is if processes die meanwhile.
LEMMA ClientsKeptDead ==
  ASSUME MapInv, Registers, InsertersStay, NEW ps, Dead(ps)
  PROVE  MapInv'
<1>1. ClientIsTheProgram'
  BY NoClientIsNoName DEF MapInv, ClientIsTheProgram, Registers, Dead
<1>2. Inserting'
  BY DEF MapInv, Inserting, InsertersStay, Dead
<1>3. Running'
  BY DEF MapInv, Running, Alive, Dead
<1> QED
  BY <1>1, <1>2, <1>3 DEF MapInv

-----------------------------------------------------------------------------
(* The programs of another domain.                                         *)

\* Whichever thread was about to kill still is.
KillersStay ==
  \A th \in Threads : pc[th] = "event" /\ found[th].from # found[th].to =>
    pc'[th] = "event" /\ found'[th] = found[th]

\* The killers stay when a thread moves that is not one of them.
LEMMA OthersKill ==
  ASSUME ThreadsInv, NEW th \in Threads,
         \A x \in Threads \ {th} : pc'[x] = pc[x] /\ found'[x] = found[x],
         pc[th] # "event" \/ found[th].from = found[th].to
  PROVE  KillersStay
BY DEF KillersStay

\* Nothing changes about the processes ...
LEMMA KillingKept ==
  ASSUME KilledOrKilling, KillersStay, UNCHANGED <<c_domain, procs, born, overtaken>>
  PROVE  KilledOrKilling'
BY DEF KilledOrKilling, KillersStay, Killable

\* ... or some die.
LEMMA KillingKeptDead ==
  ASSUME RestTypes, KilledOrKilling, KillersStay, NEW ps, Dead(ps), UNCHANGED c_domain
  PROVE  KilledOrKilling'
<1> SUFFICES ASSUME NEW p \in Pids, procs'[p] \in Exes \ NoKill, p \notin overtaken'
             PROVE  \/ born'[p] = c_domain
                    \/ \E th \in Threads : pc'[th] = "event" /\ found'[th].from # found'[th].to
  BY DEF KilledOrKilling, Killable
<1>1. p \notin ps /\ procs[p] = procs'[p] /\ born'[p] = born[p] /\ p \notin overtaken
  BY NoProcessIsNoExe DEF Dead
<1> QED
  BY <1>1 DEF KilledOrKilling, Killable, KillersStay

\* Processes that die keep their types.
LEMMA DeadTypes ==
  ASSUME RestTypes, NEW ps, Dead(ps)
  PROVE  /\ procs' \in [Pids -> Exes \cup {NoProcess}] /\ born' \in [Pids -> Domains]
         /\ overtaken' \in SUBSET Pids /\ ran' \in [Pids -> SUBSET Exes]
BY DefaultType DEF RestTypes, Dead

-----------------------------------------------------------------------------
(* The actions.                                                            *)

\* Nothing runs and nobody is registered.
LEMMA InitDecisionInv == Init => DecisionInv
<1> SUFFICES ASSUME Init PROVE DecisionInv
  OBVIOUS
<1>1. ThreadsInv
  BY DEF Init, ThreadsInv, Serving, HoldersGoOn, Updating, Stages
<1>2. RestTypes
  BY DefaultType DEF Init, RestTypes, Off
<1>3. MapInv
  BY NoClientIsNoName DEF Init, MapInv, ClientIsTheProgram, Inserting, Running, Alive
<1>4. KilledOrKilling
  BY NoProcessIsNoExe DEF Init, KilledOrKilling, Killable
<1> QED
  BY <1>1, <1>2, <1>3, <1>4, Parts

\* The threads do not move and the map does not change.
LEMMA ThreadsRest ==
  ASSUME ThreadsInv, UNCHANGED <<readers, pc, req, found>>
  PROVE  ThreadsInv' /\ KillersStay /\ (UNCHANGED clients => InsertersStay)
BY DEF ThreadsInv, Serving, HoldersGoOn, KillersStay, InsertersStay

\* A process runs another executable, in the domain there is.
LEMMA RunStep ==
  ASSUME DecisionInv, NEW p \in Pids, NEW e \in Exes, Run(p, e)
  PROVE  DecisionInv' /\ Registers
<1>1. ThreadsInv /\ RestTypes /\ MapInv /\ KilledOrKilling
  BY Parts
<1>2. ThreadsInv' /\ KillersStay
  BY <1>1, ThreadsRest DEF Run
<1>3. /\ procs'[p] = e /\ born'[p] = c_domain /\ clients' = clients /\ c_domain' = c_domain
      /\ \A q \in Pids \ {p} : procs'[q] = procs[q] /\ born'[q] = born[q] /\ ran'[q] = ran[q]
      /\ overtaken' = overtaken \ {p}
      /\ e \in ran'[p] /\ (Registering(p) => ran[p] \subseteq ran'[p])
      /\ UNCHANGED <<readers, pc, req>>
  BY <1>1 DEF Run, RestTypes
<1>4. RestTypes'
  BY <1>1 DEF Run, RestTypes
<1>5. MapInv'
  <2>1. ClientIsTheProgram'
    BY <1>1, <1>3, NoClientIsNoName DEF MapInv, ClientIsTheProgram, Registering
  <2>2. Inserting'
    <3> SUFFICES ASSUME NEW th \in Threads, pc[th] = "insert"
                 PROVE  FullPath[req[th].name] \in ran'[req[th].pid]
      BY <1>1, <1>3 DEF MapInv, Inserting
    <3>1. FullPath[req[th].name] \in ran[req[th].pid] /\ req[th].pid \in Pids
      BY <1>1 DEF MapInv, Inserting, ThreadsInv, Serving, Requests
    <3>2. req[th].pid = p => Registering(p)
      BY DEF Registering
    <3> QED
      BY <1>3, <3>1, <3>2
  <2>3. Running'
    BY <1>1, <1>3 DEF MapInv, Running, Alive
  <2> QED
    BY <2>1, <2>2, <2>3 DEF MapInv
<1>6. KilledOrKilling'
  <2> SUFFICES ASSUME NEW q \in Pids, procs'[q] \in Exes \ NoKill, q \notin overtaken'
               PROVE  \/ born'[q] = c_domain
                      \/ \E th \in Threads : pc'[th] = "event" /\ found'[th].from # found'[th].to
    BY <1>3 DEF KilledOrKilling, Killable
  <2>1. CASE q = p
    BY <1>3, <2>1
  <2>2. CASE q # p
    BY <1>1, <1>2, <1>3, <2>2 DEF KilledOrKilling, Killable, KillersStay
  <2> QED
    BY <2>1, <2>2
<1> QED
  BY <1>2, <1>3, <1>4, <1>5, <1>6, PartsNext DEF Registers

\* A process exits.
LEMMA ProcExitStep ==
  ASSUME DecisionInv, NEW p \in Pids, ProcExit(p)
  PROVE  DecisionInv' /\ Registers
<1>1. ThreadsInv /\ RestTypes /\ MapInv /\ KilledOrKilling
  BY Parts
<1>2. /\ Dead({p})
      /\ UNCHANGED <<c_domain, clients, state, readers, pc, req, found, pidList, cursor>>
  BY DEF ProcExit
<1>3. ThreadsInv' /\ KillersStay /\ InsertersStay
  BY <1>1, <1>2, ThreadsRest
<1>4. Registers
  BY <1>2 DEF Registers
<1>5. RestTypes'
  BY <1>1, <1>2, DeadTypes DEF RestTypes
<1>6. MapInv' /\ KilledOrKilling'
  BY <1>1, <1>2, <1>3, <1>4, ClientsKeptDead, KillingKeptDead
<1> QED
  BY <1>3, <1>4, <1>5, <1>6, PartsNext

\* What the three kinds of request leave alone.
LEMMA AskStep ==
  ASSUME DecisionInv, NEW th \in Threads, NEW r \in Requests,
         NEW l \in {"is_registered", "register", "domain_changed"}, Begin(th, l, r),
         l = "is_registered" => th = "kernel",
         l = "domain_changed" => r.ctx \in Contexts,
         UNCHANGED <<c_domain, clients, state, readers, found, procs, born, overtaken, ran,
                     pidList, cursor>>
  PROVE  DecisionInv' /\ Registers
<1>1. ThreadsInv /\ RestTypes /\ MapInv /\ KilledOrKilling
  BY Parts
<1>2. ThreadsInv' /\ pc[th] = "idle"
  BY <1>1, BeginThreads
<1>3. KillersStay /\ InsertersStay
  <2>1. /\ \A x \in Threads \ {th} : pc'[x] = pc[x] /\ req'[x] = req[x]
        /\ pc'[th] # "insert"
    BY <1>1 DEF Begin, Goto, ThreadsInv
  <2> QED
    BY <1>1, <1>2, <2>1, OthersKill DEF InsertersStay
<1>4. Registers /\ RestTypes'
  BY <1>1 DEF Registers, RestTypes
<1>5. MapInv' /\ KilledOrKilling'
  BY <1>1, <1>3, <1>4, ClientsKept, KillingKept
<1> QED
  BY <1>2, <1>4, <1>5, PartsNext

\* A question of the kernel, for the task name of a process that runs.
LEMMA AskKernelStep ==
  ASSUME DecisionInv, NEW p \in Pids, NEW x \in Contexts \cup {NoContext}, AskKernel(p, x)
  PROVE  DecisionInv' /\ Registers
<1>1. procs[p] \in Exes
  BY Parts DEF AskKernel, RestTypes
<1>2. [pid |-> p, name |-> Comm[procs[p]], ctx |-> x] \in Requests
  BY <1>1, CommIsAName DEF Requests
<1> QED
  BY <1>2, AskStep DEF AskKernel

\* register_application over D-Bus.
LEMMA AskRegisterStep ==
  ASSUME DecisionInv, NEW p \in Pids, NEW n \in Names, AskRegister(p, n)
  PROVE  DecisionInv' /\ Registers
<1>1. [pid |-> p, name |-> n, ctx |-> NoContext] \in Requests
  BY DEF Requests
<1> QED
  BY <1>1, AskStep DEF AskRegister

\* domain_changed over D-Bus.
LEMMA AskDomainStep ==
  ASSUME DecisionInv, NEW p \in Pids, NEW x \in Contexts, AskDomain(p, x)
  PROVE  DecisionInv' /\ Registers
<1>1. procs[p] \in Exes
  BY Parts DEF AskDomain, RestTypes
<1> DEFINE r == [pid |-> p, name |-> Comm[procs[p]], ctx |-> x]
<1>2. r \in Requests /\ r.ctx = x
  BY <1>1, CommIsAName DEF Requests
<1>3. Begin("dbus", "domain_changed", r) /\ "dbus" \in Threads
  BY DEF AskDomain
<1> QED
  BY <1>2, <1>3, AskStep DEF AskDomain

\* A thread moves on its own: it finishes, or goes on with its request.
Moves(th) ==
  \/ Finish(th)
  \/ \E l \in Stages \ {"idle", "is_registered", "event", "insert"} :
       /\ Goto(th, l)
       /\ UNCHANGED req
       /\ found' = found \/ \E f \in Found : found' = [found EXCEPT ![th] = f]
       /\ l \in Updating \cup {"domain_changed"} => req[th].ctx \in Contexts
       /\ l \in {"prompt", "hooks", "accept"} => found'[th] \in Found
       /\ readers' = IF l \in Updating THEN readers \cup {th} ELSE readers \ {th}

\* Nobody else is about to insert a client, or the map is left as it is.
Calm(th) ==
  \/ \A o \in Threads \ {th} : pc[o] # "insert"
  \/ clients' = clients /\ readers' \subseteq readers

\* Such a move keeps those who are about to insert ...
LEMMA MovesInsert ==
  ASSUME ThreadsInv, NEW th \in Threads, Moves(th), Calm(th)
  PROVE  InsertersStay
<1>1. pc'[th] # "insert" /\ \A x \in Threads \ {th} : pc'[x] = pc[x] /\ req'[x] = req[x]
  BY DEF Moves, Finish, Goto, ThreadsInv, Stages
<1> QED
  BY <1>1 DEF InsertersStay, Calm

\* ... and what they have, and the killers.
LEMMA MovesThreads ==
  ASSUME ThreadsInv, NEW th \in Threads, Moves(th), pc[th] # "idle"
  PROVE  /\ ThreadsInv'
         /\ pc[th] # "event" \/ found[th].from = found[th].to => KillersStay
<1>1. CASE Finish(th)
  <2>1. \A x \in Threads \ {th} : pc'[x] = pc[x] /\ found'[x] = found[x]
    BY <1>1 DEF Finish, ThreadsInv
  <2> QED
    BY <1>1, <2>1, FinishThreads, OthersKill
<1>2. ASSUME NEW l \in Stages \ {"idle", "is_registered", "event", "insert"},
             Goto(th, l), UNCHANGED req,
             found' = found \/ \E f \in Found : found' = [found EXCEPT ![th] = f],
             l \in Updating \cup {"domain_changed"} => req[th].ctx \in Contexts,
             l \in {"prompt", "hooks", "accept"} => found'[th] \in Found,
             readers' = IF l \in Updating THEN readers \cup {th} ELSE readers \ {th}
      PROVE  /\ ThreadsInv'
             /\ pc[th] # "event" \/ found[th].from = found[th].to => KillersStay
  <2>1. \A x \in Threads \ {th} : pc'[x] = pc[x] /\ found'[x] = found[x]
    BY <1>2 DEF Goto, ThreadsInv
  <2>2. ThreadsInv'
    BY <1>2, GotoThreads
  <2> QED
    BY <2>1, <2>2, OthersKill
<1> QED
  BY <1>1, <1>2 DEF Moves

\* A step of a thread that moves and at most inserts a client keeps the invariant.
LEMMA MoveStep ==
  ASSUME DecisionInv, NEW th \in Threads, Moves(th), Calm(th),
         pc[th] \notin {"idle", "event"}, Registers, clients' \in [Pids -> Names \cup {NoClient, Blank}],
         state' \in [Pids -> Contexts \cup {NoState}],
         UNCHANGED <<c_domain, procs, born, overtaken, ran, pidList, cursor>>
  PROVE  DecisionInv'
<1>1. ThreadsInv /\ RestTypes /\ MapInv /\ KilledOrKilling
  BY Parts
<1>2. ThreadsInv' /\ KillersStay /\ InsertersStay
  BY <1>1, MovesThreads, MovesInsert
<1>3. RestTypes'
  BY <1>1 DEF RestTypes
<1>4. MapInv' /\ KilledOrKilling'
  BY <1>1, <1>2, ClientsKept, KillingKept
<1> QED
  BY <1>2, <1>3, <1>4, PartsNext

\* After a registration KThread finishes or looks at the map again.
LEMMA RegisteredMoves ==
  ASSUME ThreadsInv, "kernel" \in Threads, pc["kernel"] \notin Updating \cup {"idle"}, Registered
  PROVE  Moves("kernel")
<1>1. req["kernel"] \in Requests /\ "kernel" \notin readers
  BY DEF ThreadsInv, Serving, HoldersGoOn
<1>2. CASE req["kernel"].ctx = NoContext
  BY <1>2 DEF Registered, Moves
<1>3. CASE req["kernel"].ctx # NoContext
  <2>1. /\ Goto("kernel", "domain_changed") /\ UNCHANGED <<req, found, readers>>
        /\ req["kernel"].ctx \in Contexts
    BY <1>1, <1>3 DEF Registered, Requests
  <2>2. "domain_changed" \in Stages \ {"idle", "is_registered", "event", "insert"}
        /\ "domain_changed" \notin Updating /\ readers' = readers \ {"kernel"}
    BY <1>1, <2>1 DEF Stages, Updating
  <2> QED
    BY <2>1, <2>2 DEF Moves
<1> QED
  BY <1>2, <1>3

\* A thread that goes on and changes nothing else moves.
LEMMA GotoMoves ==
  ASSUME ThreadsInv, NEW th \in Threads,
         NEW l \in Stages \ {"idle", "is_registered", "event", "insert"}, Goto(th, l),
         UNCHANGED <<req, found>>,
         l \in Updating <=> th \in readers',
         readers' \in {readers, readers \cup {th}},
         l \in Updating \cup {"domain_changed"} => req[th].ctx \in Contexts,
         l \in {"prompt", "hooks", "accept"} => found[th] \in Found
  PROVE  Moves(th)
<1>1. readers' = IF l \in Updating THEN readers \cup {th} ELSE readers \ {th}
  OBVIOUS
<1> QED
  BY <1>1 DEF Moves

\* is_registered: found, or on to register.
LEMMA IsRegisteredStep ==
  ASSUME DecisionInv, NEW th \in Threads, IsRegistered(th)
  PROVE  DecisionInv' /\ Registers
<1>1. ThreadsInv /\ RestTypes
  BY Parts
<1>2. /\ pc[th] = "is_registered" /\ th = "kernel" /\ th \notin readers
  BY <1>1 DEF IsRegistered, ThreadsInv, Serving, HoldersGoOn, Updating
<1>3. Moves(th)
  <2>1. CASE Registered
    BY <1>1, <1>2, <2>1, RegisteredMoves DEF Updating
  <2>2. CASE Goto(th, "register") /\ UNCHANGED <<req, found, readers>>
    BY <1>1, <1>2, <2>2, GotoMoves DEF Stages, Updating
  <2> QED
    BY <2>1, <2>2 DEF IsRegistered
<1>4. Registers
  BY DEF IsRegistered, Registers
<1>5. Calm(th)
  BY <1>2 DEF IsRegistered, Registered, Finish, Calm
<1> QED
  BY <1>1, <1>2, <1>3, <1>4, <1>5, MoveStep DEF IsRegistered, RestTypes

\* The lock is held: the writer waits, and keeps the readers out.
LEMMA RegisterWaitsStep ==
  ASSUME DecisionInv, NEW th \in Threads, RegisterWaits(th)
  PROVE  DecisionInv' /\ Registers
<1>1. ThreadsInv /\ RestTypes
  BY Parts
<1>2. pc[th] = "register" /\ th \notin readers
  BY <1>1 DEF RegisterWaits, ThreadsInv, HoldersGoOn, Updating
<1>3. Moves(th)
  BY <1>1, <1>2, GotoMoves DEF RegisterWaits, Stages, Updating
<1>4. Registers
  BY DEF RegisterWaits, Registers
<1>5. Calm(th)
  BY DEF RegisterWaits, Calm
<1> QED
  BY <1>1, <1>2, <1>3, <1>4, <1>5, MoveStep DEF RegisterWaits, RestTypes

\* What follows register_application is a move.
LEMMA AfterRegisterMoves ==
  ASSUME ThreadsInv, NEW th \in Threads, pc[th] \in {"register", "write_wait", "insert"},
         AfterRegister(th)
  PROVE  Moves(th) /\ readers' \subseteq readers
<1>1. CASE th = "kernel"
  BY <1>1, RegisteredMoves DEF AfterRegister, Registered, Finish, Updating
<1>2. CASE th # "kernel"
  BY <1>2 DEF AfterRegister, Finish, Moves
<1> QED
  BY <1>1, <1>2

\* register_application: the process runs the executable of the program.
LEMMA RegisterStep ==
  ASSUME DecisionInv, NEW th \in Threads, Register(th)
  PROVE  DecisionInv' /\ Registers
<1>1. ThreadsInv /\ RestTypes /\ MapInv /\ KilledOrKilling
  BY Parts
<1>2. pc[th] \in {"register", "write_wait"} /\ req[th] \in Requests
  BY <1>1 DEF Register, ThreadsInv, Serving
<1>3. UNCHANGED <<c_domain, clients, state, procs, born, overtaken, ran, pidList, cursor>>
  BY DEF Register
<1>4. Registers
  BY <1>3 DEF Registers
<1>5. CASE AfterRegister(th)
  <2>1. Moves(th) /\ Calm(th)
    BY <1>1, <1>2, <1>3, <1>5, AfterRegisterMoves DEF Calm
  <2> QED
    BY <1>1, <1>2, <1>3, <1>4, <2>1, MoveStep DEF RestTypes
<1>6. CASE /\ clients[req[th].pid] = NoClient /\ isProgramAllowed(req[th].name, req[th].pid)
           /\ Goto(th, "insert") /\ UNCHANGED <<req, found, readers>>
  <2>1. readers = {} /\ \A o \in Threads : pc[o] # "insert"
    BY DEF Register, CanWrite
  <2>2. ThreadsInv'
    BY <1>1, <1>2, <1>6, <2>1, GotoThreads DEF Stages, Updating
  <2>3. \A x \in Threads \ {th} : pc'[x] = pc[x]
    BY <1>1, <1>6 DEF Goto, ThreadsInv
  <2>4. KillersStay
    BY <1>1, <1>2, <1>6, <2>3, OthersKill
  <2>5. RestTypes' /\ KilledOrKilling'
    BY <1>1, <1>3, <2>4, KillingKept DEF RestTypes
  <2>6. FullPath[req[th].name] \in ran[req[th].pid]
    <3>1. req[th].pid \in Pids /\ procs[req[th].pid] = FullPath[req[th].name]
          /\ FullPath[req[th].name] \in Exes
      BY <1>2, <1>6, FullPathType DEF Requests, isProgramAllowed
    <3> QED
      BY <1>1, <3>1, NoProcessIsNoExe DEF MapInv, Running, Alive
  <2>7. Inserting'
    BY <1>3, <1>6, <2>1, <2>3, <2>6 DEF Inserting
  <2>8. MapInv'
    BY <1>1, <1>3, <2>7 DEF MapInv, ClientIsTheProgram, Running, Alive
  <2> QED
    BY <1>4, <2>2, <2>5, <2>8, PartsNext
<1> QED
  BY <1>5, <1>6 DEF Register

\* ... and may run another one when its client is inserted.
LEMMA InsertStep ==
  ASSUME DecisionInv, NEW th \in Threads, Insert(th)
  PROVE  DecisionInv' /\ Registers
<1>1. ThreadsInv /\ RestTypes /\ MapInv
  BY Parts
<1>2. pc[th] = "insert" /\ req[th] \in Requests
  BY <1>1 DEF Insert, ThreadsInv, Serving
<1>3. /\ clients' = [clients EXCEPT ![req[th].pid] = req[th].name]
      /\ req[th].pid \in Pids /\ req[th].name \in Names
  BY <1>2 DEF Insert, Requests
<1>4. clients' \in [Pids -> Names \cup {NoClient, Blank}]
  BY <1>1, <1>3 DEF RestTypes
<1>5. clients[req[th].pid] = NoClient /\ FullPath[req[th].name] \in ran[req[th].pid]
  BY <1>1, <1>2 DEF MapInv, Inserting
<1>6. Registers
  BY <1>1, <1>3, <1>5 DEF Registers, RestTypes
<1>7. Moves(th)
  BY <1>1, <1>2, AfterRegisterMoves DEF Insert
<1>8. Calm(th)
  BY <1>1, <1>2 DEF MapInv, Inserting, Calm
<1> QED
  BY <1>1, <1>2, <1>4, <1>6, <1>7, <1>8, MoveStep DEF Insert, RestTypes

\* domain_changed: a registered client goes on with the lock.
LEMMA DomainChangedStep ==
  ASSUME DecisionInv, NEW th \in Threads, DomainChanged(th)
  PROVE  DecisionInv' /\ Registers
<1>1. ThreadsInv /\ RestTypes
  BY Parts
<1>2. pc[th] = "domain_changed" /\ req[th].ctx \in Contexts
  BY <1>1 DEF DomainChanged, ThreadsInv, Serving
<1>3. Moves(th)
  <2>1. CASE clients[req[th].pid] # NoClient
    BY <1>1, <1>2, <2>1, GotoMoves DEF DomainChanged, Stages, Updating
  <2>2. CASE clients[req[th].pid] = NoClient
    BY <2>2 DEF DomainChanged, Moves
  <2> QED
    BY <2>1, <2>2
<1>4. Registers /\ Calm(th)
  BY DEF DomainChanged, CanRead, Registers, Calm
<1> QED
  BY <1>1, <1>2, <1>3, <1>4, MoveStep DEF DomainChanged, RestTypes

\* updateState: the context is parsed into the client.
LEMMA ParseStep ==
  ASSUME DecisionInv, NEW th \in Threads, Parse(th)
  PROVE  DecisionInv' /\ Registers
<1>1. ThreadsInv /\ RestTypes
  BY Parts
<1>2. /\ pc[th] = "update" /\ req[th] \in Requests /\ req[th].ctx \in Contexts
      /\ th \in readers
  BY <1>1 DEF Parse, ThreadsInv, Serving, HoldersGoOn, Updating
<1>3. Moves(th)
  BY <1>1, <1>2, GotoMoves DEF Parse, Stages, Updating
<1>4. state' \in [Pids -> Contexts \cup {NoState}]
  BY <1>1, <1>2 DEF Parse, RestTypes
<1>5. Registers /\ Calm(th)
  BY DEF Parse, Registers, Calm
<1> QED
  BY <1>1, <1>2, <1>3, <1>4, <1>5, MoveStep DEF Parse, RestTypes

\* A thread that finishes and looks at clients[pid] once more.
LEMMA FinishStep ==
  ASSUME DecisionInv, NEW th \in Threads, pc[th] \in Updating \ {"event"}, Finish(th),
         clients' \in {LookAgain(th), Touched(req[th].pid)},
         UNCHANGED <<c_domain, state, procs, born, overtaken, ran, pidList, cursor>>
  PROVE  DecisionInv' /\ Registers
<1>1. RestTypes
  BY Parts
<1>2. clients' \in {clients, Touched(req[th].pid)}
  BY DEF LookAgain
<1>3. Registers /\ clients' \in [Pids -> Names \cup {NoClient, Blank}]
  BY <1>1, <1>2, TouchedFacts
<1>4. Calm(th)
  BY Parts, NoInserter DEF ThreadsInv, HoldersGoOn, Calm
<1>5. Moves(th) /\ pc[th] \notin {"idle", "event"}
  BY DEF Moves, Updating
<1> QED
  BY <1>1, <1>3, <1>4, <1>5, MoveStep DEF RestTypes

\* The context does not parse.
LEMMA UpdateFailsStep ==
  ASSUME DecisionInv, NEW th \in Threads, UpdateFails(th)
  PROVE  DecisionInv' /\ Registers
BY FinishStep DEF UpdateFails, Updating

\* The transition looked up is one of the configuration, from the domain there is.
LEMMA MatchStep ==
  ASSUME DecisionInv, NEW th \in Threads, Match(th)
  PROVE  DecisionInv' /\ Registers
<1>1. ThreadsInv /\ RestTypes
  BY Parts
<1>2. /\ pc[th] = "match" /\ req[th] \in Requests /\ req[th].pid \in Pids
      /\ req[th].ctx \in Contexts /\ th \in readers
  BY <1>1 DEF Match, ThreadsInv, Serving, HoldersGoOn, Updating, Requests
<1>3. PICK n \in ProgramsOf(req[th].pid), x \in StatesOf(req[th].pid) :
        LET t == getFirstMatchingTransition(n, x)
        IN  IF t = NoTransition
              THEN /\ Finish(th)
                   /\ clients' = IF n = Blank THEN Touched(req[th].pid) ELSE LookAgain(th)
              ELSE /\ found' = [found EXCEPT ![th] = [from |-> c_domain, to |-> t.to,
                                                      prompt |-> t.prompt]]
                   /\ Goto(th, IF t.prompt THEN "prompt" ELSE "hooks")
                   /\ UNCHANGED <<clients, req, readers>>
  BY DEF Match
<1> DEFINE t == getFirstMatchingTransition(n, x)
<1>4. CASE t = NoTransition
  <2>1. Finish(th) /\ clients' \in {LookAgain(th), Touched(req[th].pid)}
    BY <1>3, <1>4
  <2> QED
    BY <1>2, <2>1, FinishStep DEF Match, Updating
<1>5. CASE t # NoTransition
  <2>1. clients[req[th].pid] # NoClient => n = clients[req[th].pid]
    BY DEF ProgramsOf
  <2>2. n \in Names \cup {NoClient, Blank} /\ n # NoClient
    BY <1>1, <1>2, NoClientIsNoName DEF ProgramsOf, RestTypes
  <2>3. n \in Names /\ x \in Contexts
    <3>1. n # Blank
      BY <1>5 DEF getFirstMatchingTransition
    <3>2. x \in Contexts
      BY <1>1, <1>2 DEF StatesOf, RestTypes
    <3> QED
      BY <2>2, <3>1, <3>2
  <2>4. t \in Transitions
    <3>1. t = FirstMatch[n][c_domain][x]
      BY <1>5 DEF getFirstMatchingTransition
    <3>2. FirstMatch[n][c_domain][x] \in Transitions \cup {NoTransition}
      BY <1>1, <2>3, FirstMatchType DEF RestTypes
    <3> QED
      BY <1>5, <3>1, <3>2
  <2> DEFINE f == [from |-> c_domain, to |-> t.to, prompt |-> t.prompt]
             l == IF t.prompt THEN "prompt" ELSE "hooks"
  <2>5. /\ found' = [found EXCEPT ![th] = f] /\ Goto(th, l) /\ UNCHANGED <<clients, req, readers>>
    BY <1>3, <1>5
  <2>6. f \in Found
    BY <1>1, <2>4 DEF Found, Transitions, RestTypes
  <2>7. l \in {"prompt", "hooks"}
    OBVIOUS
  <2> HIDE DEF f, l, t
  <2>8. Moves(th)
    <3>1. l \in Stages \ {"idle", "is_registered", "event", "insert"} /\ l \in Updating
      BY <2>7 DEF Stages, Updating
    <3>2. found'[th] \in Found /\ readers' = readers \cup {th}
      BY <1>1, <1>2, <2>5, <2>6 DEF ThreadsInv
    <3> QED
      BY <1>2, <2>5, <2>6, <3>1, <3>2 DEF Moves
  <2>9. Registers /\ Calm(th)
    BY <2>5 DEF Registers, Calm
  <2> QED
    BY <1>1, <1>2, <2>5, <2>8, <2>9, MoveStep DEF Match, RestTypes
<1> QED
  BY <1>4, <1>5

\* The user says yes ...
LEMMA PromptAcceptedStep ==
  ASSUME DecisionInv, NEW th \in Threads, PromptAccepted(th)
  PROVE  DecisionInv' /\ Registers
<1>1. ThreadsInv /\ RestTypes
  BY Parts
<1>2. /\ pc[th] = "prompt" /\ req[th].ctx \in Contexts /\ found[th] \in Found
      /\ th \in readers
  BY <1>1 DEF PromptAccepted, ThreadsInv, Serving, HoldersGoOn, Updating
<1>3. Moves(th)
  BY <1>1, <1>2, GotoMoves DEF PromptAccepted, Stages, Updating
<1>4. Registers /\ Calm(th)
  BY DEF PromptAccepted, Registers, Calm
<1> QED
  BY <1>1, <1>2, <1>3, <1>4, MoveStep DEF PromptAccepted, RestTypes

\* ... or no.
LEMMA PromptRefusedStep ==
  ASSUME DecisionInv, NEW th \in Threads, PromptRefused(th)
  PROVE  DecisionInv' /\ Registers
BY FinishStep DEF PromptRefused, Updating

\* PIGA lets the transition through ...
LEMMA PigaAllowsStep ==
  ASSUME DecisionInv, NEW th \in Threads, PigaAllows(th)
  PROVE  DecisionInv' /\ Registers
<1>1. ThreadsInv /\ RestTypes
  BY Parts
<1>2. /\ pc[th] = "hooks" /\ req[th].ctx \in Contexts /\ found[th] \in Found
      /\ th \in readers
  BY <1>1 DEF PigaAllows, ThreadsInv, Serving, HoldersGoOn, Updating
<1>3. Moves(th)
  BY <1>1, <1>2, GotoMoves DEF PigaAllows, Stages, Updating
<1>4. Registers /\ Calm(th)
  BY DEF PigaAllows, Registers, Calm
<1> QED
  BY <1>1, <1>2, <1>3, <1>4, MoveStep DEF PigaAllows, RestTypes

\* A thread that finishes while processes are killed.
LEMMA FinishKills ==
  ASSUME DecisionInv, NEW th \in Threads, pc[th] \in Updating, Finish(th),
         clients' = LookAgain(th), NEW ps, Dead(ps),
         KillersStay \/ Killable \subseteq ps,
         UNCHANGED <<c_domain, state, pidList, cursor>>
  PROVE  DecisionInv' /\ Registers
<1>1. ThreadsInv /\ RestTypes /\ MapInv /\ KilledOrKilling
  BY Parts
<1>2. clients' \in {clients, Touched(req[th].pid)}
  BY DEF LookAgain
<1>3. Registers /\ clients' \in [Pids -> Names \cup {NoClient, Blank}]
  BY <1>1, <1>2, TouchedFacts
<1>4. ThreadsInv'
  BY <1>1, FinishThreads
<1>5. RestTypes'
  BY <1>1, <1>3, DeadTypes DEF RestTypes
<1>6. MapInv'
  <2>1. Calm(th) /\ Moves(th)
    BY <1>1, NoInserter DEF ThreadsInv, HoldersGoOn, Calm, Moves
  <2>2. InsertersStay
    BY <1>1, <2>1, MovesInsert
  <2> QED
    BY <1>1, <1>3, <2>2, ClientsKeptDead
<1>7. KilledOrKilling'
  <2>1. CASE KillersStay
    BY <1>1, <2>1, KillingKeptDead
  <2>2. CASE Killable \subseteq ps
    <3>1. Killable' = {}
      BY <2>2, NoProcessIsNoExe DEF Killable, Dead
    <3> QED
      BY <3>1 DEF KilledOrKilling
  <2> QED
    BY <2>1, <2>2
<1> QED
  BY <1>3, <1>4, <1>5, <1>6, <1>7, PartsNext

\* ... or not, and may have the client killed.
LEMMA PigaRefusesStep ==
  ASSUME DecisionInv, NEW th \in Threads, PigaRefuses(th)
  PROVE  DecisionInv' /\ Registers
<1>1. ThreadsInv /\ pc[th] = "hooks" /\ Finish(th)
  BY Parts DEF PigaRefuses
<1>2. KillersStay
  BY <1>1, MovesThreads DEF Moves
<1>3. CASE Dead({req[th].pid})
  BY <1>1, <1>2, <1>3, FinishKills DEF PigaRefuses, Updating
<1>4. CASE UNCHANGED <<procs, history>>
  BY <1>1, <1>4, FinishStep DEF PigaRefuses, Updating
<1> QED
  BY <1>3, <1>4 DEF PigaRefuses

\* setCurrentDomain: a transition from this very domain is about to have the
\* programs of the domain killed; any other one overtakes them.
LEMMA SetDomainStep ==
  ASSUME DecisionInv, NEW th \in Threads, SetDomain(th)
  PROVE  DecisionInv' /\ Registers
<1>1. ThreadsInv /\ RestTypes /\ MapInv /\ KilledOrKilling
  BY Parts
<1>2. /\ pc[th] = "accept" /\ req[th].ctx \in Contexts /\ found[th] \in Found /\ th \in readers
      /\ found[th].from \in Domains /\ found[th].to \in Domains
  BY <1>1 DEF SetDomain, ThreadsInv, Serving, HoldersGoOn, Updating, Found
<1>3. /\ Goto(th, "event") /\ c_domain' = found[th].to
      /\ overtaken' = IF found[th].from = c_domain THEN overtaken ELSE Alive
      /\ UNCHANGED <<clients, state, readers, req, found, procs, born, ran, pidList, cursor>>
  BY DEF SetDomain
<1>4. ThreadsInv'
  <2>1. "event" \in Stages \ {"is_registered"} /\ "event" \in Updating
        /\ readers' = readers \cup {th}
    BY <1>2, <1>3 DEF Stages, Updating
  <2> QED
    BY <1>1, <1>2, <1>3, <2>1, GotoThreads
<1>5. RestTypes'
  BY <1>1, <1>2, <1>3 DEF RestTypes, Alive
<1>6. Registers
  BY <1>3 DEF Registers
<1>7. MapInv'
  <2>1. pc'[th] # "insert" /\ \A x \in Threads \ {th} : pc'[x] = pc[x]
    BY <1>1, <1>3 DEF Goto, ThreadsInv
  <2>2. InsertersStay
    BY <1>3, <2>1 DEF InsertersStay
  <2> QED
    BY <1>1, <1>3, <1>6, <2>2, ClientsKept
<1>8. KilledOrKilling'
  <2>1. pc'[th] = "event" /\ \A x \in Threads \ {th} : pc'[x] = pc[x]
    BY <1>1, <1>3 DEF Goto, ThreadsInv
  <2>2. CASE found[th].from = c_domain
    BY <1>1, <1>2, <1>3, <2>1, <2>2 DEF KilledOrKilling, Killable
  <2>3. CASE found[th].from # c_domain
    <3>1. Killable' \subseteq overtaken'
      BY <1>3, <2>3, NoProcessIsNoExe DEF Killable, Alive
    <3> QED
      BY <3>1 DEF KilledOrKilling
  <2> QED
    BY <2>2, <2>3
<1> QED
  BY <1>4, <1>5, <1>6, <1>7, <1>8, PartsNext

\* The killer: nothing that may be killed survives a change of domain.
LEMMA KillerEventStep ==
  ASSUME DecisionInv, NEW th \in Threads, KillerEvent(th)
  PROVE  DecisionInv' /\ Registers
<1>1. ThreadsInv /\ RestTypes /\ MapInv /\ KilledOrKilling
  BY Parts
<1>2. /\ pc[th] = "event" /\ Finish(th) /\ clients' = LookAgain(th)
      /\ UNCHANGED <<c_domain, state, pidList, cursor>>
  BY DEF KillerEvent
<1>3. CASE found[th].from # found[th].to
  <2>1. Dead(Killable)
    BY <1>3 DEF KillerEvent
  <2> QED
    BY <1>2, <2>1, FinishKills DEF Updating
<1>4. CASE found[th].from = found[th].to
  <2>1. UNCHANGED <<procs, history>>
    BY <1>4 DEF KillerEvent
  <2>2. ThreadsInv' /\ KillersStay
    BY <1>1, <1>2, <1>4, MovesThreads DEF Moves
  <2>3. clients' \in {clients, Touched(req[th].pid)}
    BY <1>2 DEF LookAgain
  <2>4. Registers /\ clients' \in [Pids -> Names \cup {NoClient, Blank}]
    BY <1>1, <2>3, TouchedFacts
  <2>5. RestTypes'
    BY <1>1, <1>2, <2>1, <2>4 DEF RestTypes
  <2>6. InsertersStay
    <3>1. Calm(th) /\ Moves(th)
      BY <1>1, <1>2, NoInserter DEF ThreadsInv, HoldersGoOn, Updating, Calm, Moves
    <3> QED
      BY <1>1, <3>1, MovesInsert
  <2>7. MapInv' /\ KilledOrKilling'
    BY <1>1, <1>2, <2>1, <2>2, <2>4, <2>6, ClientsKept, KillingKept
  <2> QED
    BY <2>2, <2>4, <2>5, <2>7, PartsNext
<1> QED
  BY <1>3, <1>4

\* The X server changes: a reset to another domain overtakes every process.
LEMMA XorgRestartStep ==
  ASSUME DecisionInv, XorgRestart
  PROVE  DecisionInv' /\ Registers
<1>1. ThreadsInv /\ RestTypes /\ MapInv /\ KilledOrKilling
  BY Parts
<1>2. /\ c_domain' = Default
      /\ overtaken' = IF c_domain = Default THEN overtaken ELSE Alive
      /\ UNCHANGED <<clients, state, readers, pc, req, found, procs, born, ran, pidList,
                     cursor>>
  BY DEF XorgRestart
<1>3. ThreadsInv' /\ KillersStay /\ InsertersStay
  BY <1>1, <1>2, ThreadsRest
<1>4. RestTypes' /\ Registers
  BY <1>1, <1>2, DefaultType DEF RestTypes, Registers, Alive
<1>5. MapInv'
  BY <1>1, <1>2, <1>3, <1>4, ClientsKept
<1>6. KilledOrKilling'
  <2>1. CASE c_domain = Default
    BY <1>1, <1>2, <1>3, <2>1, KillingKept
  <2>2. CASE c_domain # Default
    <3>1. Killable' \subseteq overtaken'
      BY <1>2, <2>2, NoProcessIsNoExe DEF Killable, Alive
    <3> QED
      BY <3>1 DEF KilledOrKilling
  <2> QED
    BY <2>1, <2>2
<1> QED
  BY <1>3, <1>4, <1>5, <1>6, PartsNext

\* ClientsCleaner reads /proc.
LEMMA CleanerStartStep ==
  ASSUME DecisionInv, CleanerStart
  PROVE  DecisionInv' /\ Registers
<1>1. ThreadsInv /\ RestTypes /\ MapInv /\ KilledOrKilling
  BY Parts
<1>2. ThreadsInv' /\ KillersStay /\ InsertersStay
  BY <1>1, ThreadsRest DEF CleanerStart
<1>3. RestTypes' /\ Registers
  BY <1>1 DEF CleanerStart, RestTypes, Registers, Alive, Off
<1>4. MapInv' /\ KilledOrKilling'
  BY <1>1, <1>2, <1>3, ClientsKept, KillingKept DEF CleanerStart
<1> QED
  BY <1>2, <1>3, <1>4, PartsNext

\* ClientsCleaner removes a client; with it goes what is known of its pid.
LEMMA CleanerStepStep ==
  ASSUME DecisionInv, CleanerStep
  PROVE  DecisionInv' /\ Registers
<1>1. ThreadsInv /\ RestTypes /\ MapInv /\ KilledOrKilling
  BY Parts
<1>2. ThreadsInv' /\ KillersStay /\ (UNCHANGED clients => InsertersStay)
  BY <1>1, ThreadsRest DEF CleanerStep
<1>3. KilledOrKilling'
  BY <1>1, <1>2, KillingKept DEF CleanerStep
<1>4. CASE Unseen = {} \/ (Unseen # {} /\ Min(Unseen) \in pidList)
  <2>1. /\ UNCHANGED <<clients, state, ran, c_domain, procs, born, overtaken>>
        /\ cursor' \in {Off, Min(Unseen)} /\ (cursor' = Off \/ Unseen # {})
        /\ pidList' \in {{}, pidList}
    BY <1>4 DEF CleanerStep
  <2>2. cursor' \in 0..Off
    <3>1. Unseen # {} => Min(Unseen) \in Pids
      BY MinOfPids DEF Unseen
    <3> QED
      BY <2>1, <3>1 DEF Off
  <2>3. RestTypes' /\ Registers
    BY <1>1, <2>1, <2>2 DEF RestTypes, Registers
  <2>4. MapInv'
    BY <1>1, <1>2, <2>1, <2>3, ClientsKept
  <2> QED
    BY <1>2, <1>3, <2>3, <2>4, PartsNext
<1>5. CASE Unseen # {} /\ Min(Unseen) \notin pidList
  <2> DEFINE q == Min(Unseen)
  <2>1. q \in Pids /\ clients[q] # NoClient
    BY <1>5, MinOfPids DEF Unseen
  <2>2. /\ Remove(q) /\ cursor' = 0
        /\ UNCHANGED <<pidList, c_domain, readers, pc, req, procs, born, overtaken>>
    BY <1>5 DEF CleanerStep
  <2> HIDE DEF q
  <2>3. /\ clients'[q] = NoClient /\ ran'[q] = {procs[q]} \ {NoProcess}
        /\ \A p \in Pids \ {q} : clients'[p] = clients[p] /\ ran'[p] = ran[p]
    BY <1>1, <2>1, <2>2 DEF Remove, RestTypes
  <2>4. RestTypes' /\ Registers
    BY <1>1, <2>1, <2>2 DEF RestTypes, Registers, Remove, Off
  <2>5. ClientIsTheProgram'
    BY <1>1, <2>3, NoClientIsNoName DEF MapInv, ClientIsTheProgram
  <2>6. Inserting'
    <3> SUFFICES ASSUME NEW th \in Threads, pc[th] = "insert"
                 PROVE  req[th].pid \in Pids \ {q}
      BY <1>1, <2>2, <2>3 DEF MapInv, Inserting
    <3> QED
      BY <1>1, <2>1 DEF MapInv, Inserting, ThreadsInv, Serving, Requests
  <2>7. Running'
    BY <1>1, <2>2, <2>3 DEF MapInv, Running, Alive
  <2> QED
    BY <1>2, <1>3, <2>4, <2>5, <2>6, <2>7, PartsNext DEF MapInv
<1> QED
  BY <1>4, <1>5

-----------------------------------------------------------------------------
(* The theorems.                                                           *)

\* Every step keeps the invariant and changes the map of clients only by
\* removals and by insertions where there is none.
LEMMA DecisionStep ==
  ASSUME DecisionInv, [Next]_vars
  PROVE  DecisionInv' /\ Registers
<1>1. CASE Next
  <2>1. ASSUME NEW p \in Pids, NEW e \in Exes, ProcStart(p, e) \/ ProcExec(p, e)
        PROVE  DecisionInv' /\ Registers
    BY <2>1, RunStep DEF ProcStart, ProcExec
  <2>2. ASSUME NEW p \in Pids, ProcExit(p) PROVE DecisionInv' /\ Registers
    BY <2>2, ProcExitStep
  <2>3. ASSUME NEW p \in Pids, NEW x \in Contexts \cup {NoContext}, AskKernel(p, x)
        PROVE  DecisionInv' /\ Registers
    BY <2>3, AskKernelStep
  <2>4. ASSUME NEW p \in Pids, NEW n \in Names, AskRegister(p, n)
        PROVE  DecisionInv' /\ Registers
    BY <2>4, AskRegisterStep
  <2>5. ASSUME NEW p \in Pids, NEW x \in Contexts, AskDomain(p, x)
        PROVE  DecisionInv' /\ Registers
    BY <2>5, AskDomainStep
  <2>6. ASSUME NEW th \in Threads, ThreadStep(th) PROVE DecisionInv' /\ Registers
    BY <2>6, IsRegisteredStep, RegisterWaitsStep, RegisterStep, InsertStep, DomainChangedStep, ParseStep,
       UpdateFailsStep, MatchStep, PromptAcceptedStep, PromptRefusedStep, PigaAllowsStep,
       PigaRefusesStep, SetDomainStep, KillerEventStep
       DEF ThreadStep
  <2>7. CASE XorgRestart \/ CleanerStart \/ CleanerStep
    BY <2>7, XorgRestartStep, CleanerStartStep, CleanerStepStep
  <2> QED
    BY <1>1, <2>1, <2>2, <2>3, <2>4, <2>5, <2>6, <2>7 DEF Next
<1>2. CASE UNCHANGED vars
  <2>1. ThreadsInv' /\ KillersStay /\ InsertersStay
    BY <1>2, Parts, ThreadsRest DEF vars
  <2>2. RestTypes' /\ Registers
    BY <1>2, Parts DEF vars, RestTypes, Registers
  <2>3. MapInv' /\ KilledOrKilling'
    BY <1>2, <2>1, <2>2, Parts, ClientsKept, KillingKept DEF vars
  <2> QED
    BY <2>1, <2>2, <2>3, PartsNext
<1> QED
  BY <1>1, <1>2

\* DecisionInv is an invariant of the decision path, for every configuration,
\* every number of pids, one or two deciding threads, with or without resets.
THEOREM DecisionInvariance == Spec => []DecisionInv
<1>1. DecisionInv /\ [Next]_vars => DecisionInv'
  BY DecisionStep
<1> QED
  BY InitDecisionInv, <1>1, PTL DEF Spec

\* Every variable of the daemon keeps its type: updateState never runs without a
\* context to parse, nor accepts a transition that was not found.
THEOREM ContextdTypes == Spec => []TypeOK
<1>1. DecisionInv => TypeOK
  BY DEF DecisionInv
<1> QED
  BY DecisionInvariance, <1>1, PTL

\* register_application makes a client only of a program that a process of the pid
\* has run since, whichever thread registers it, whatever the process execs between
\* the check and the insertion, and whatever the cleaner removes.
THEOREM ClientsAreTheirPrograms == Spec => []ClientIsTheProgram
<1>1. DecisionInv => ClientIsTheProgram
  BY DEF DecisionInv
<1> QED
  BY DecisionInvariance, <1>1, PTL

\* A change of domain leaves no program of the old domain behind once the killer
\* has run, but for the processes that were there when a transition looked up in
\* another domain, or a reset, set the domain.
THEOREM NoStrayLeftBehind == Spec => []NoStrayUnlessOvertaken
<1>1. DecisionInv => NoStrayUnlessOvertaken
  BY DEF DecisionInv, KilledOrKilling, NoStrayUnlessOvertaken
<1> QED
  BY DecisionInvariance, <1>1, PTL

\* AbstractContext::lock is held by the threads in updateState and by nobody else,
\* so that no writer waits for a thread that waits.
THEOREM LockHoldersGoOn == Spec => []HoldersGoOn
<1>1. DecisionInv => HoldersGoOn
  BY DEF DecisionInv
<1> QED
  BY DecisionInvariance, <1>1, PTL

\* No step, of either thread or of the cleaner, replaces the registration of a pid
\* by another one.
THEOREM RegistrationsStay == Spec => NotReregistered
<1>1. DecisionInv /\ [Next]_vars
        => [\A p \in Pids : clients[p] # NoClient => clients'[p] \in {clients[p], NoClient}]_vars
  BY DecisionStep DEF Registers
<1> QED
  BY DecisionInvariance, <1>1, PTL DEF Spec, NotReregistered
=============================================================================
