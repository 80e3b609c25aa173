------------------------------ MODULE RuleList ------------------------------
(***************************************************************************)
(* The iptables blocker: the rules that let applications reach hosts, the  *)
(* list RuleList keeps of them and what iptables holds, and the thread     *)
(* that fetches the page of a visited URL and allows the hosts it links    *)
(* to.                                                                     *)
(*                                                                         *)
(* An event of the plugin and a run of the cache thread are a sequence of  *)
(* small operations, of which a thread does the first and puts what that   *)
(* calls in front of the rest.  Between two operations the other threads   *)
(* go on: the lock is held only while the list is looked at or changed.    *)
(* Every command is a detached process; they end in any order, and one     *)
(* that is not started or that fails is not noticed.                       *)
(*                                                                         *)
(* A rule is the host it allows (a host has one address and one port       *)
(* here).  Whether the configuration allows a link, what a host name       *)
(* resolves to and what can be fetched come from outside.                  *)
(***************************************************************************)
EXTENDS Integers, Sequences, FiniteSets, SequencesExt

CONSTANTS
  Hosts,
  Apps,             \* the applications that talk over D-Bus
  StaticAllow,      \* "static_allow", the name of the static rules
  NoApp, NoHost,
  StaticAllows,     \* the hosts each domain allows, as sequences
  Visits,           \* what a client's state may ask for: an app, a host and whether by a URL
  Links,            \* Links[h]: the hosts the page of h links to
  Options,          \* what readConf may read: flush, and max, the domains per application
  MaxEvents,        \* bound: events; each leaves at most a few commands, links and
                    \* copies of a rule behind
  MaxFailures       \* bound: commands that are not started or that iptables refuses

Users == Apps \cup {StaticAllow}

ASSUME StaticAllowIsNoApp == StaticAllow \notin Apps /\ NoApp \notin Users
ASSUME NoHostIsNone == NoHost \notin Hosts
ASSUME StaticAllowsType == StaticAllows \subseteq Seq(Hosts)
ASSUME VisitsType == Visits \subseteq [app : Apps, host : Hosts, url : BOOLEAN]
ASSUME LinksType == Links \in [Hosts -> Seq(Hosts)]
ASSUME OptionsType == Options \subseteq [flush : BOOLEAN, max : Nat]
ASSUME BoundsType == MaxEvents \in Nat /\ MaxFailures \in Nat

\* The main thread serves D-Bus; KThread and the Xorg thread send events too.
Threads == {"main", "kernel", "xorg", "cache"}
Commands == {"insert", "delete"}

VARIABLES
  rules,            \* RuleList::rules, by application
  options,
  domainCache,      \* DomainCacheThread::domainCache
  job,              \* DomainCacheThread::_appName and _url
  todo,             \* what is left to do for each thread
  running,          \* the commands that run
  iptables,         \* how often iptables holds each rule
  events,           \* history: how many events there were
  failures,         \* history: how many commands failed
  astray,           \* history: how often each rule is in iptables and in no list, or the
                    \* other way round if negative, because a command was lost or a
                    \* removal found another list than it had deleted the rules of
  shared            \* history: two threads were in updateCache at the same time

lists == <<rules, options, events>>
cache == <<domainCache, job, shared>>
commands == <<running, iptables, failures, astray>>
vars == <<rules, options, domainCache, job, todo, running, iptables, events, failures,
          astray, shared>>

Jobs == [app : Apps \cup {NoApp}, host : Hosts \cup {NoHost}]

Work ==
  [op : {"removeAll", "fetch"}]
    \cup [op : {"reply"}, host : Hosts]
    \cup [op : {"removeAppRules"}, app : Users]
    \cup [op : {"reject"}, host : Hosts]
    \cup [op : {"clear"}, app : Users, seen : Seq(Hosts)]
    \cup [op : {"addRule", "push"}, app : Users, host : Hosts]
    \cup [op : {"addDomain", "updateCache", "start"}, app : Apps, host : Hosts]
    \cup [op : {"addLink"}, from : Hosts, host : Hosts]

TypeOK ==
  /\ DOMAIN rules \subseteq Users
  /\ \A a \in DOMAIN rules : rules[a] \in Seq(Hosts)
  /\ options \in Options
  /\ domainCache \in [Hosts -> Seq(Hosts)]
  /\ job \in Jobs
  /\ todo \in [Threads -> Seq(Work)]
  /\ running \in [Commands -> [Hosts -> Nat]]
  /\ iptables \in [Hosts -> Nat]
  /\ events \in 0..MaxEvents
  /\ failures \in 0..MaxFailures
  /\ astray \in [Hosts -> Int]
  /\ shared \in BOOLEAN

Init ==
  /\ rules = [a \in {} |-> <<>>]
  /\ options \in Options
  /\ domainCache = [h \in Hosts |-> <<>>]
  /\ job = [app |-> NoApp, host |-> NoHost]
  /\ todo = [t \in Threads |-> <<>>]
  /\ running = [c \in Commands |-> [h \in Hosts |-> 0]]
  /\ iptables = [h \in Hosts |-> 0]
  /\ events = 0
  /\ failures = 0
  /\ astray = [h \in Hosts |-> 0]
  /\ shared = FALSE

-----------------------------------------------------------------------------
(* The list.                                                               *)

\* Where the rule of h is in the lists, and how often.
Places(h) == UNION {{a} \X {k \in DOMAIN rules[a] : rules[a][k] = h} : a \in DOMAIN rules}
Listed(h) == Cardinality(Places(h))

IPTableRuleExists(h) == \E a \in DOMAIN rules : h \in Range(rules[a])

\* rules[app], which QMap inserts if it is not there.
RulesOf(a) == IF a \in DOMAIN rules THEN rules[a] ELSE <<>>
With(a, s) == [b \in DOMAIN rules \cup {a} |-> IF b = a THEN s ELSE rules[b]]

-----------------------------------------------------------------------------
(* The operations a thread does, one at a time.                            *)

\* The next operation of thread t is an op ...
Does(t, op) == todo[t] # <<>> /\ Head(todo[t]).op = op
It(t) == Head(todo[t])

\* ... and calls ws before it goes on.
Calls(t, ws) == todo' = [todo EXCEPT ![t] = ws \o Tail(@)]

Each(s, Op(_)) == [k \in DOMAIN s |-> Op(s[k])]

Count(s, h) == Cardinality({k \in DOMAIN s : s[k] = h})

\* A command that does not do what it was for.
Lost(c, h) == [astray EXCEPT ![h] = IF c = "insert" THEN @ - 1 ELSE @ + 1]

Succeeds(ok) ==
  /\ ok \/ failures < MaxFailures
  /\ failures' = IF ok THEN failures ELSE failures + 1

\* exec(): a process is started and not waited for; whether it could be started is
\* not looked at.
Exec(c, h, starts) ==
  /\ Succeeds(starts)
  /\ running' = IF starts THEN [running EXCEPT ![c][h] = @ + 1] ELSE running
  /\ astray' = IF starts THEN astray ELSE Lost(c, h)
  /\ UNCHANGED iptables

removeAll(t) ==
  /\ Does(t, "removeAll")
  /\ Calls(t, Each(SetToSeq(DOMAIN rules), LAMBDA a : [op |-> "removeAppRules", app |-> a]))
  /\ UNCHANGED <<lists, cache, commands>>

\* The rules of the application as they are now are deleted, then the list is
\* cleared.
removeAppRules(t) ==
  /\ Does(t, "removeAppRules")
  /\ LET s == RulesOf(It(t).app)
     IN  Calls(t, Each(s, LAMBDA h : [op |-> "reject", host |-> h])
                    \o <<[op |-> "clear", app |-> It(t).app, seen |-> s]>>)
  /\ UNCHANGED <<lists, cache, commands>>

\* Mutant: the command to delete the rule is not run.
rejectWithoutExec(t, starts) ==
  /\ Does(t, "reject")
  /\ starts
  /\ Calls(t, <<>>)
  /\ UNCHANGED <<lists, cache, commands>>

\* A rule some list still has is deleted.
reject(t, starts) ==
  /\ Does(t, "reject")
  /\ IF IPTableRuleExists(It(t).host)
       THEN Exec("delete", It(t).host, starts)
       ELSE starts /\ astray' = Lost("delete", It(t).host) /\ UNCHANGED <<running, iptables, failures>>
  /\ Calls(t, <<>>)
  /\ UNCHANGED <<lists, cache>>

Clear(t) ==
  /\ Does(t, "clear")
  /\ rules' = With(It(t).app, <<>>)
  /\ astray' = [h \in Hosts |->
                  astray[h] + Count(RulesOf(It(t).app), h) - Count(It(t).seen, h)]
  /\ Calls(t, <<>>)
  /\ UNCHANGED <<options, events, cache, running, iptables, failures>>

\* A rule that is in no list, whoever it is for, is added.
addRule(t) ==
  /\ Does(t, "addRule")
  /\ Calls(t, IF IPTableRuleExists(It(t).host) THEN <<>>
              ELSE <<[op |-> "push", app |-> It(t).app, host |-> It(t).host]>>)
  /\ UNCHANGED <<lists, cache, commands>>

Push(t, starts) ==
  /\ Does(t, "push")
  /\ rules' = With(It(t).app, Append(RulesOf(It(t).app), It(t).host))
  /\ Exec("insert", It(t).host, starts)
  /\ Calls(t, <<>>)
  /\ UNCHANGED <<options, events, cache>>

\* With one domain per application the rules of the other one go first.  The
\* name may not resolve.
addDomain(t, resolved) ==
  /\ Does(t, "addDomain")
  /\ IF options.max = 0 THEN UNCHANGED rules /\ Calls(t, <<>>)
     ELSE LET a == It(t).app
              one == RulesOf(a) # <<>> /\ options.max = 1
          IN  /\ rules' = With(a, RulesOf(a))
              /\ Calls(t, (IF one THEN <<[op |-> "removeAppRules", app |-> a]>> ELSE <<>>)
                          \o (IF resolved
                                THEN <<[op |-> "addRule", app |-> a, host |-> It(t).host]>>
                                ELSE <<>>))
  /\ UNCHANGED <<options, events, cache, commands>>

-----------------------------------------------------------------------------
(* DomainCacheThread.                                                      *)

Idle(t) == todo[t] = <<>>

\* The loop of addURLList over the links hs of the page from.
AddLinks(from, hs) == Each(hs, LAMBDA h : [op |-> "addLink", from |-> from, host |-> h])

\* Between its wait() and its start() thread t is in updateCache.
Updates(t) == \E k \in DOMAIN todo[t] : todo[t][k].op = "start"

AddThenStart(t) ==
  /\ LET w == It(t)
     IN  Calls(t, AddLinks(w.host, domainCache[w.host])
                    \o <<[op |-> "start", app |-> w.app, host |-> w.host]>>)
  /\ shared' = (shared \/ \E u \in Threads \ {t} : Updates(u))
  /\ UNCHANGED <<lists, domainCache, job, commands>>

\* Mutant: the thread is not waited for.
updateCacheAtOnce(t) == Does(t, "updateCache") /\ AddThenStart(t)

\* updateCache: once the thread has ended, the links remembered for the page
\* are added, and the thread is started again.
updateCache(t) == Does(t, "updateCache") /\ Idle("cache") /\ AddThenStart(t)

\* Mutant: the application is not set.
StartWithoutApp(t) ==
  /\ Does(t, "start")
  /\ job' = [job EXCEPT !.host = It(t).host]
  /\ todo' = [todo EXCEPT ![t] = Tail(@),
                          !["cache"] = IF Idle("cache") THEN <<[op |-> "fetch"]>> ELSE @]
  /\ UNCHANGED <<lists, domainCache, shared, commands>>

\* Starting a thread that runs does nothing.
Start(t) ==
  /\ Does(t, "start")
  /\ job' = [app |-> It(t).app, host |-> It(t).host]
  /\ todo' = [todo EXCEPT ![t] = Tail(@),
                          !["cache"] = IF Idle("cache") THEN <<[op |-> "fetch"]>> ELSE @]
  /\ UNCHANGED <<lists, domainCache, shared, commands>>

\* syncGet: the request is sent ...
Fetch(t) ==
  /\ Does(t, "fetch")
  /\ Calls(t, <<[op |-> "reply", host |-> job.host]>>)
  /\ UNCHANGED <<lists, cache, commands>>

\* ... and at some time, if ever, it fails or the page is there.  Then the links of
\* the page replace the ones remembered.
Reply(t, fetched) ==
  /\ Does(t, "reply")
  /\ domainCache' = IF fetched THEN [domainCache EXCEPT ![job.host] = <<>>] ELSE domainCache
  /\ Calls(t, IF fetched THEN AddLinks(job.host, Links[It(t).host]) ELSE <<>>)
  /\ UNCHANGED <<lists, job, shared, commands>>

\* For the cache thread toUrl refers to _url.
ToUrl(t) == IF t = "cache" THEN job.host ELSE It(t).from

\* Mutant: the loop does not go on to the next link.
addURLForEver(t, allowed) ==
  /\ Does(t, "addLink")
  /\ Calls(t, IF allowed THEN <<[op |-> "addDomain", app |-> job.app, host |-> It(t).host], It(t)>>
              ELSE <<>>)
  /\ UNCHANGED <<lists, cache, commands>>

\* addURLList: a link a rule allows in the current domain is remembered, again
\* if it was, and added for the application of the last job.
addURLList(t, allowed) ==
  /\ Does(t, "addLink")
  /\ domainCache' = IF allowed
                      THEN [domainCache EXCEPT ![ToUrl(t)] = Append(@, It(t).host)]
                      ELSE domainCache
  /\ Calls(t, IF allowed THEN <<[op |-> "addDomain", app |-> job.app, host |-> It(t).host]>>
              ELSE <<>>)
  /\ UNCHANGED <<lists, job, shared, commands>>

-----------------------------------------------------------------------------
(* The commands.                                                           *)

\* iptables fails if the table has been changed since it read it.
Inserted(h, ok) ==
  /\ running["insert"][h] > 0
  /\ Succeeds(ok)
  /\ running' = [running EXCEPT !["insert"][h] = @ - 1]
  /\ iptables' = IF ok THEN [iptables EXCEPT ![h] = @ + 1] ELSE iptables
  /\ astray' = IF ok THEN astray ELSE Lost("insert", h)
  /\ UNCHANGED <<lists, cache, todo>>

\* One copy of the rule goes; there may be none yet.
Deleted(h, ok) ==
  /\ running["delete"][h] > 0
  /\ Succeeds(ok)
  /\ running' = [running EXCEPT !["delete"][h] = @ - 1]
  /\ IF ok /\ iptables[h] > 0
       THEN iptables' = [iptables EXCEPT ![h] = @ - 1] /\ UNCHANGED astray
       ELSE astray' = Lost("delete", h) /\ UNCHANGED iptables
  /\ UNCHANGED <<lists, cache, todo>>

-----------------------------------------------------------------------------
(* The events: eventHandler, on the thread that sends them.                *)

Handle(t, ws) ==
  /\ Idle(t)
  /\ events < MaxEvents
  /\ events' = events + 1
  /\ todo' = [todo EXCEPT ![t] = ws]
  /\ UNCHANGED <<rules, options, cache, commands>>

Flush == <<[op |-> "removeAll"]>>

\* A transition: flush, the static rules of the domain, then what is asked for.
TransitionDemand(t, static, request) ==
  Handle(t, (IF options.flush THEN Flush ELSE <<>>)
              \o Each(static, LAMBDA h : [op |-> "addRule", app |-> StaticAllow, host |-> h])
              \o request)

\* What the client asks for: a URL, or a host and a port, if the transition was
\* accepted.
Request(v) ==
  <<[op |-> "addDomain", app |-> v.app, host |-> v.host]>>
    \o IF v.url THEN <<[op |-> "updateCache", app |-> v.app, host |-> v.host]>> ELSE <<>>

Restart(t) == Handle(t, Flush)

\* readConf.
Reload ==
  /\ events < MaxEvents
  /\ events' = events + 1
  /\ options' \in Options
  /\ UNCHANGED <<rules, cache, todo, commands>>

-----------------------------------------------------------------------------
Step(t) ==
  \/ removeAll(t) \/ removeAppRules(t) \/ Clear(t) \/ addRule(t)
  \/ updateCache(t) \/ Start(t) \/ Fetch(t)
  \/ \E b \in BOOLEAN : reject(t, b) \/ Push(t, b) \/ addDomain(t, b) \/ addURLList(t, b)

CommandEnds == \E h \in Hosts, b \in BOOLEAN : Inserted(h, b) \/ Deleted(h, b)

\* The handler reads the state of the client, which the two threads that decide
\* share: either may see what only D-Bus sends.
Next ==
  \/ \E t \in Threads : Step(t) \/ \E b \in BOOLEAN : Reply(t, b)
  \/ CommandEnds
  \/ \E t \in {"main", "kernel"}, static \in StaticAllows :
       \/ TransitionDemand(t, static, <<>>)
       \/ \E v \in Visits : TransitionDemand(t, static, Request(v))
  \/ Restart("xorg")
  \/ Reload

Spec == Init /\ [][Next]_vars

\* The threads are scheduled and the commands end; a server need not reply.
FairSpec == Spec /\ WF_vars(CommandEnds) /\ \A t \in Threads : WF_vars(Step(t))

-----------------------------------------------------------------------------
(* Properties *)

\* Nothing of the kind is left to do.
NoOp(q, ops) == \A k \in DOMAIN q : q[k].op \notin ops

\* From its wait() to its start() updateCache uses what it shares with the thread.
Uses(t) == IF t = "cache" THEN ~Idle(t) ELSE Updates(t)

\* The cache thread and updateCache share domainCache, _appName and _url without
\* a lock.  As long as no two threads have been in updateCache at once, a thread
\* has them to itself from its wait() to its start().
CacheHasOneOwner == shared \/ \A t, u \in Threads : Uses(t) /\ Uses(u) => t = u

\* When nothing is under way iptables holds each rule as often as the lists, so
\* that a flush will close what is open, whatever the threads did between, but for
\* the commands that were lost and the rules that a removal cleared without
\* having deleted them, or deleted after another had.
FirewallIsListed ==
  (\A t \in Threads : Idle(t)) /\ (\A c \in Commands, h \in Hosts : running[c][h] = 0) =>
    \A h \in Hosts : iptables[h] = Listed(h) + astray[h]

\* Thread t waits for a server, or for the cache thread that does.
WaitsForServer(t) == Does("cache", "reply") /\ (t = "cache" \/ Does(t, "updateCache"))

\* After the last event everything comes to rest, unless a server never replies:
\* then the cache thread waits for it, and those that wait for the cache thread.
ComesToRest == <>[](\A t \in Threads : Idle(t) \/ WaitsForServer(t))

\* The inductive invariant behind these.  What each thread may have to do: only
\* the main thread and KThread call updateCache, as the last thing of an event.
LastOnly(q) == \A k \in DOMAIN q : q[k].op \in {"updateCache", "start"} => k = Len(q)

Lanes ==
  /\ NoOp(todo["xorg"], {"addDomain", "addLink", "fetch", "reply", "updateCache", "start"})
  /\ NoOp(todo["cache"], {"updateCache", "start"})
  /\ \A t \in {"main", "kernel"} : NoOp(todo[t], {"fetch", "reply"}) /\ LastOnly(todo[t])

\* Before the first job there are no links.
NoJobYet ==
  /\ job.app = NoApp => /\ Idle("cache")
                        /\ \A h \in Hosts : domainCache[h] = <<>>
                        /\ \A t \in Threads : NoOp(todo[t], {"addLink"})
  /\ job.app # NoApp => job.host # NoHost

\* A removal in progress at c: the deletions of the last rules of the list that
\* was seen, then the clearing of the list.
Removal(q, c) ==
  LET s == q[c].seen
  IN  /\ q[c].op = "clear"
      /\ c <= Len(s) + 1
      /\ \A j \in 1..c-1 : q[j] = [op |-> "reject", host |-> s[Len(s) + 1 - c + j]]

\* A thread removes one list at a time, before anything else.
Removes(q) == {k \in DOMAIN q : q[k].op \in {"reject", "clear"}}
OneRemoval(q) ==
  Removes(q) = {} \/ \E c \in DOMAIN q : Removes(q) = 1..c /\ Removal(q, c)

\* How many rules of h it has deleted and not yet taken off the list.
HalfRemoved(q, h) ==
  LET clears == {k \in DOMAIN q : q[k].op = "clear"}
      c == CHOOSE k \in clears : TRUE
      s == q[c].seen
  IN  IF clears = {} THEN 0 ELSE Cardinality({j \in 1..Len(s) + 1 - c : s[j] = h})

\* Each rule of a list is in iptables, on its way there, half removed or astray.
Balanced ==
  \A h \in Hosts :
    iptables[h] + running["insert"][h] + HalfRemoved(todo["main"], h)
        + HalfRemoved(todo["kernel"], h) + HalfRemoved(todo["xorg"], h)
        + HalfRemoved(todo["cache"], h)
      = Listed(h) + running["delete"][h] + astray[h]

FirewallInv ==
  /\ TypeOK
  /\ IsFiniteSet(DOMAIN rules) /\ \A h \in Hosts : IsFiniteSet(Places(h))
  /\ Lanes
  /\ NoJobYet
  /\ CacheHasOneOwner
  /\ \A t \in Threads : OneRemoval(todo[t])
  /\ Balanced
=============================================================================
