---------------------------- MODULE PigaHandler ----------------------------
(***************************************************************************)
(* PigaHandler: the transitions contextd accepts are validated by PIGA,    *)
(* over one local socket.  sendTrace numbers the trace with the static     *)
(* traceId, writes it and waits up to 30 s for a reply that carries the    *)
(* number.  The handler is a singleton both deciding threads call, without *)
(* a lock.                                                                 *)
(*                                                                         *)
(* A reply is the two words "<id> <decision>".  It carries no end of line  *)
(* (the decision is compared with the rest of what readLine returns), so   *)
(* what has arrived when a thread reads is taken as one line: several      *)
(* replies that have arrived together are not understood.  PIGA itself is  *)
(* external: it replies to the traces in their order, at any time or       *)
(* never, and may go away for good, since the socket is connected only     *)
(* once.                                                                   *)
(***************************************************************************)
EXTENDS Naturals, Sequences

CONSTANTS Threads, MaxTraces

ASSUME MaxTracesType == MaxTraces \in Nat

VARIABLES
  enabled, traceId,      \* PigaHandler::enabled, PigaHandler::traceId
  connected,             \* socket.isValid()
  pc, asked, waitId,     \* each thread: its trace, the id it waits for
  sent, arrived,         \* traces on their way to PIGA, replies on their way back
  traces,                \* history: how many traces were asked for
  verdict,               \* history: what PIGA said of each trace
  decision, gaveUp,      \* history: what sendTrace returned, after a timeout
  overlapped             \* history: two threads were in sendTrace at a time

threadVars == <<pc, asked, waitId>>
history == <<traces, verdict, decision, gaveUp, overlapped>>
vars == <<enabled, traceId, connected, pc, asked, waitId, sent, arrived, traces, verdict,
          decision, gaveUp, overlapped>>

Traces == 1..MaxTraces
Ids == 0..MaxTraces
Verdicts == {"allowed", "refused", "killed"}
Decisions == {"Disabled", "Allowed", "Refused", "Killed", "Error"}

TypeOK ==
  /\ enabled \in BOOLEAN
  /\ traceId \in Ids
  /\ connected \in BOOLEAN
  /\ pc \in [Threads -> {"idle", "write", "written", "wait"}]
  /\ asked \in [Threads -> Traces \cup {0}]
  /\ waitId \in [Threads -> Ids]
  /\ sent \in Seq([id : Ids, trace : Traces])
  /\ arrived \in Seq([id : Ids, verdict : Verdicts])
  /\ traces \in Ids
  /\ verdict \in [Traces -> Verdicts \cup {"none"}]
  /\ decision \in [Traces -> Decisions \cup {"none"}]
  /\ gaveUp \in SUBSET Traces
  /\ overlapped \in BOOLEAN

Init ==
  /\ enabled \in BOOLEAN
  /\ traceId = 0
  /\ connected \in BOOLEAN
  /\ pc = [th \in Threads |-> "idle"]
  /\ asked = [th \in Threads |-> 0]
  /\ waitId = [th \in Threads |-> 0]
  /\ sent = <<>>
  /\ arrived = <<>>
  /\ traces = 0
  /\ verdict = [t \in Traces |-> "none"]
  /\ decision = [t \in Traces |-> "none"]
  /\ gaveUp = {}
  /\ overlapped = FALSE

-----------------------------------------------------------------------------
Goto(th, l) == pc' = [pc EXCEPT ![th] = l]

Decide(t, d) == decision' = [decision EXCEPT ![t] = d]

\* Mutant: the identifier is incremented once more for the log.
SendTraceTwice(th) ==
  /\ pc[th] = "idle"
  /\ traces < MaxTraces
  /\ traces' = traces + 1
  /\ asked' = [asked EXCEPT ![th] = traces + 1]
  /\ traceId' = traceId + 2
  /\ Goto(th, "write")
  /\ UNCHANGED <<enabled, connected, waitId, sent, arrived, verdict, decision, gaveUp,
                 overlapped>>

\* sendTrace of a new trace: disabled, or the identifier is incremented.
SendTrace(th) ==
  /\ pc[th] = "idle"
  /\ traces < MaxTraces
  /\ traces' = traces + 1
  /\ asked' = [asked EXCEPT ![th] = traces + 1]
  /\ IF enabled
       THEN traceId' = traceId + 1 /\ Goto(th, "write") /\ UNCHANGED decision
       ELSE Decide(traces + 1, "Disabled") /\ UNCHANGED <<traceId, pc>>
  /\ overlapped' = (overlapped \/ \E other \in Threads \ {th} : pc[other] # "idle")
  /\ UNCHANGED <<enabled, connected, waitId, sent, arrived, verdict, gaveUp>>

\* The trace is written with the identifier there is by now.
Write(th) ==
  /\ pc[th] = "write"
  /\ sent' = IF connected THEN Append(sent, [id |-> traceId, trace |-> asked[th]]) ELSE sent
  /\ Goto(th, "written")
  /\ UNCHANGED <<enabled, traceId, connected, asked, waitId, arrived, history>>

\* Mutant: the identifier waited for is the one of the next trace.
StartWaitNext(th) ==
  /\ pc[th] = "written"
  /\ waitId' = [waitId EXCEPT ![th] = IF traceId < MaxTraces THEN traceId + 1 ELSE 0]
  /\ IF connected
       THEN Goto(th, "wait") /\ UNCHANGED decision
       ELSE Goto(th, "idle") /\ Decide(asked[th], "Error")
  /\ UNCHANGED <<enabled, traceId, connected, asked, sent, arrived, traces, verdict, gaveUp,
                 overlapped>>

\* waitForNextDecision(traceId).
StartWait(th) ==
  /\ pc[th] = "written"
  /\ waitId' = [waitId EXCEPT ![th] = traceId]
  /\ IF connected
       THEN Goto(th, "wait") /\ UNCHANGED decision
       ELSE Goto(th, "idle") /\ Decide(asked[th], "Error")
  /\ UNCHANGED <<enabled, traceId, connected, asked, sent, arrived, traces, verdict, gaveUp,
                 overlapped>>

DecisionOf(v) == CASE v = "allowed" -> "Allowed"
                   [] v = "killed"  -> "Killed"
                   [] v = "refused" -> "Refused"

\* Mutant: the identifier of the reply is not looked at.
ReadAnyReply(th) ==
  /\ pc[th] = "wait"
  /\ arrived # <<>>
  /\ arrived' = <<>>
  /\ Decide(asked[th], IF Len(arrived) = 1 THEN DecisionOf(arrived[1].verdict) ELSE "Error")
  /\ Goto(th, "idle")
  /\ UNCHANGED <<enabled, traceId, connected, asked, waitId, sent, traces, verdict, gaveUp,
                 overlapped>>

\* Something has arrived: it is read, and it is the decision if it is one
\* reply with the identifier waited for.
ReadReply(th) ==
  /\ pc[th] = "wait"
  /\ arrived # <<>>
  /\ arrived' = <<>>
  /\ Decide(asked[th], IF Len(arrived) = 1 /\ arrived[1].id = waitId[th]
                         THEN DecisionOf(arrived[1].verdict) ELSE "Error")
  /\ Goto(th, "idle")
  /\ UNCHANGED <<enabled, traceId, connected, asked, waitId, sent, traces, verdict, gaveUp,
                 overlapped>>

\* 30 s have passed without new data.  A late reply that the event loop of the
\* main thread has buffered does not count, and stays.
Timeout(th) ==
  /\ pc[th] = "wait"
  /\ Decide(asked[th], "Error")
  /\ gaveUp' = gaveUp \cup {asked[th]}
  /\ Goto(th, "idle")
  /\ UNCHANGED <<enabled, traceId, connected, asked, waitId, sent, arrived, traces, verdict,
                 overlapped>>

-----------------------------------------------------------------------------
\* PIGA replies to the next trace ...
Reply(v) ==
  /\ sent # <<>>
  /\ sent' = Tail(sent)
  /\ verdict' = [verdict EXCEPT ![sent[1].trace] = v]
  /\ arrived' = Append(arrived, [id |-> sent[1].id, verdict |-> v])
  /\ UNCHANGED <<enabled, traceId, connected, threadVars, traces, decision, gaveUp, overlapped>>

\* ... or closes the socket.
Disconnect ==
  /\ connected
  /\ connected' = FALSE
  /\ sent' = <<>>
  /\ UNCHANGED <<enabled, traceId, threadVars, arrived, history>>

-----------------------------------------------------------------------------
ThreadStep(th) ==
  \/ SendTrace(th) \/ Write(th) \/ StartWait(th) \/ ReadReply(th) \/ Timeout(th)

Next ==
  \/ \E th \in Threads : ThreadStep(th)
  \/ \E v \in Verdicts : Reply(v)
  \/ Disconnect

Spec == Init /\ [][Next]_vars

-----------------------------------------------------------------------------
(* Properties *)

\* A transition goes through, or has its client killed, only if PIGA said so
\* of that very transition, whatever came late before it and whichever thread
\* asks, as long as the two threads do not ask at the same time.
DecidedByPiga ==
  overlapped \/
    \A t \in Traces : /\ decision[t] = "Allowed" => verdict[t] = "allowed"
                      /\ decision[t] = "Killed" => verdict[t] = "killed"

\* sendTrace waits for the answer to its trace: while the socket is there and
\* the threads take turns, every answer of PIGA is the decision, up to the first
\* time a thread gives up waiting (the late answer is then read for the next).
AnswerIsTheDecision ==
  ~overlapped /\ gaveUp = {} /\ connected =>
    \A t \in Traces :
      verdict[t] # "none" /\ decision[t] # "none" => decision[t] = DecisionOf(verdict[t])

\* The inductive invariant behind these.  The numbers: traceId has counted every
\* trace, and a handler that is disabled has never sent one.
Numbered ==
  /\ traceId = IF enabled THEN traces ELSE 0
  /\ ~enabled => sent = <<>> /\ \A th \in Threads : pc[th] = "idle"
  /\ \A th \in Threads : pc[th] # "idle" => asked[th] \in 1..traces

\* While the threads take turns, the one in sendTrace has the last trace, which
\* is not decided yet.
Turns ==
  \A th \in Threads : pc[th] # "idle" =>
    /\ \A other \in Threads \ {th} : pc[other] = "idle"
    /\ asked[th] = traces
    /\ decision[traces] = "none"
    /\ pc[th] = "wait" => waitId[th] = traces
    /\ pc[th] = "write" => verdict[traces] = "none" /\
                           \A k \in DOMAIN sent : sent[k].trace # traces

\* Each trace is on its way under its own number, once, and has no verdict yet;
\* a reply on its way back is the verdict on the trace it names.
InTransit ==
  /\ \A k \in DOMAIN sent : /\ sent[k].id = sent[k].trace
                            /\ sent[k].trace <= traces
                            /\ verdict[sent[k].trace] = "none"
  /\ \A j, k \in DOMAIN sent : sent[j].trace = sent[k].trace => j = k
  /\ \A k \in DOMAIN arrived : /\ arrived[k].id \in Traces
                               /\ arrived[k].verdict = verdict[arrived[k].id]
  /\ \A t \in Traces : t > traces => verdict[t] = "none" /\ decision[t] = "none"

\* Until a thread gives up, the socket holds the trace of the thread that waits,
\* or its reply, and nothing else.
OneInTransit ==
  /\ (\A th \in Threads : pc[th] \in {"idle", "write"}) => sent = <<>> /\ arrived = <<>>
  /\ \A th \in Threads : pc[th] \in {"written", "wait"} =>
       \/ Len(sent) = 1 /\ arrived = <<>> /\ sent[1].trace = traces
       \/ sent = <<>> /\ Len(arrived) = 1 /\ arrived[1].id = traces

PigaInv ==
  /\ TypeOK
  /\ Numbered
  /\ ~overlapped => Turns /\ InTransit
  /\ ~overlapped /\ gaveUp = {} /\ connected => OneInTransit
  /\ DecidedByPiga
  /\ AnswerIsTheDecision
=============================================================================
