------------------------- MODULE PigaHandlerProofs -------------------------
(***************************************************************************)
(* For every set of threads and every number of traces, PigaInv is an      *)
(* invariant of PigaHandler: no transition is taken for decided by PIGA    *)
(* that PIGA has not decided so, and up to the first timeout every answer  *)
(* of PIGA is the decision.                                                *)
(*                                                                         *)
(* There is one lemma per action, with one step per conjunct of PigaInv.   *)
(* DecidedByPiga is not inductive: it rests on what is on the socket       *)
(* (InTransit) and on whose turn it is (Turns).                            *)
(***************************************************************************)
EXTENDS PigaHandler, SequenceTheorems, TLAPS

USE MaxTracesType
USE DEF Traces, Ids, Verdicts, Decisions, Goto, Decide, threadVars, history

\* What goes to PIGA and what comes back.
Sent == [id : Ids, trace : Traces]
Replies == [id : Ids, verdict : Verdicts]

\* The types of what is on the socket.
LEMMA SocketTypes ==
  ASSUME TypeOK
  PROVE  /\ sent \in Seq(Sent) /\ arrived \in Seq(Replies)
         /\ Len(sent) \in Nat /\ DOMAIN sent = 1..Len(sent)
         /\ Len(arrived) \in Nat /\ DOMAIN arrived = 1..Len(arrived)
         /\ \A k \in DOMAIN sent : sent[k] \in Sent /\ sent[k].id \in Ids /\ sent[k].trace \in Traces
         /\ \A k \in DOMAIN arrived : /\ arrived[k] \in Replies
                                      /\ arrived[k].id \in Ids /\ arrived[k].verdict \in Verdicts
         /\ traces \in Nat
<1>1. sent \in Seq(Sent) /\ arrived \in Seq(Replies) /\ traces \in Nat
  BY DEF TypeOK, Sent, Replies
<1>2. /\ Len(sent) \in Nat /\ DOMAIN sent = 1..Len(sent)
      /\ Len(arrived) \in Nat /\ DOMAIN arrived = 1..Len(arrived)
  BY <1>1, LenProperties
<1>3. /\ \A k \in DOMAIN sent : sent[k] \in Sent
      /\ \A k \in DOMAIN arrived : arrived[k] \in Replies
  BY <1>1, <1>2, ElementOfSeq
<1> QED
  BY <1>1, <1>2, <1>3 DEF Sent, Replies

\* Nothing is asked for yet.
LEMMA InitPigaInv == Init => PigaInv
<1> SUFFICES ASSUME Init PROVE PigaInv
  OBVIOUS
<1>1. TypeOK
  <2>1. sent \in Seq(Sent) /\ arrived \in Seq(Replies)
    BY EmptySeq DEF Init
  <2>2. enabled \in BOOLEAN /\ connected \in BOOLEAN /\ overlapped \in BOOLEAN
    BY DEF Init
  <2>3. /\ pc \in [Threads -> {"idle", "write", "written", "wait"}]
        /\ asked \in [Threads -> Traces \cup {0}]
        /\ waitId \in [Threads -> Ids]
    BY DEF Init
  <2>4. /\ traceId \in Ids /\ traces \in Ids /\ gaveUp \in SUBSET Traces
        /\ verdict \in [Traces -> Verdicts \cup {"none"}]
        /\ decision \in [Traces -> Decisions \cup {"none"}]
    BY DEF Init
  <2> QED
    BY <2>1, <2>2, <2>3, <2>4 DEF TypeOK, Sent, Replies
<1>2. Numbered /\ Turns /\ InTransit /\ OneInTransit
  BY DEF Init, Numbered, Turns, InTransit, OneInTransit
<1>3. DecidedByPiga /\ AnswerIsTheDecision
  BY DEF Init, DecidedByPiga, AnswerIsTheDecision
<1> QED
  BY <1>1, <1>2, <1>3 DEF PigaInv

\* sendTrace begins: the new trace has neither a verdict nor a decision.
LEMMA SendTraceStep ==
  ASSUME PigaInv, NEW th \in Threads, SendTrace(th)
  PROVE  PigaInv'
<1> USE DEF PigaInv
<1>1. /\ pc[th] = "idle" /\ traces' = traces + 1 /\ traces' \in 1..MaxTraces
      /\ asked'[th] = traces' /\ \A x \in Threads \ {th} : asked'[x] = asked[x]
      /\ UNCHANGED <<enabled, connected, waitId, sent, arrived, verdict, gaveUp>>
  BY DEF SendTrace, TypeOK
<1>2. CASE enabled
  <2>1. /\ traceId' = traceId + 1 /\ traceId = traces
        /\ pc'[th] = "write" /\ \A x \in Threads \ {th} : pc'[x] = pc[x]
        /\ pc' = [pc EXCEPT ![th] = "write"] /\ decision' = decision
    BY <1>2 DEF SendTrace, TypeOK, Numbered
  <2>2. overlapped' = (overlapped \/ \E x \in Threads \ {th} : pc[x] # "idle")
    BY DEF SendTrace
  <2>3. TypeOK'
    <3>1. overlapped' \in BOOLEAN
      BY <2>2
    <3> QED
      BY <1>1, <2>1, <3>1 DEF TypeOK, SendTrace
  <2>4. Numbered'
    BY <1>1, <1>2, <2>1 DEF Numbered, TypeOK
  <2>5. ASSUME ~overlapped' PROVE Turns' /\ InTransit'
    <3>1. ~overlapped /\ \A x \in Threads : pc[x] = "idle"
      BY <2>2, <2>5, <1>1
    <3>2. verdict[traces + 1] = "none" /\ decision[traces + 1] = "none"
      BY <1>1, <3>1 DEF InTransit, TypeOK
    <3>3. \A k \in DOMAIN sent : sent[k].trace # traces + 1
      <4> SUFFICES ASSUME NEW k \in DOMAIN sent PROVE sent[k].trace # traces + 1
        OBVIOUS
      <4>1. sent[k].trace <= traces
        BY <3>1 DEF InTransit
      <4>2. sent[k].trace \in Nat /\ traces \in Nat
        BY SocketTypes
      <4> QED
        BY <4>1, <4>2, <1>1
    <3>4. Turns'
      BY <1>1, <2>1, <3>1, <3>2, <3>3 DEF Turns
    <3>5. InTransit'
      BY <1>1, <2>1, <3>1, SocketTypes DEF InTransit
    <3> QED
      BY <3>4, <3>5
  <2>6. ASSUME ~overlapped', gaveUp' = {}, connected' PROVE OneInTransit'
    <3>1. ~overlapped /\ (\A x \in Threads : pc[x] = "idle") /\ gaveUp = {} /\ connected
      BY <2>2, <2>6, <1>1
    <3>2. sent = <<>> /\ arrived = <<>>
      BY <3>1 DEF OneInTransit
    <3> QED
      BY <1>1, <2>1, <3>1, <3>2 DEF OneInTransit
  <2>7. DecidedByPiga' /\ AnswerIsTheDecision'
    BY <1>1, <2>1, <2>2 DEF DecidedByPiga, AnswerIsTheDecision
  <2> QED
    BY <2>3, <2>4, <2>5, <2>6, <2>7
<1>3. CASE ~enabled
  <2>1. /\ decision' = [decision EXCEPT ![traces + 1] = "Disabled"]
        /\ UNCHANGED <<traceId, pc>>
        /\ sent = <<>> /\ \A x \in Threads : pc[x] = "idle"
    BY <1>3 DEF SendTrace, Numbered
  <2>2. overlapped' = overlapped
    BY <2>1 DEF SendTrace, TypeOK
  <2>3. TypeOK'
    BY <1>1, <2>1, <2>2 DEF TypeOK, SendTrace
  <2>4. Numbered'
    BY <1>1, <1>3, <2>1 DEF Numbered
  <2>5. ASSUME ~overlapped' PROVE Turns' /\ InTransit'
    BY <1>1, <2>1, <2>2, <2>5 DEF Turns, InTransit, TypeOK
  <2>6. ASSUME ~overlapped', gaveUp' = {}, connected' PROVE OneInTransit'
    BY <1>1, <2>1, <2>2, <2>6 DEF OneInTransit
  <2>7. ASSUME ~overlapped' PROVE verdict[traces + 1] = "none"
    BY <1>1, <2>2, <2>7 DEF InTransit, TypeOK
  <2>8. DecidedByPiga' /\ AnswerIsTheDecision'
    BY <1>1, <2>1, <2>2, <2>7 DEF DecidedByPiga, AnswerIsTheDecision, TypeOK
  <2> QED
    BY <2>3, <2>4, <2>5, <2>6, <2>8
<1> QED
  BY <1>2, <1>3

\* The trace is written: it is on its way alone if no thread has given up.
LEMMA WriteStep ==
  ASSUME PigaInv, NEW th \in Threads, Write(th)
  PROVE  PigaInv'
<1> USE DEF PigaInv
<1>1. /\ pc[th] = "write" /\ pc'[th] = "written"
      /\ \A x \in Threads \ {th} : pc'[x] = pc[x]
      /\ pc' \in [Threads -> {"idle", "write", "written", "wait"}]
      /\ UNCHANGED <<enabled, traceId, connected, asked, waitId, arrived, traces, verdict,
                     decision, gaveUp, overlapped>>
  BY DEF Write, TypeOK
<1>2. enabled /\ traceId = traces /\ asked[th] \in 1..traces
  BY <1>1 DEF Numbered
<1>3. CASE connected
  <2> DEFINE m == [id |-> traceId, trace |-> asked[th]]
  <2>1. m \in Sent /\ m.id = traces /\ m.trace = asked[th]
    BY <1>2 DEF Sent, TypeOK
  <2>2. /\ sent' \in Seq(Sent) /\ Len(sent') = Len(sent) + 1
        /\ DOMAIN sent' = 1..Len(sent) + 1 /\ sent'[Len(sent) + 1] = m
        /\ \A k \in 1..Len(sent) : sent'[k] = sent[k]
    <3>1. sent' = Append(sent, m)
      BY <1>3 DEF Write
    <3> HIDE DEF m
    <3>2. sent' \in Seq(Sent)
      BY <3>1, <2>1, SocketTypes, AppendProperties
    <3> QED
      BY <3>1, <3>2, <2>1, SocketTypes, AppendProperties, LenProperties
  <2> HIDE DEF m
  <2>3. TypeOK'
    BY <1>1, <2>2 DEF TypeOK, Sent
  <2>4. Numbered'
    BY <1>1, <1>2 DEF Numbered
  <2>5. ASSUME ~overlapped' PROVE Turns' /\ InTransit'
    <3>1. Turns /\ InTransit
      BY <1>1, <2>5
    <3>2. m.trace = traces /\ verdict[traces] = "none"
          /\ \A k \in DOMAIN sent : sent[k].trace # traces
      BY <1>1, <2>1, <3>1 DEF Turns
    <3>3. Turns'
      BY <1>1, <3>1 DEF Turns
    <3>4. InTransit'
      <4>1. \A k \in DOMAIN sent' : \/ k \in DOMAIN sent /\ sent'[k] = sent[k]
                                    \/ k = Len(sent) + 1 /\ sent'[k] = m
        BY <2>2, SocketTypes
      <4>2. m.id = m.trace /\ m.trace <= traces /\ verdict[m.trace] = "none"
            /\ \A k \in DOMAIN sent : sent[k].trace # m.trace
        BY <2>1, <3>2, SocketTypes
      <4> QED
        BY <1>1, <3>1, <4>1, <4>2 DEF InTransit
    <3> QED
      BY <3>3, <3>4
  <2>6. ASSUME ~overlapped', gaveUp' = {}, connected' PROVE OneInTransit'
    <3>1. Turns /\ OneInTransit
      BY <1>1, <2>6
    <3>2. sent = <<>> /\ arrived = <<>> /\ asked[th] = traces
      BY <1>1, <3>1 DEF Turns, OneInTransit
    <3>3. Len(sent') = 1 /\ sent'[1].trace = traces
      BY <2>1, <2>2, <3>2, EmptySeq
    <3> QED
      BY <1>1, <3>1, <3>2, <3>3 DEF OneInTransit
  <2>7. DecidedByPiga' /\ AnswerIsTheDecision'
    BY <1>1 DEF DecidedByPiga, AnswerIsTheDecision
  <2> QED
    BY <2>3, <2>4, <2>5, <2>6, <2>7
<1>4. CASE ~connected
  <2>1. sent' = sent
    BY <1>4 DEF Write
  <2>2. TypeOK'
    BY <1>1, <2>1 DEF TypeOK
  <2>3. Numbered'
    BY <1>1, <1>2 DEF Numbered
  <2>4. ASSUME ~overlapped' PROVE Turns' /\ InTransit'
    BY <1>1, <2>1, <2>4 DEF Turns, InTransit
  <2>5. DecidedByPiga' /\ AnswerIsTheDecision'
    BY <1>1 DEF DecidedByPiga, AnswerIsTheDecision
  <2> QED
    BY <1>1, <1>4, <2>2, <2>3, <2>4, <2>5
<1> QED
  BY <1>3, <1>4

\* waitForNextDecision begins, with the identifier of the trace, or finds the
\* socket closed.
LEMMA StartWaitStep ==
  ASSUME PigaInv, NEW th \in Threads, StartWait(th)
  PROVE  PigaInv'
<1> USE DEF PigaInv
<1>1. /\ pc[th] = "written" /\ pc'[th] = IF connected THEN "wait" ELSE "idle"
      /\ \A x \in Threads \ {th} : pc'[x] = pc[x] /\ waitId'[x] = waitId[x]
      /\ pc' \in [Threads -> {"idle", "write", "written", "wait"}]
      /\ waitId'[th] = traceId /\ waitId' \in [Threads -> Ids]
      /\ UNCHANGED <<enabled, traceId, connected, asked, sent, arrived, traces, verdict,
                     gaveUp, overlapped>>
  BY DEF StartWait, TypeOK
<1>2. enabled /\ traceId = traces /\ asked[th] \in 1..traces /\ asked[th] \in Traces
  BY <1>1 DEF Numbered, TypeOK
<1>3. decision' = IF connected THEN decision ELSE [decision EXCEPT ![asked[th]] = "Error"]
  BY DEF StartWait
<1>4. TypeOK'
  <2>1. decision' \in [Traces -> Decisions \cup {"none"}]
    BY <1>2, <1>3 DEF TypeOK
  <2> QED
    BY <1>1, <2>1 DEF TypeOK
<1>5. Numbered'
  BY <1>1, <1>2 DEF Numbered
<1>6. ASSUME ~overlapped' PROVE Turns' /\ InTransit'
  <2>1. Turns /\ InTransit /\ asked[th] = traces
    BY <1>1, <1>6 DEF Turns
  <2>2. Turns'
    BY <1>1, <1>2, <1>3, <2>1 DEF Turns
  <2>3. InTransit'
    BY <1>1, <1>2, <1>3, <2>1, SocketTypes DEF InTransit, TypeOK
  <2> QED
    BY <2>2, <2>3
<1>7. ASSUME ~overlapped', gaveUp' = {}, connected' PROVE OneInTransit'
  BY <1>1, <1>7 DEF OneInTransit
<1>8. DecidedByPiga' /\ AnswerIsTheDecision'
  BY <1>1, <1>2, <1>3 DEF DecidedByPiga, AnswerIsTheDecision, TypeOK
<1> QED
  BY <1>4, <1>5, <1>6, <1>7, <1>8

\* The reply is read: if it is taken for the decision it names the trace of the
\* thread, and so is the verdict on it.
LEMMA ReadReplyStep ==
  ASSUME PigaInv, NEW th \in Threads, ReadReply(th)
  PROVE  PigaInv'
<1> USE DEF PigaInv
<1>1. /\ pc[th] = "wait" /\ pc'[th] = "idle" /\ arrived # <<>> /\ arrived' = <<>>
      /\ \A x \in Threads \ {th} : pc'[x] = pc[x]
      /\ pc' \in [Threads -> {"idle", "write", "written", "wait"}]
      /\ UNCHANGED <<enabled, traceId, connected, asked, waitId, sent, traces, verdict,
                     gaveUp, overlapped>>
  BY DEF ReadReply, TypeOK
<1>2. enabled /\ traceId = traces /\ asked[th] \in 1..traces /\ asked[th] \in Traces
  BY <1>1 DEF Numbered, TypeOK
<1> DEFINE taken == Len(arrived) = 1 /\ arrived[1].id = waitId[th]
           d == IF taken THEN DecisionOf(arrived[1].verdict) ELSE "Error"
<1>3. decision' = [decision EXCEPT ![asked[th]] = d]
  BY DEF ReadReply
<1>4. taken => arrived[1].verdict \in Verdicts
  BY SocketTypes
<1>5. d \in Decisions
  BY <1>4 DEF DecisionOf
<1>6. /\ d = "Allowed" => taken /\ arrived[1].verdict = "allowed"
      /\ d = "Killed" => taken /\ arrived[1].verdict = "killed"
  BY <1>4 DEF DecisionOf
<1>7. taken => d = DecisionOf(arrived[1].verdict)
  OBVIOUS
<1> HIDE DEF d
<1>8. TypeOK'
  <2>1. decision' \in [Traces -> Decisions \cup {"none"}]
    BY <1>2, <1>3, <1>5 DEF TypeOK
  <2>2. arrived' \in Seq(Replies)
    BY <1>1, EmptySeq
  <2> QED
    BY <1>1, <2>1, <2>2 DEF TypeOK, Replies
<1>9. Numbered'
  BY <1>1, <1>2 DEF Numbered
<1>10. ASSUME ~overlapped
       PROVE  /\ Turns /\ InTransit /\ asked[th] = traces /\ waitId[th] = traces
              /\ taken => arrived[1].verdict = verdict[traces]
  <2>1. Turns /\ InTransit /\ asked[th] = traces /\ waitId[th] = traces
    BY <1>1, <1>10 DEF Turns
  <2>2. taken => 1 \in DOMAIN arrived
    BY SocketTypes
  <2> QED
    BY <2>1, <2>2 DEF InTransit
<1>11. ASSUME ~overlapped' PROVE Turns' /\ InTransit'
  <2>1. ~overlapped
    BY <1>1, <1>11
  <2>2. Turns'
    BY <1>1, <1>10, <2>1 DEF Turns
  <2>3. InTransit'
    BY <1>1, <1>2, <1>3, <1>10, <2>1, SocketTypes DEF InTransit, TypeOK
  <2> QED
    BY <2>2, <2>3
<1>12. ASSUME ~overlapped, gaveUp = {}, connected
       PROVE  sent = <<>> /\ taken
  BY <1>1, <1>10, <1>12, EmptySeq DEF OneInTransit
<1>13. ASSUME ~overlapped', gaveUp' = {}, connected' PROVE OneInTransit'
  BY <1>1, <1>10, <1>12, <1>13 DEF OneInTransit, Turns
<1>14. DecidedByPiga'
  <2> SUFFICES ASSUME ~overlapped, NEW t \in Traces
               PROVE  /\ decision'[t] = "Allowed" => verdict[t] = "allowed"
                      /\ decision'[t] = "Killed" => verdict[t] = "killed"
    BY <1>1 DEF DecidedByPiga
  <2>1. CASE t = asked[th]
    BY <1>2, <1>3, <1>6, <1>10, <2>1 DEF TypeOK
  <2>2. CASE t # asked[th]
    BY <1>3, <2>2 DEF DecidedByPiga, TypeOK
  <2> QED
    BY <2>1, <2>2
<1>15. AnswerIsTheDecision'
  <2> SUFFICES ASSUME ~overlapped, gaveUp = {}, connected, NEW t \in Traces,
                      verdict[t] # "none", decision'[t] # "none"
               PROVE  decision'[t] = DecisionOf(verdict[t])
    BY <1>1 DEF AnswerIsTheDecision
  <2>1. CASE t = asked[th]
    BY <1>2, <1>3, <1>7, <1>10, <1>12, <2>1 DEF TypeOK
  <2>2. CASE t # asked[th]
    BY <1>3, <2>2 DEF AnswerIsTheDecision, TypeOK
  <2> QED
    BY <2>1, <2>2
<1> QED
  BY <1>8, <1>9, <1>11, <1>13, <1>14, <1>15

\* A thread gives up: its trace is refused with an error, and remembered.
LEMMA TimeoutStep ==
  ASSUME PigaInv, NEW th \in Threads, Timeout(th)
  PROVE  PigaInv'
<1> USE DEF PigaInv
<1>1. /\ pc[th] = "wait" /\ pc'[th] = "idle"
      /\ \A x \in Threads \ {th} : pc'[x] = pc[x]
      /\ pc' \in [Threads -> {"idle", "write", "written", "wait"}]
      /\ gaveUp' = gaveUp \cup {asked[th]}
      /\ decision' = [decision EXCEPT ![asked[th]] = "Error"]
      /\ UNCHANGED <<enabled, traceId, connected, asked, waitId, sent, arrived, traces,
                     verdict, overlapped>>
  BY DEF Timeout, TypeOK
<1>2. enabled /\ traceId = traces /\ asked[th] \in 1..traces /\ asked[th] \in Traces
  BY <1>1 DEF Numbered, TypeOK
<1>3. TypeOK'
  <2>1. decision' \in [Traces -> Decisions \cup {"none"}]
    BY <1>1, <1>2 DEF TypeOK
  <2> QED
    BY <1>1, <1>2, <2>1 DEF TypeOK
<1>4. Numbered'
  BY <1>1, <1>2 DEF Numbered
<1>5. ASSUME ~overlapped' PROVE Turns' /\ InTransit'
  <2>1. Turns /\ InTransit
    BY <1>1, <1>5
  <2>2. Turns'
    BY <1>1, <2>1 DEF Turns
  <2>3. InTransit'
    BY <1>1, <1>2, <2>1, SocketTypes DEF InTransit, TypeOK
  <2> QED
    BY <2>2, <2>3
<1>6. gaveUp' # {}
  BY <1>1
<1>7. DecidedByPiga'
  BY <1>1, <1>2 DEF DecidedByPiga, TypeOK
<1>8. AnswerIsTheDecision'
  BY <1>6 DEF AnswerIsTheDecision
<1> QED
  BY <1>3, <1>4, <1>5, <1>6, <1>7, <1>8

\* PIGA replies: the verdict is new, and the thread that waits for it has no
\* decision yet.
LEMMA ReplyStep ==
  ASSUME PigaInv, NEW v \in Verdicts, Reply(v)
  PROVE  PigaInv'
<1> USE DEF PigaInv
<1> DEFINE m == sent[1]
           r == [id |-> m.id, verdict |-> v]
<1>1. /\ sent # <<>> /\ sent' = Tail(sent)
      /\ verdict' = [verdict EXCEPT ![m.trace] = v] /\ arrived' = Append(arrived, r)
      /\ UNCHANGED <<enabled, traceId, connected, pc, asked, waitId, traces, decision, gaveUp,
                     overlapped>>
  BY DEF Reply
<1>2. m \in Sent /\ m.id \in Ids /\ m.trace \in Traces /\ 1 \in DOMAIN sent
  BY <1>1, SocketTypes, EmptySeq
<1>3. r \in Replies /\ r.id = m.id /\ r.verdict = v
  BY <1>2 DEF Replies
<1> HIDE DEF m, r
<1>4. /\ sent' \in Seq(Sent) /\ Len(sent') = Len(sent) - 1
      /\ DOMAIN sent' = 1..Len(sent) - 1
      /\ \A k \in DOMAIN sent' : k + 1 \in DOMAIN sent /\ sent'[k] = sent[k + 1]
  <2>1. /\ Tail(sent) \in Seq(Sent) /\ Len(Tail(sent)) = Len(sent) - 1
        /\ \A k \in 1..Len(Tail(sent)) : Tail(sent)[k] = sent[k + 1]
    BY <1>1, SocketTypes, HeadTailProperties
  <2>2. DOMAIN Tail(sent) = 1..Len(sent) - 1
    BY <2>1, LenProperties
  <2> QED
    BY <1>1, <2>1, <2>2, SocketTypes
<1>5. /\ arrived' \in Seq(Replies) /\ Len(arrived') = Len(arrived) + 1
      /\ DOMAIN arrived' = 1..Len(arrived) + 1 /\ arrived'[Len(arrived) + 1] = r
      /\ \A k \in DOMAIN arrived : arrived'[k] = arrived[k]
  <2>1. arrived' \in Seq(Replies)
    BY <1>1, <1>3, SocketTypes, AppendProperties
  <2> QED
    BY <1>1, <1>3, <2>1, SocketTypes, AppendProperties, LenProperties
<1>6. enabled
  BY <1>1 DEF Numbered
<1>7. TypeOK'
  <2>1. verdict' \in [Traces -> Verdicts \cup {"none"}]
    BY <1>1, <1>2 DEF TypeOK
  <2> QED
    BY <1>1, <1>4, <1>5, <2>1 DEF TypeOK, Sent, Replies
<1>8. Numbered'
  BY <1>1, <1>6 DEF Numbered
<1>9. ASSUME ~overlapped
      PROVE  /\ Turns /\ InTransit
             /\ m.id = m.trace /\ m.trace <= traces /\ verdict[m.trace] = "none"
             /\ \A k \in DOMAIN sent : k # 1 => sent[k].trace # m.trace
  <2>1. Turns /\ InTransit
    BY <1>9
  <2> QED
    BY <1>2, <2>1 DEF InTransit, m
<1>10. ASSUME ~overlapped' PROVE Turns' /\ InTransit'
  <2>1. ~overlapped
    BY <1>1, <1>10
  <2>2. Turns'
    <3> SUFFICES ASSUME NEW th \in Threads, pc[th] = "write"
                 PROVE  verdict'[traces] = "none" /\ \A k \in DOMAIN sent' : sent'[k].trace # traces
      BY <1>1, <1>9, <2>1 DEF Turns
    <3>1. /\ verdict[traces] = "none" /\ \A k \in DOMAIN sent : sent[k].trace # traces
      BY <1>9, <2>1 DEF Turns
    <3>2. m.trace # traces
      BY <1>2, <3>1 DEF m
    <3> QED
      BY <1>1, <1>4, <3>1, <3>2 DEF TypeOK
  <2>3. /\ \A k \in DOMAIN sent' : /\ sent'[k].id = sent'[k].trace
                                   /\ sent'[k].trace <= traces
                                   /\ verdict'[sent'[k].trace] = "none"
        /\ \A j, k \in DOMAIN sent' : sent'[j].trace = sent'[k].trace => j = k
    <3> SUFFICES ASSUME NEW k \in DOMAIN sent'
                 PROVE  /\ sent'[k].id = sent'[k].trace
                        /\ sent'[k].trace <= traces
                        /\ verdict'[sent'[k].trace] = "none"
                        /\ \A j \in DOMAIN sent' : sent'[j].trace = sent'[k].trace => j = k
      OBVIOUS
    <3>1. /\ k + 1 \in DOMAIN sent /\ k + 1 # 1 /\ sent'[k] = sent[k + 1]
          /\ \A j \in DOMAIN sent' : j + 1 \in DOMAIN sent /\ sent'[j] = sent[j + 1]
      BY <1>4, SocketTypes
    <3>2. sent[k + 1].trace # m.trace /\ sent[k + 1].trace \in Traces
      BY <1>9, <2>1, <3>1, SocketTypes
    <3>3. verdict'[sent[k + 1].trace] = verdict[sent[k + 1].trace]
      BY <1>1, <3>2 DEF TypeOK
    <3>4. ASSUME NEW j \in DOMAIN sent', sent'[j].trace = sent'[k].trace PROVE j = k
      <4>1. j + 1 = k + 1
        BY <3>1, <3>4, <1>9, <2>1 DEF InTransit
      <4> QED
        BY <4>1, <1>4, SocketTypes
    <3> QED
      BY <3>1, <3>3, <3>4, <1>9, <2>1 DEF InTransit
  <2>4. \A k \in DOMAIN arrived' : /\ arrived'[k].id \in Traces
                                   /\ arrived'[k].verdict = verdict'[arrived'[k].id]
    <3> SUFFICES ASSUME NEW k \in DOMAIN arrived'
                 PROVE  /\ arrived'[k].id \in Traces
                        /\ arrived'[k].verdict = verdict'[arrived'[k].id]
      OBVIOUS
    <3>1. CASE k = Len(arrived) + 1
      BY <1>1, <1>2, <1>3, <1>5, <1>9, <2>1, <3>1 DEF TypeOK
    <3>2. CASE k # Len(arrived) + 1
      <4>1. k \in DOMAIN arrived /\ arrived'[k] = arrived[k]
        BY <1>5, <3>2, SocketTypes
      <4>2. arrived[k].id \in Traces /\ arrived[k].verdict = verdict[arrived[k].id]
            /\ arrived[k].verdict # "none"
        BY <1>9, <2>1, <4>1, SocketTypes DEF InTransit
      <4>3. arrived[k].id # m.trace
        BY <1>9, <2>1, <4>2
      <4> QED
        BY <1>1, <4>1, <4>2, <4>3 DEF TypeOK
    <3> QED
      BY <3>1, <3>2
  <2>5. \A t \in Traces : t > traces => verdict'[t] = "none" /\ decision[t] = "none"
    BY <1>1, <1>2, <1>9, <2>1, SocketTypes DEF InTransit, TypeOK
  <2> QED
    BY <1>1, <2>2, <2>3, <2>4, <2>5 DEF InTransit
<1>11. ASSUME ~overlapped, gaveUp = {}, connected
       PROVE  /\ Len(sent) = 1 /\ arrived = <<>> /\ m.trace = traces
              /\ \E th \in Threads : pc[th] \in {"written", "wait"}
  <2>1. OneInTransit
    BY <1>11
  <2>2. \E th \in Threads : pc[th] \in {"written", "wait"}
    BY <1>1, <2>1 DEF OneInTransit, TypeOK
  <2> QED
    BY <1>1, <2>1, <2>2 DEF OneInTransit, m
<1>12. ASSUME ~overlapped', gaveUp' = {}, connected' PROVE OneInTransit'
  <2>1. /\ ~overlapped /\ gaveUp = {} /\ connected
        /\ Len(sent) = 1 /\ arrived = <<>> /\ m.trace = traces /\ m.id = traces
        /\ \E th \in Threads : pc[th] \in {"written", "wait"}
    BY <1>1, <1>9, <1>11, <1>12
  <2>2. sent' = <<>>
    BY <1>4, <2>1, EmptySeq
  <2>3. Len(arrived') = 1 /\ arrived'[1].id = traces
    BY <1>3, <1>5, <2>1, EmptySeq
  <2> QED
    BY <1>1, <2>1, <2>2, <2>3 DEF OneInTransit
<1>13. DecidedByPiga'
  BY <1>1, <1>2, <1>9 DEF DecidedByPiga, TypeOK
<1>14. AnswerIsTheDecision'
  <2> SUFFICES ASSUME ~overlapped, gaveUp = {}, connected, NEW t \in Traces,
                      verdict'[t] # "none", decision[t] # "none"
               PROVE  decision[t] = DecisionOf(verdict'[t])
    BY <1>1 DEF AnswerIsTheDecision
  <2>1. decision[m.trace] = "none"
    BY <1>9, <1>11 DEF Turns
  <2>2. verdict'[t] = verdict[t]
    BY <1>1, <2>1 DEF TypeOK
  <2> QED
    BY <2>2 DEF AnswerIsTheDecision
<1> QED
  BY <1>7, <1>8, <1>10, <1>12, <1>13, <1>14

\* PIGA closes the socket: what was on its way to it is lost.
LEMMA DisconnectStep ==
  ASSUME PigaInv, Disconnect
  PROVE  PigaInv'
<1> USE DEF PigaInv
<1>1. /\ connected' = FALSE /\ sent' = <<>>
      /\ UNCHANGED <<enabled, traceId, pc, asked, waitId, arrived, traces, verdict, decision,
                     gaveUp, overlapped>>
  BY DEF Disconnect
<1>2. TypeOK'
  <2>1. sent' \in Seq(Sent)
    BY <1>1, EmptySeq
  <2> QED
    BY <1>1, <2>1 DEF TypeOK, Sent
<1>3. Numbered' /\ DecidedByPiga' /\ AnswerIsTheDecision'
  BY <1>1 DEF Numbered, DecidedByPiga, AnswerIsTheDecision
<1>4. ASSUME ~overlapped' PROVE Turns' /\ InTransit'
  BY <1>1, <1>4 DEF Turns, InTransit
<1> QED
  BY <1>1, <1>2, <1>3, <1>4

\* A step that changes nothing.
LEMMA StutterStep ==
  ASSUME PigaInv, UNCHANGED vars
  PROVE  PigaInv'
BY DEF vars, PigaInv, TypeOK, Numbered, Turns, InTransit, OneInTransit, DecidedByPiga,
   AnswerIsTheDecision

\* PigaInv is an invariant of the handler, PIGA and the socket between them,
\* whatever the number of threads and traces.
THEOREM PigaInvariance == Spec => []PigaInv
<1>1. ASSUME PigaInv, [Next]_vars
      PROVE  PigaInv'
  <2>1. ASSUME NEW th \in Threads, ThreadStep(th) PROVE PigaInv'
    BY <1>1, <2>1, SendTraceStep, WriteStep, StartWaitStep, ReadReplyStep, TimeoutStep
       DEF ThreadStep
  <2>2. ASSUME NEW v \in Verdicts, Reply(v) PROVE PigaInv'
    BY <1>1, <2>2, ReplyStep
  <2>3. CASE Disconnect
    BY <1>1, <2>3, DisconnectStep
  <2>4. CASE UNCHANGED vars
    BY <1>1, <2>4, StutterStep
  <2> QED
    BY <1>1, <2>1, <2>2, <2>3, <2>4 DEF Next
<1> QED
  BY InitPigaInv, <1>1, PTL DEF Spec

\* Every variable of the handler keeps its type; the static traceId never runs
\* ahead of the traces that were asked for.
THEOREM PigaTypes == Spec => []TypeOK
<1>1. PigaInv => TypeOK
  BY DEF PigaInv
<1> QED
  BY PigaInvariance, <1>1, PTL

\* onAcceptHooks lets a transition through, or has the client killed, only if
\* PIGA said so of that transition, as long as the two threads do not ask at the
\* same time: late replies, timeouts and a closed socket notwithstanding.
THEOREM PigaDecides == Spec => []DecidedByPiga
<1>1. PigaInv => DecidedByPiga
  BY DEF PigaInv
<1> QED
  BY PigaInvariance, <1>1, PTL

\* Up to the first timeout, while the socket is open and the threads take turns,
\* what sendTrace returns is what PIGA answered.
THEOREM PigaAnswers == Spec => []AnswerIsTheDecision
<1>1. PigaInv => AnswerIsTheDecision
  BY DEF PigaInv
<1> QED
  BY PigaInvariance, <1>1, PTL
=============================================================================
