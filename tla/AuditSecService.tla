-------------------------- MODULE AuditSecService --------------------------
(***************************************************************************)
(* What AuditSec promises to the programs it monitors, with no semaphore,  *)
(* no shared structure and no daemon: calls are decided one at a time, a   *)
(* call that returns a verdict returns the one that was made about it, and *)
(* every other call fails.  The promise is void once some call has given   *)
(* up waiting for its verdict: from then on a call may be given any.       *)
(***************************************************************************)
CONSTANTS Calls, NoCall

VARIABLES
  open,      \* the call being decided, or NoCall
  verdict,   \* what was decided about each call
  result,    \* what each call returned
  degraded   \* some call has given up waiting

avars == <<open, verdict, result, degraded>>

Verdict == {"allow", "deny"}

ReturnOf(v) == IF v = "allow" THEN "0" ELSE "EACCES"

AInit ==
  /\ open = NoCall
  /\ verdict = [c \in Calls |-> "none"]
  /\ result = [c \in Calls |-> "none"]
  /\ degraded = FALSE

\* A program that is not monitored is not stopped.
Exempt(c) ==
  /\ result[c] = "none"
  /\ c # open
  /\ verdict' = [verdict EXCEPT ![c] = "exempt"]
  /\ result' = [result EXCEPT ![c] = "0"]
  /\ UNCHANGED <<open, degraded>>

\* A call that cannot be submitted fails.
Fail(c) ==
  /\ result[c] = "none"
  /\ c # open
  /\ \E e \in {"EFAULT", "ENOMEM"} : result' = [result EXCEPT ![c] = e]
  /\ UNCHANGED <<open, verdict, degraded>>

Submit(c) ==
  /\ open = NoCall
  /\ result[c] = "none"
  /\ open' = c
  /\ UNCHANGED <<verdict, result, degraded>>

\* The open call is decided once; a degraded service decides anything.
Settle(c) ==
  /\ degraded \/ (c = open /\ verdict[c] = "none")
  /\ \E v \in Verdict : verdict' = [verdict EXCEPT ![c] = v]
  /\ UNCHANGED <<open, result, degraded>>

Deliver(c) ==
  /\ c = open
  /\ \E v \in Verdict :
       /\ degraded \/ verdict[c] = v
       /\ result' = [result EXCEPT ![c] = ReturnOf(v)]
  /\ open' = NoCall
  /\ UNCHANGED <<verdict, degraded>>

\* The open call stops waiting, and then fails.
GiveUp(c) ==
  /\ c = open
  /\ degraded' = TRUE
  /\ UNCHANGED <<open, verdict, result>>

Abandon(c) ==
  /\ c = open
  /\ degraded
  /\ result' = [result EXCEPT ![c] = "EFAULT"]
  /\ open' = NoCall
  /\ UNCHANGED <<verdict, degraded>>

ANext ==
  \E c \in Calls : \/ Exempt(c) \/ Fail(c) \/ Submit(c) \/ Settle(c)
                   \/ Deliver(c) \/ GiveUp(c) \/ Abandon(c)

ASpec == AInit /\ [][ANext]_avars
=============================================================================
