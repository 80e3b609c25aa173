----------------------------- MODULE MCAuditSec -----------------------------
EXTENDS AuditSec, TLC

CONSTANTS c1, c2, p1

OneProg == [c \in Calls |-> p1]
MixedHooks == [c \in Calls |-> IF c = c1 THEN "socket_bind" ELSE "file_permission"]
=============================================================================
