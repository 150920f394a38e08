---------------------------- MODULE CommandOutcome ----------------------------
(***************************************************************************)
(* What the REPL service promises about a command sent to the master: the  *)
(* command has its effect at most once, and the verdict the caller is      *)
(* given never lies about it. An ACK is a command that had its effect; a   *)
(* refused command or one that was not sent has none and never will; only  *)
(* an unknown outcome leaves both possible, then and later.                *)
(***************************************************************************)
CONSTANT Request

VARIABLES
    effective,  \* the commands that had their effect
    verdict     \* what each caller was told

vars == <<effective, verdict>>

Verdict == {"pending", "ack", "nack", "not_sent", "unknown"}

Init ==
    /\ effective = {}
    /\ verdict = [r \in Request |-> "pending"]

TakesEffect(r) ==
    /\ r \notin effective
    /\ verdict[r] \in {"pending", "unknown"}
    /\ effective' = effective \cup {r}
    /\ UNCHANGED verdict

Answer(r, v) ==
    /\ verdict[r] = "pending"
    /\ v = "ack" => r \in effective
    /\ v \in {"nack", "not_sent"} => r \notin effective
    /\ verdict' = [verdict EXCEPT ![r] = v]
    /\ UNCHANGED effective

Next ==
    \E r \in Request :
        TakesEffect(r) \/ \E v \in Verdict \ {"pending"} : Answer(r, v)

Spec == Init /\ [][Next]_vars

=============================================================================
