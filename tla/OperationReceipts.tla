-------------------------- MODULE OperationReceipts --------------------------
(***************************************************************************)
(* What a client of the daemon's operations may rely on, whatever the      *)
(* daemon, its disk and its restarts do: the receipt of an id is accepted, *)
(* then has one outcome, which stays; the work behind it is begun at most  *)
(* once, and only between the two.  A receipt may be forgotten once it has *)
(* an outcome.                                                             *)
(***************************************************************************)
EXTENDS Naturals

CONSTANTS Ops, Outcomes

VARIABLES phase,    \* "none", "accepted" or the outcome of each id
          begun,    \* how often the work of an id was begun
          known,    \* ids whose outcome the daemon has, on disk or not yet
          expired   \* ids whose outcome is older than the retention period

vars == <<phase, begun, known, expired>>

Init == /\ phase = [o \in Ops |-> "none"] /\ begun = [o \in Ops |-> 0]
        /\ known = {} /\ expired = {}

Idle(o) == phase'[o] = phase[o] /\ begun'[o] = begun[o]
Accept(o) == phase[o] = "none" /\ phase'[o] = "accepted" /\ begun'[o] = begun[o]
Begin(o) == /\ phase[o] = "accepted" /\ phase'[o] = "accepted"
            /\ begun[o] = 0 /\ begun'[o] = 1
Settle(o) == phase[o] = "accepted" /\ phase'[o] \in Outcomes /\ begun'[o] = begun[o]

\* An expired id may be used again, at once or later.
Forget(o) == o \in expired /\ phase'[o] \in {"none", "accepted"} /\ begun'[o] = 0

\* Several receipts may move together: a batch and its members do.
Next == /\ phase' \in [Ops -> {"none", "accepted"} \cup Outcomes]
        /\ begun' \in [Ops -> {0, 1}]
        /\ \A o \in Ops : Idle(o) \/ Accept(o) \/ Begin(o) \/ Settle(o) \/ Forget(o)
        /\ \A o \in known' : phase'[o] # "none"
        /\ expired' \subseteq expired \cup known

Spec == Init /\ [][Next]_vars

=============================================================================
