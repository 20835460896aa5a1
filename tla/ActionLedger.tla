----------------------------- MODULE ActionLedger -----------------------------
(***************************************************************************)
(* What the agent promises about the actions a model proposes              *)
(* (docs/adr/0014: at most one transmission, no retry of an ambiguous      *)
(* call): an action is authorized once, sent at most once, ends with       *)
(* evidence or is lost, and once one was lost no other is authorized.  An  *)
(* authorization that cannot be recorded loses its action at once.         *)
(***************************************************************************)
CONSTANT Actions

VARIABLE standing

Standings == {"new", "authorized", "sent", "proved", "lost"}

InFlight == {a \in Actions : standing[a] \in {"authorized", "sent"}}
Lost == {a \in Actions : standing[a] = "lost"}

LedgerInit == standing = [a \in Actions |-> "new"]

Move(a, from, to) ==
    /\ standing[a] \in from
    /\ standing' = [standing EXCEPT ![a] = to]

Authorized(a) == InFlight = {} /\ Lost = {} /\ Move(a, {"new"}, "authorized")
Unrecorded(a) == InFlight = {} /\ Lost = {} /\ Move(a, {"new"}, "lost")
Sent(a) == Move(a, {"authorized"}, "sent")
Proved(a) == Move(a, {"sent"}, "proved")
Abandoned(a) == Move(a, {"authorized", "sent"}, "lost")

LedgerNext ==
    \E a \in Actions :
        Authorized(a) \/ Unrecorded(a) \/ Sent(a) \/ Proved(a) \/ Abandoned(a)

LedgerSpec == LedgerInit /\ [][LedgerNext]_standing
=============================================================================
