------------------------------ MODULE CallLedger ------------------------------
(***************************************************************************)
(* What the tool scheduler promises its callers, with neither threads nor  *)
(* queues: at most MaxPending unfinished calls, no two of them under one   *)
(* key; a call is refused once and for all or admitted; an admitted call   *)
(* is answered exactly once unless it was cancelled first, and then it is  *)
(* never answered.                                                         *)
(***************************************************************************)
EXTENDS Naturals, FiniteSets

CONSTANTS Calls, Keys, KeyOf, MaxPending

VARIABLES
    open,    \* admission has not been closed
    ledger   \* where every call stands

ledgerVars == <<open, ledger>>

Standings == {"new", "pending", "doomed", "answered", "suppressed", "refused"}

LedgerTypeOK == open \in BOOLEAN /\ ledger \in [Calls -> Standings]

Unfinished == {c \in Calls : ledger[c] \in {"pending", "doomed"}}
BusyKeys == {KeyOf[c] : c \in Unfinished}
Room == Cardinality(BusyKeys) < MaxPending

LedgerInit == open = TRUE /\ ledger = [c \in Calls |-> "new"]

Move(c, to) == ledger' = [ledger EXCEPT ![c] = to]

Admitted(c) ==
    /\ open /\ ledger[c] = "new"
    /\ KeyOf[c] \notin BusyKeys
    /\ Room
    /\ Move(c, "pending")
    /\ UNCHANGED open

Refused(c) ==
    /\ ledger[c] = "new"
    /\ ~open \/ KeyOf[c] \in BusyKeys \/ ~Room
    /\ Move(c, "refused")
    /\ UNCHANGED open

\* No memory to run an admitted call: submit() says so, nothing else does.
Abandoned(c) ==
    /\ ledger[c] \in {"pending", "doomed"}
    /\ Move(c, "refused")
    /\ UNCHANGED open

Doomed(c) ==
    /\ ledger[c] = "pending"
    /\ Move(c, "doomed")
    /\ UNCHANGED open

Closed == open' = FALSE /\ UNCHANGED ledger

\* The transport failed: nobody is left to be answered.
Stopped ==
    /\ open' = FALSE
    /\ ledger' = [c \in Calls |->
                     IF ledger[c] = "pending" THEN "doomed" ELSE ledger[c]]

Resolved(c) ==
    /\ \/ ledger[c] = "pending" /\ Move(c, "answered")
       \/ ledger[c] = "doomed" /\ Move(c, "suppressed")
    /\ UNCHANGED open

LedgerNext ==
    \/ \E c \in Calls : Admitted(c) \/ Refused(c) \/ Abandoned(c) \/ Doomed(c)
                                    \/ Resolved(c)
    \/ Closed
    \/ Stopped

LedgerSpec == LedgerInit /\ [][LedgerNext]_ledgerVars

\* Every admitted call leaves the ledger of unfinished work.
LedgerFairSpec ==
    LedgerSpec /\ \A c \in Calls :
                      WF_ledgerVars(Abandoned(c) \/ Resolved(c))
=============================================================================
