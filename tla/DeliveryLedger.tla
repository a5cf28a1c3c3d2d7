--------------------------- MODULE DeliveryLedger ---------------------------
(***************************************************************************)
(* What OfflineSyncAggregate promises about local changes: a change is     *)
(* recorded locally before the remote sees it, it is settled only after    *)
(* the remote answered it, and what is settled stays settled.  Delivery is *)
(* at least once: Deliver may happen again without showing here.           *)
(***************************************************************************)
CONSTANT Changes

VARIABLES recorded, delivered, settled

ledger == <<recorded, delivered, settled>>

Init == recorded = {} /\ delivered = {} /\ settled = {}

RecordLocally(c) ==
    /\ c \in Changes \ recorded
    /\ recorded' = recorded \cup {c}
    /\ UNCHANGED <<delivered, settled>>

Deliver(c) ==
    /\ c \in recorded \ delivered
    /\ delivered' = delivered \cup {c}
    /\ UNCHANGED <<recorded, settled>>

Settle(c) ==
    /\ c \in delivered \ settled
    /\ settled' = settled \cup {c}
    /\ UNCHANGED <<recorded, delivered>>

Next == \E c \in Changes : RecordLocally(c) \/ Deliver(c) \/ Settle(c)

Spec == Init /\ [][Next]_ledger
=============================================================================
