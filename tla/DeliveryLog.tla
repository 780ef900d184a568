---------------------------- MODULE DeliveryLog ----------------------------
(***************************************************************************)
(* What the JSONL export of the outbox promises to whoever reads the file: *)
(* a log to which fresh delivery ids are appended, and a delivered prefix  *)
(* of it that only grows.  Every record is delivered once and in order,    *)
(* whatever crashes happen between an append and its commit, for as long   *)
(* as nobody cuts a record out of the file.                                *)
(***************************************************************************)
EXTENDS Naturals, Sequences, Functions

CONSTANT DeliveryIds

VARIABLES log, delivered, intact

LogInit == log = <<>> /\ delivered = <<>> /\ intact = TRUE

\* Several rows may be recorded by one transaction.
Record ==
    /\ \E n \in 1..Len(log') :
        /\ SubSeq(log', 1, n - 1) = log
        /\ \A k \in n..Len(log') :
            log'[k] \in DeliveryIds \ {log'[j] : j \in 1..k - 1}
    /\ UNCHANGED <<delivered, intact>>

Deliver ==
    /\ \E n \in Len(delivered) + 1..Len(log) : delivered' = SubSeq(log, 1, n)
    /\ UNCHANGED <<log, intact>>

\* A record is cut out from outside; from then on the file may show anything.
Tampered == intact' = FALSE /\ UNCHANGED log

LogSpec == LogInit /\ [][Record \/ Deliver \/ Tampered]_<<log, delivered, intact>>
=============================================================================
