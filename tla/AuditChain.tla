----------------------------- MODULE AuditChain -----------------------------
(***************************************************************************)
(* The hash chain of governance/audit.py, independent of where it is       *)
(* stored.  A hash is the term of what it hashes: sha256 over the previous *)
(* hash and the canonical bytes of the event is taken to be collision      *)
(* free, and an event is an opaque value (canonical_event_bytes tells      *)
(* events apart exactly when a field differs).                             *)
(***************************************************************************)
EXTENDS Integers, Sequences

CONSTANT Genesis      \* GENESIS_HASH

compute_event_hash(prev, event) == <<prev, event>>

(* Fault: the new record points past the tail, to the record before it. *)
linkPastTail(records, event) ==
    LET prev == IF records = <<>> THEN Genesis ELSE records[Len(records)].prev_hash
    IN  [seq        |-> IF records = <<>> THEN 0 ELSE records[Len(records)].seq + 1,
         event      |-> event,
         prev_hash  |-> prev,
         event_hash |-> compute_event_hash(prev, event)]

(* AuditLog.link: the record that follows the last one of a chain. *)
link(records, event) ==
    LET prev == IF records = <<>> THEN Genesis ELSE records[Len(records)].event_hash
    IN  [seq        |-> IF records = <<>> THEN 0 ELSE records[Len(records)].seq + 1,
         event      |-> event,
         prev_hash  |-> prev,
         event_hash |-> compute_event_hash(prev, event)]

(* Fault: the stored hash is trusted instead of computed again. *)
LinkOKTrusting(records, i) ==
    /\ records[i].seq = i - 1
    /\ records[i].prev_hash = IF i = 1 THEN Genesis ELSE records[i - 1].event_hash

(* verify_chain: contiguous positions, each record linked to the one       *)
(* before it, each hash the hash of its own content.                       *)
LinkOK(records, i) ==
    /\ records[i].seq = i - 1
    /\ records[i].prev_hash = IF i = 1 THEN Genesis ELSE records[i - 1].event_hash
    /\ records[i].event_hash = compute_event_hash(records[i].prev_hash, records[i].event)

verify_chain(records) == \A i \in 1..Len(records) : LinkOK(records, i)
=============================================================================
