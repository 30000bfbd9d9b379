------------------------- MODULE MCPostgresAuditLog -------------------------
(* Four writers in two processes; three of them share a pool too small for *)
(* all.                                                                    *)
EXTENDS PostgresAuditLog

CONSTANTS v, x, y, z,         \* writers
          p, q,             \* processes
          e1, e2, e3        \* events

MCProcessOf == [w \in Writers |-> IF w = z THEN q ELSE p]
=============================================================================
