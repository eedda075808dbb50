------------------------------- MODULE Events -------------------------------
(***************************************************************************)
(* Outbox events, internal/event and internal/spool/spool.go.  An event is *)
(* known by its identity, the pair (source, id), and by the SHA-256 digest *)
(* of its payload, which stands for the payload itself.                    *)
(***************************************************************************)
CONSTANTS Identities, Digests
=============================================================================
