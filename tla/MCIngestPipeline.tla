-------------------------- MODULE MCIngestPipeline --------------------------
(* One datagram and an arena of three packets are enough.                    *)
EXTENDS IngestPipeline
=============================================================================
