---------------------------- MODULE MCAckSession ----------------------------
(* Small instances of AckSession for TLC.                                    *)
EXTENDS AckSession, TLC

MCDigests == Resources \X Payloads
MCClients == 1..MaxConnections
=============================================================================
