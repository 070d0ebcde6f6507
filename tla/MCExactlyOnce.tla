---------------------------- MODULE MCExactlyOnce ----------------------------
(* Small instances of ExactlyOnce for TLC.                                 *)
EXTENDS ExactlyOnce, TLC

CONSTANTS MaxSeqNo, MaxAttemptNo

MCSeqNo == 0 .. MaxSeqNo
MCAttemptNo == 0 .. MaxAttemptNo
=============================================================================
