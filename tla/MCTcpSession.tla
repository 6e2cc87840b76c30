---------------------------- MODULE MCTcpSession ----------------------------
(* Small instances of TcpSession for TLC: bytes are bits, the header has   *)
(* four of them, and the longest frame has seven.                          *)
EXTENDS TcpSession, SequencesExt

NotEmpty(payload) == payload # <<>>

\* Every stream of at most twelve bits: up to three frames.
AllStreams == SeqOf(0..1, 12)
=============================================================================
