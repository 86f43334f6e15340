----------------------------- MODULE MCTcpReceive -----------------------------
(* Packets of one, two and three bytes; with bits for bytes the length of   *)
(* the longest needs two bytes of the header.                               *)
EXTENDS TcpReceive

MCPayloads == {<<1>>, <<0, 1>>, <<1, 1, 0>>}
=============================================================================
