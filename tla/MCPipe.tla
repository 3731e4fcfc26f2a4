------------------------------- MODULE MCPipe -------------------------------
(* Module Pipe with the byte sequences that writers write.                 *)
EXTENDS Pipe

\* Two different bytes tell a lost, a doubled and a swapped byte apart.
MCPayloads == {<<0, 1>>}

\* What the wait slots and the counts of ends see of a write is its length.
MCUnary == {<<0>>, <<0, 0>>}
=============================================================================
