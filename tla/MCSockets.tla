----------------------------- MODULE MCSockets ------------------------------
(* Sockets for TLC: buffers shorter than the messages and as long.          *)
EXTENDS Sockets

MCBuffers == {1, 2}
=============================================================================
