------------------------- MODULE MCAeadTcpDuplex -------------------------
(* Model-checking instance of AeadTcpDuplex.                               *)
EXTENDS AeadTcpDuplex
=============================================================================
