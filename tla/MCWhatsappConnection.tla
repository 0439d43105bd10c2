-------------------------- MODULE MCWhatsappConnection --------------------------
(* WhatsappConnection with an old and a new socket.  Liveness is checked, so the *)
(* sockets, which are compared for equality only, are not declared symmetric.    *)
EXTENDS WhatsappConnection

=============================================================================
