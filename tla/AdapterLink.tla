------------------------------ MODULE AdapterLink -------------------------------
(***************************************************************************)
(* What a WhatsappAdapter is doing, as its owner can tell it, and the ways *)
(* it can change: ChannelLifecycle moves its adapters by these rules, and  *)
(* WhatsappConnection, which has the whole protocol, is shown to keep them.*)
(*                                                                         *)
(* The adapter unhooks and ends only the socket of its own dial, which it  *)
(* holds; a socket that AuthSystem's reconnect dials is never handed to it *)
(* and keeps its handler, so a disconnect() that ends such a socket is     *)
(* answered by another reconnect.                                          *)
(***************************************************************************)

Link == {"built",       \* connect() has not been called
         "loading",     \* connect() awaits the listener module
         "dialing",     \* connect() awaits AuthSystem's dial
         "held",        \* the socket of that dial exists, the adapter holds it
         "redialing",   \* a reconnect is pending, suspended, or about to be scheduled
         "redialed",    \* the socket of a reconnect exists; the adapter does not hold it
         "over"}        \* nothing is left that could come back

\* How far the adapter's connect() is, and what it is doing by then.
Loads == {<<"dialing", "dialing">>, <<"unloaded", "over">>}

\* Mutant: the adapter does not look whether it was stopped while it dialled.
DialReturnsMutant(told) == {<<"attaching", "held">>, <<"failed", "over">>}

\* A dial interrupted by disconnect() ends its socket, whose handler is attached.
DialReturns(told) ==
    IF told THEN {<<"returned", "redialing">>, <<"returned", "over">>}
    ELSE {<<"attaching", "held">>, <<"failed", "over">>}

\* A close is retried, unless it is final, nobody listens or the retries ran out; a
\* reconnect dials, or fails for good.
OwnMoves(link, told) ==
    CASE link = "held"      -> IF told THEN {"over"} ELSE {"redialing", "over"}
      [] link = "redialing" -> {"redialed", "over"}
      [] link = "redialed"  -> {"redialing", "over"}
      [] OTHER              -> {}

\* The second half of disconnect() clears a pending reconnect timer and ends the
\* socket; it stops neither a suspended dial nor the answer to a close.
StopMoves(link) ==
    CASE link = "held" -> {"over"}
      [] link \in {"redialing", "redialed"} -> {"redialing", "over"}
      [] OTHER -> {link}

=============================================================================
