--------------------------- MODULE MCWebSocketHub ---------------------------
(* Instance of WebSocketHub for TLC.                                       *)
EXTENDS WebSocketHub

CONSTANTS Busy, BusyRequests, OtherRequests

\* One tab sends what it likes, the others little.
MCRequests == [c \in Client |-> IF c = Busy THEN BusyRequests ELSE OtherRequests]
=============================================================================
