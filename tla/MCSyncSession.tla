--------------------------- MODULE MCSyncSession ---------------------------
(* Instances of SyncSession for TLC.                                       *)
EXTENDS SyncSession, TLC

AllEnds == {{"client"}, {"server"}, {"client", "server"}}
BothEnds == {{"client", "server"}}
ServerEnd == {{"server"}}

\* Pulls from any offset, without a limit, with one and with limit 0.
Pulls == {Request(o, limit) : o \in 0..2, limit \in {0, 1, NoLimit}}

\* Pulls, and one frame of every other kind; the pushed batch holds two changes,
\* named above every offset.
AnyToServer ==
  Pulls \cup {Response(7, TRUE, <<101, 102>>), Ack(0), Ping, Pong,
              EndMarker, Oversized, Garbled, Fin}

AnyToClient ==
  {Response(1, TRUE, <<>>), Response(2, FALSE, <<0, 1>>), Ack(0), Ping, Pong,
   Request(0, NoLimit), EndMarker, Oversized, Garbled, Fin}
=============================================================================
