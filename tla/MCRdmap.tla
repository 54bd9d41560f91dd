------------------------------- MODULE MCRdmap -------------------------------
(* Instances of Rdmap for TLC.                                             *)
EXTENDS Rdmap, TLC

CONSTANTS r1, r2  \* two regions

Req(n, op, l, r) == [by |-> n, op |-> op, lbuf |-> l, rbuf |-> r, nsge |-> 1]
Stags == r1 :> 4096 @@ r2 :> 8192
ServerRecv == {[by |-> "server", bufs |-> <<r1>>]}
None == {}
SinkAndSource == {<<"client", r1>>, <<"server", r2>>}

\* Reads, writes and sends of the client interleave.
MixedRequests == {Req("client", "READ_REQ", r1, r2), Req("client", "WRITE", r1, r2),
                  Req("client", "SEND", r1, r1)}

\* ... with a read that rnic_send refuses.
SafetyRequests == MixedRequests \cup {[Req("client", "READ_REQ", r1, r2) EXCEPT !.nsge = 2]}
ServerSource == {<<"server", r2>>}

\* Sends with invalidate, to a server one of whose regions has an address
\* that ends in 0x44, the control byte of such a send.
InvalRequests == {Req("client", "SEND_INVAL", r1, r2)}
EndStags == r1 :> 4096 @@ r2 :> 68

\* Reads of two regions.
ReadRequests == {Req("client", "READ_REQ", r1, r) : r \in {r1, r2}}
ReadRegions == {<<"client", r1>>, <<"server", r1>>, <<"server", r2>>}
\* ... with sends.
LiveRequests == {Req("client", "SEND_SE", r1, r1)} \cup InvalRequests \cup ReadRequests
SendRequests == {Req("client", "SEND", r1, r1)}
=============================================================================
