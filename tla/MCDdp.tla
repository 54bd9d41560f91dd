-------------------------------- MODULE MCDdp --------------------------------
(* Instances of Ddp for TLC.                                               *)
EXTENDS Ddp

Tagged(to, sges) == [tagged |-> TRUE, to |-> to, sges |-> sges]
Untagged1(sges) == [tagged |-> FALSE, to |-> 0, sges |-> sges]

Sink == [data |-> 3, len |-> 6]
TwoBufs == <<20, 25>>

\* Overlapping tagged messages of one to three segments, from one and from two
\* sges, and untagged ones of a single segment.
MixedMessages == {Tagged(3, <<5>>), Tagged(4, <<1, 3>>), Tagged(6, <<2>>), Untagged1(<<2>>)}
LongMessages == {Untagged1(<<5>>)}
=============================================================================
