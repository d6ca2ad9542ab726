---------------------------- MODULE MCChannelEnds ----------------------------
(* Constants of ChannelEnds for TLC. *)
EXTENDS ChannelEnds

Budgets == [text |-> 2, binary |-> 1]

Asks(bytes) == [kind |-> "text", ack |-> TRUE, bytes |-> bytes]
Binary == [kind |-> "binary", ack |-> FALSE, bytes |-> 0]

\* An ack request of the page, and an onClose of the server that waits; an onClose of the
\* page that waits; messages of the server of both kinds; more ack requests than may be
\* pending, or, once the first is answered, more bytes than the text queue holds.
FourUses ==
    {[slow |-> {"server"}, asks |-> <<TRUE>>, sends |-> <<>>],
     [slow |-> {"page"}, asks |-> <<>>, sends |-> <<Binary>>],
     [slow |-> {}, asks |-> <<>>, sends |-> <<Binary, Asks(1)>>],
     [slow |-> {}, asks |-> <<>>, sends |-> <<Asks(1), Asks(2)>>]}
==============================================================================
