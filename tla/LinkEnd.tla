------------------------------ MODULE LinkEnd -------------------------------
(***************************************************************************)
(* A port of LacpPort and its link: the peer's LACPDUs arrive in inbox, or *)
(* are lost there, and what a handler sends goes to outbox.  The port is   *)
(* the only one of its LAG, whose super port exists all the time.          *)
(***************************************************************************)
EXTENDS LacpPort

CONSTANTS
    MyPort,            \* the port's own id
    Peer, PeerPort     \* the identity of the other end

VARIABLES
    inbox,     \* LACPDUs under way to this port
    outbox     \* LACPDUs under way to its peer

\* A LACPDU of the peer as this port reads it.
Seen(pdu) ==
    [system |-> Peer, port |-> PeerPort, aggregation |-> TRUE,
     activity |-> pdu.activity, timeout |-> pdu.timeout,
     sync |-> pdu.sync, collecting |-> pdu.collecting,
     knowsUs |-> <<pdu.partner, pdu.partnerPort, pdu.partnerAggregation>>
                    = <<port.actor, MyPort, TRUE>>,
     viewActivity |-> pdu.partnerActivity, viewTimeout |-> pdu.partnerTimeout,
     viewSync |-> pdu.partnerSync]

Sends == outbox' = outbox \o port'.out

Idles == UNCHANGED <<port, outbox>>

\* A port that knows its partner finds the super port: either it already has this
\* partner, or it was cleared when the port, its only user, left the last LAG.
Hear ==
    /\ inbox # <<>> /\ inbox' = Tail(inbox)
    /\ \/ /\ \E answer \in PlainOffers :
                answer.agg # NoSport /\ LACP_process_lacpdu(Seen(Head(inbox)), answer)
          /\ Sends
       \/ ~port.lacp_up /\ Idles

\* The link loses the LACPDU.
Miss == inbox # <<>> /\ inbox' = Tail(inbox) /\ Idles

\* No other port of the LAG has to be ready.
Second ==
    /\ \/ (\E answer \in Offers : Tick(TRUE, answer)) /\ Sends
       \/ ~port.lacp_up /\ Idles
    /\ UNCHANGED inbox

\* A command or a link event, once what the last one sent has arrived or is lost.
Command ==
    /\ outbox = <<>>
    /\ \/ \E c \in Configs : InitializePort(c, port.lag # NoLag)
       \/ DisablePort(port.lag # NoLag)
       \/ ~port.port_enabled /\ \E t \in PortTypes : mlacpVapiLinkUp(t)
       \/ port.port_enabled /\ \E answer \in PlainOffers : mlacpVapiLinkDown(answer)
    /\ Sends
    /\ UNCHANGED inbox
=============================================================================
