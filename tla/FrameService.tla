---------------------------- MODULE FrameService -----------------------------
(***************************************************************************)
(* What cs_tx.c promises the threads that queue frames for a gateway,      *)
(* whatever its queues and its send thread do meanwhile.  CSTx is shown to *)
(* implement this state machine.                                           *)
(*                                                                         *)
(* A frame that was accepted is pending until it leaves in a datagram or   *)
(* is lost.  It is lost only in a crowd of pending frames of its priority. *)
(* A datagram carries at most one frame per id, High frames first, and of  *)
(* each id and priority the first in line.  Frames stand in line in the    *)
(* order of their acceptance, but two of them may change places whenever   *)
(* one has to wait and a third frame of their id is pending.               *)
(***************************************************************************)
EXTENDS Naturals, Sequences, FiniteSets

CONSTANTS
    Frame,      \* records with an id, a priority and the number of acceptance
    QueueMax,   \* a caller's frame displaces none while fewer are pending
    SkipMax,    \* putting a frame aside displaces none up to this many
    PackMax     \* frames in a datagram

VARIABLES
    made,       \* number of frames accepted so far
    pending,    \* the accepted frames that are neither sent nor lost
    sent,       \* the frames sent, in order
    lost,       \* the frames that were displaced
    turned      \* the pairs of frames that have changed places in the line

svars == <<made, pending, sent, lost, turned>>

-----------------------------------------------------------------------------
SInit == made = 0 /\ pending = {} /\ sent = <<>> /\ lost = {} /\ turned = {}

Crowd(p) == {f \in pending : f.prio = p}

(* None, or one of a crowd of at least `limit' frames.                     *)
Victims(p, limit) ==
    {{}} \cup {{v} : v \in {f \in Crowd(p) : Cardinality(Crowd(p)) >= limit}}

(* A caller's frame is accepted.                                           *)
Accept(frame) ==
    /\ frame.num = made + 1
    /\ made' = made + 1
    /\ \E victims \in Victims(frame.prio, QueueMax) :
          /\ pending' = (pending \ victims) \cup {frame}
          /\ lost' = lost \cup victims
    /\ UNCHANGED <<sent, turned>>

(* The other pending frames of its id, and those of its priority too.      *)
Rivals(frame) == {f \in pending : f.id = frame.id /\ f # frame}
Peers(frame) == {f \in Rivals(frame) : f.prio = frame.prio}

(* A frame whose id the next datagram already carries has to wait for the  *)
(* one after it.  Those of its peers that wait with it change places with  *)
(* it.                                                                     *)
PutAside(frame) ==
    /\ \E victims \in Victims(frame.prio, SkipMax + 1) :
          /\ frame \notin victims
          /\ pending' = pending \ victims
          /\ lost' = lost \cup victims
    /\ \E others \in SUBSET Peers(frame) :
          LET pairs == {{frame, f} : f \in others} IN
          /\ Rivals(frame) \ others # {}
          /\ turned' = (turned \ pairs) \cup (pairs \ turned)
    /\ UNCHANGED <<made, sent>>

Datagrams == UNION {[1 .. n -> pending] : n \in 0 .. PackMax}

OnePerId(datagram) ==
    \A i, j \in DOMAIN datagram : i < j =>
        datagram[i].id # datagram[j].id /\ datagram[j].prio <= datagram[i].prio

FirstInLine(datagram) ==
    \A i \in DOMAIN datagram : \A f \in pending :
        /\ f.id = datagram[i].id /\ f.prio = datagram[i].prio /\ f # datagram[i]
        => IF {datagram[i], f} \in turned THEN f.num < datagram[i].num
           ELSE datagram[i].num < f.num

Transmit(datagram) ==
    /\ sent' = sent \o datagram
    /\ OnePerId(datagram)
    /\ FirstInLine(datagram)
    /\ pending' = pending \ {datagram[i] : i \in DOMAIN datagram}
    /\ UNCHANGED <<made, lost, turned>>

SNext ==
    \/ \E frame \in Frame : Accept(frame)
    \/ \E frame \in pending : PutAside(frame)
    \/ \E datagram \in Datagrams : Transmit(datagram)

SSpec == SInit /\ [][SNext]_svars
=============================================================================
