-------------------------------- MODULE CSIo ---------------------------------
(***************************************************************************)
(* pkg/can_smbus/src/core/io/cs_io.c for one gateway: the sequence byte of *)
(* the datagrams sent, and the table of the last MapCount sequence bytes   *)
(* received, by which CSIo_read drops repeated datagrams.                  *)
(*                                                                         *)
(* The gateway and the network are external.  The gateway numbers its      *)
(* datagrams; its counter keeps running when the host restarts, so it      *)
(* starts anywhere.  A datagram may be lost, repeated or overtaken, but    *)
(* only the last Horizon datagrams can still arrive.                       *)
(* A datagram of another size or from another address changes nothing and  *)
(* is not modelled.                                                        *)
(***************************************************************************)
EXTENDS Integers, Sequences

CONSTANTS
    MapCount,   \* CSIO_SEQUENCE_MAP_COUNT (4)
    SeqMod,     \* values of a sequence byte (256)
    IndexMod,   \* values of recv_next_map_index (256, uint8_t)
    Horizon,    \* how many of its last datagrams a gateway may still deliver
    MaxMade     \* bound: datagrams made by the gateway

ASSUME IoAssumption ==
    /\ MapCount \in Nat \ {0} /\ SeqMod \in Nat \ {0}
    /\ IndexMod \in Nat \ {0} /\ IndexMod % MapCount = 0
    /\ Horizon \in Nat \ {0} /\ MaxMade \in Nat

VARIABLES
    send_sequence,
    recv_next_map_index, recv_sequence_map,
    first,      \* the gateway's sequence byte when the host started
    made,       \* datagrams the gateway has made since
    accepted,   \* history: numbers of the accepted datagrams, in order
    missed      \* history: <<number, accepted so far>> of a datagram refused
                \* although it had not been accepted

vars == <<send_sequence, recv_next_map_index, recv_sequence_map, first, made,
          accepted, missed>>

Slots == 0 .. MapCount - 1

(* The sequence byte of the gateway's datagram number n.                   *)
SeqOf(n) == (first + n) % SeqMod

Accepted == {accepted[i] : i \in 1 .. Len(accepted)}

-----------------------------------------------------------------------------
(* CSIo_initializer fills the table with UINT8_MAX.                        *)
Init ==
    /\ send_sequence = 0
    /\ recv_next_map_index = 0
    /\ recv_sequence_map = [s \in Slots |-> SeqMod - 1]
    /\ first \in 0 .. SeqMod - 1 /\ made = 0
    /\ accepted = <<>> /\ missed = {}

gatewaySends ==
    /\ made < MaxMade /\ made' = made + 1
    /\ UNCHANGED <<send_sequence, recv_next_map_index, recv_sequence_map, first,
                   accepted, missed>>

(* Mutants: the last entry is not searched; one bit is not compared.       *)
isEffectiveShort(seq) == \A s \in Slots \ {MapCount - 1} : recv_sequence_map[s] # seq
isEffectiveMasked(seq) ==
    \A s \in Slots : recv_sequence_map[s] % (SeqMod \div 2) # seq % (SeqMod \div 2)

isEffective(seq) == \A s \in Slots : recv_sequence_map[s] # seq

(* Mutant: the last slot is never used.                                    *)
NextSlotShort == recv_next_map_index % (MapCount - 1)

NextSlot == recv_next_map_index % MapCount

(* CSIo_read of a copy of datagram n.                                      *)
read(n) ==
    /\ n < made /\ made - Horizon <= n
    /\ IF isEffective(SeqOf(n))
         THEN /\ recv_sequence_map' = [recv_sequence_map EXCEPT ![NextSlot] = SeqOf(n)]
              /\ recv_next_map_index' = (recv_next_map_index + 1) % IndexMod
              /\ accepted' = Append(accepted, n)
              /\ UNCHANGED missed
         ELSE /\ missed' = IF n \in Accepted THEN missed
                           ELSE missed \cup {<<n, Len(accepted)>>}
              /\ UNCHANGED <<recv_sequence_map, recv_next_map_index, accepted>>
    /\ UNCHANGED <<send_sequence, first, made>>

(* CSIo_send, called by the gateway's send thread only: the byte sent is   *)
(* the one before the increment.                                           *)
send ==
    /\ send_sequence' = (send_sequence + 1) % SeqMod
    /\ UNCHANGED <<recv_next_map_index, recv_sequence_map, first, made,
                   accepted, missed>>

Next == gatewaySends \/ send \/ \E n \in 0 .. MaxMade - 1 : read(n)

Spec == Init /\ [][Next]_vars

-----------------------------------------------------------------------------
TypeOK ==
    /\ send_sequence \in 0 .. SeqMod - 1
    /\ recv_next_map_index \in 0 .. IndexMod - 1
    /\ recv_sequence_map \in [Slots -> 0 .. SeqMod - 1]
    /\ first \in 0 .. SeqMod - 1 /\ made \in 0 .. MaxMade
    /\ accepted \in Seq(0 .. MaxMade - 1)
    /\ missed \subseteq (0 .. MaxMade - 1) \X Nat

(* The table holds the sequence bytes of exactly the last MapCount         *)
(* accepted datagrams, also after the uint8_t index has wrapped: slot by   *)
(* slot, the newest one is the slot before the index.                      *)
MapHoldsLastAccepted ==
    /\ recv_next_map_index = Len(accepted) % IndexMod
    /\ \A i \in 1 .. Len(accepted) : Len(accepted) < i + MapCount
          => recv_sequence_map[(i - 1) % MapCount] = SeqOf(accepted[i])

(* The types and the contents of the table, together: the invariant that   *)
(* every call of CSIo_read preserves.                                      *)
TableInv == TypeOK /\ MapHoldsLastAccepted

(* As long as a copy comes at most one datagram late (twice Horizon - 1    *)
(* datagrams can be accepted between the two copies, fewer than the table  *)
(* holds), no datagram is handed to the callbacks twice.                   *)
NoDuplicate ==
    2 * (Horizon - 1) < MapCount =>
        \A i, j \in 1 .. Len(accepted) : accepted[i] = accepted[j] => i = j

(* A datagram is refused unseen in two cases only: it carries the byte the *)
(* table was filled with and the table is not yet full of real ones, or it *)
(* is a whole turn of the sequence byte behind an accepted one.            *)
MissedOnlyByAlias ==
    \A m \in missed :
        \/ SeqOf(m[1]) = SeqMod - 1 /\ m[2] < MapCount
        \/ \E a \in Accepted : a # m[1] /\ (m[1] - a) % SeqMod = 0
=============================================================================
