---------------------------- MODULE CCController -----------------------------
(***************************************************************************)
(* pkg/controller_client/src/cc_controller.cpp: the game-pad object.  The  *)
(* daemon's receiver thread runs Controller::callback for every packet;    *)
(* an application thread reads the pad with get_sensor, without a lock.    *)
(*                                                                         *)
(* A packet is its emergency-button bit and a time stamp (`value').  The   *)
(* callback's copy into the unused half of the double buffer takes two     *)
(* steps, one per part of the packet, as does get_sensor's copy out, so    *)
(* that the threads interleave in the copies.                              *)
(***************************************************************************)
EXTENDS Naturals

CONSTANTS
    HoldCount,  \* packets the button must be held beyond (15)
    CountMod,   \* values of m_safety_count (256, uint8_t)
    FlgMod,     \* values of m_packet_flg (256, uint8_t)
    MaxValue    \* bound: packets received

ASSUME ControllerAssumption ==
    /\ HoldCount \in Nat /\ CountMod \in Nat /\ HoldCount + 1 < CountMod
    /\ FlgMod \in Nat \ {0} /\ FlgMod % 2 = 0
    /\ MaxValue \in Nat

VARIABLES
    m_safety_count, m_safety_changed, m_safety_flg,
    m_packet_flg,
    m_packet,   \* half of the double buffer -> <<first part, second part>>
    cpc,        \* receiver thread: "idle", "copy1", "copy2", "button"
    value,      \* time stamp of the packet being handled
    button,     \* its emergency button
    gpc,        \* application thread: "idle", "half"
    gsrc,       \* the half it copies from
    got,        \* what it has copied
    begun,      \* history: the newest published packet when the read began
    toggles,    \* history: flag changes since the button was last up
    held        \* history: packets in a row with the button down

cvars == <<m_safety_count, m_safety_changed, m_safety_flg, toggles, held>>
bvars == <<m_packet_flg, m_packet, cpc, value, button>>
gvars == <<gpc, gsrc, got, begun>>
padVars == <<cvars, bvars, gvars>>

-----------------------------------------------------------------------------
PadInit ==
    /\ m_safety_count = 0 /\ m_safety_changed = FALSE /\ m_safety_flg = FALSE
    /\ toggles = 0 /\ held = 0
    /\ m_packet_flg = 0 /\ m_packet = [h \in {0, 1} |-> <<0, 0>>]
    /\ cpc = "idle" /\ value = 0 /\ button = FALSE
    /\ gpc = "idle" /\ gsrc = 0 /\ got = <<0, 0>> /\ begun = 0

(* A packet arrives.  One whose length is not that of a sensor packet      *)
(* changes nothing: the callback returns the flag as it is.                *)
receive ==
    /\ cpc = "idle" /\ value < MaxValue
    /\ value' = value + 1
    /\ button' \in BOOLEAN
    /\ cpc' = "copy1"
    /\ UNCHANGED <<cvars, m_packet_flg, m_packet, gvars>>

(* Mutant: the packet is copied into the half being read.                  *)
SameHalf == m_packet_flg % 2

Other == (m_packet_flg + 1) % 2

(* The packet is copied into the half get_sensor does not read.            *)
callbackCopy ==
    \/ /\ cpc = "copy1" /\ cpc' = "copy2"
       /\ m_packet' = [m_packet EXCEPT ![Other][1] = value]
       /\ UNCHANGED <<cvars, m_packet_flg, value, button, gvars>>
    \/ /\ cpc = "copy2" /\ cpc' = "button"
       /\ m_packet' = [m_packet EXCEPT ![Other][2] = value]
       /\ m_packet_flg' = (m_packet_flg + 1) % FlgMod
       /\ UNCHANGED <<cvars, value, button, gvars>>

(* Mutant: a release that is not noticed.                                  *)
ChangedForever == m_safety_changed

CountAfter == IF button THEN (m_safety_count + 1) % CountMod ELSE 0

ChangedAfter == button /\ m_safety_changed

(* The button: the flag is toggled once the button was held long enough,   *)
(* and then not again before it was seen released.                         *)
callbackButton ==
    LET toggle == ~ChangedAfter /\ HoldCount < CountAfter IN
    /\ cpc = "button" /\ cpc' = "idle"
    /\ m_safety_count' = CountAfter
    /\ m_safety_changed' = (ChangedAfter \/ toggle)
    /\ m_safety_flg' = IF toggle THEN ~m_safety_flg ELSE m_safety_flg
    /\ toggles' = (IF button THEN toggles ELSE 0) + (IF toggle THEN 1 ELSE 0)
    /\ held' = IF button THEN held + 1 ELSE 0
    /\ UNCHANGED <<m_packet_flg, m_packet, value, button, gvars>>

(* get_sensor: the half is chosen once, then copied.                       *)
get_sensor ==
    \/ /\ gpc = "idle" /\ gpc' = "half"
       /\ gsrc' = m_packet_flg % 2
       /\ got' = [got EXCEPT ![1] = m_packet[gsrc'][1]]
       /\ begun' = IF cpc \in {"copy1", "copy2"} THEN value - 1 ELSE value
       /\ UNCHANGED <<cvars, bvars>>
    \/ /\ gpc = "half" /\ gpc' = "idle"
       /\ got' = [got EXCEPT ![2] = m_packet[gsrc][2]]
       /\ UNCHANGED <<cvars, bvars, gsrc, begun>>

PadNext == receive \/ callbackCopy \/ callbackButton \/ get_sensor

PadSpec == PadInit /\ [][PadNext]_padVars

-----------------------------------------------------------------------------
PadTypeOK ==
    /\ m_safety_count \in 0 .. CountMod - 1
    /\ m_safety_changed \in BOOLEAN /\ m_safety_flg \in BOOLEAN
    /\ m_packet_flg \in 0 .. FlgMod - 1
    /\ m_packet \in [{0, 1} -> (0 .. MaxValue) \X (0 .. MaxValue)]
    /\ cpc \in {"idle", "copy1", "copy2", "button"}
    /\ value \in 0 .. MaxValue /\ button \in BOOLEAN
    /\ gpc \in {"idle", "half"} /\ gsrc \in {0, 1}
    /\ got \in (0 .. MaxValue) \X (0 .. MaxValue) /\ begun \in 0 .. MaxValue
    /\ toggles \in Nat /\ held \in 0 .. MaxValue

(* Holding the emergency button toggles the flag once and only once, also  *)
(* when it is held so long that the uint8_t counter wraps to zero and      *)
(* passes the threshold again.                                             *)
OneTogglePerPress ==
    cpc = "idle" => toggles = (IF held > HoldCount THEN 1 ELSE 0)

(* The pad's fields are in range, and the flag follows the presses.        *)
PadInv == PadTypeOK /\ OneTogglePerPress

(* A reader that no two callbacks overtake gets one packet, never halves   *)
(* of two: one packet may arrive during the copy, the one after next       *)
(* writes into the half being read.                                        *)
NoTornRead ==
    gpc = "idle" /\ value <= begun + 1 => got[1] = got[2]
=============================================================================
