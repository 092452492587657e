------------------------------ MODULE CCDaemon -------------------------------
(***************************************************************************)
(* pkg/controller_client/src/cc_daemon.cpp composed with CSSystem: the     *)
(* chain from the controllers' emergency buttons to the safety broadcasts. *)
(*                                                                         *)
(* Three threads share the list of controllers under one mutex: the        *)
(* receiver (one step per packet), the sender loop, and application        *)
(* threads that append controllers and set feedback.  The sender is the    *)
(* only caller of CSSystem's safetyOn and safetyOff in the program; its    *)
(* loop is cut at every unlock and at every broadcast.                     *)
(*                                                                         *)
(* Time is counted in ticks since safety_timeout was last restarted and    *)
(* saturates one tick beyond Timeout (300 ms).                             *)
(***************************************************************************)
EXTENDS CSSystem

CONSTANTS
    Channels,   \* controllers the application appends
    Unknown,    \* a channel no controller was appended for
    Sender,     \* the sender thread
    Feedbacks,  \* feedback settings (LED, player, vibration) an application sets
    Default,    \* the one append fills in
    Emergency,  \* the blinking feedback of an emergency
    Timeout     \* ticks of silence after which the sender assumes the worst

ASSUME DaemonAssumption ==
    /\ Callers = {Sender} /\ Unknown \notin Channels
    /\ Default \in Feedbacks /\ Emergency \notin Feedbacks
    /\ Timeout \in Nat

VARIABLES
    appended,   \* channels in g_obj.callback
    is_connected, is_safety, is_update_feedback, feedback,  \* callbackInfo_t
    elapsed,    \* ticks since the last packet
    spc,        \* sender: "boot", "scan", "decide", "calling", "flash", "send"
    befo_safety,
    alarm,      \* sender's local is_safety or timeout
    batch,      \* channel -> feedback to send in this round; domain: update_i
    shown,      \* channel -> feedback the controller received last, or Default
    cause       \* history: a callback asked for the stop or the timeout passed

infos == <<appended, is_connected, is_safety, is_update_feedback, feedback>>
dvars == <<infos, elapsed, spc, befo_safety, alarm, batch, shown, cause>>
vars  == <<svars, dvars>>

(* Mutant: entries no packet has come for are looked at too.               *)
AllAppended == appended

Connected == {c \in appended : is_connected[c]}

-----------------------------------------------------------------------------
(* An entry's is_safety is arbitrary: append does not initialise it.       *)
Init ==
    /\ SInit
    /\ appended = {}
    /\ is_connected = [c \in Channels |-> FALSE]
    /\ is_safety \in [Channels -> BOOLEAN]
    /\ is_update_feedback = [c \in Channels |-> FALSE]
    /\ feedback = [c \in Channels |-> Default]
    /\ elapsed = 0
    /\ spc = "boot" /\ befo_safety = FALSE /\ alarm = FALSE
    /\ batch = <<>>
    /\ shown = [c \in Channels |-> Default]
    /\ cause = FALSE

(* Mutant: the entry is not marked for sending.                            *)
appendUnmarked(c) ==
    /\ c \notin appended
    /\ appended' = appended \cup {c}
    /\ is_connected' = [is_connected EXCEPT ![c] = FALSE]
    /\ is_update_feedback' = [is_update_feedback EXCEPT ![c] = FALSE]
    /\ feedback' = [feedback EXCEPT ![c] = Default]
    /\ UNCHANGED <<svars, is_safety, elapsed, spc, befo_safety, alarm, batch, shown, cause>>

(* A second entry of a channel would never be found by searchCallback and  *)
(* so never be connected: each channel is appended once.  is_safety keeps  *)
(* whatever was on the stack.                                              *)
append(c) ==
    /\ c \notin appended
    /\ appended' = appended \cup {c}
    /\ is_connected' = [is_connected EXCEPT ![c] = FALSE]
    /\ is_update_feedback' = [is_update_feedback EXCEPT ![c] = TRUE]
    /\ feedback' = [feedback EXCEPT ![c] = Default]
    /\ UNCHANGED <<svars, is_safety, elapsed, spc, befo_safety, alarm, batch, shown, cause>>

(* set_led, set_player, set_vibeLarge, set_vibeSmall store the new value;  *)
(* set_mute also marks the entry for sending.                              *)
set_feedback(c, f) ==
    /\ c \in appended
    /\ feedback' = [feedback EXCEPT ![c] = f]
    /\ UNCHANGED <<svars, appended, is_connected, is_safety, is_update_feedback,
                   elapsed, spc, befo_safety, alarm, batch, shown, cause>>

set_mute(c, f) ==
    /\ c \in appended
    /\ feedback' = [feedback EXCEPT ![c] = f]
    /\ is_update_feedback' = [is_update_feedback EXCEPT ![c] = @ \/ feedback[c] # f]
    /\ UNCHANGED <<svars, appended, is_connected, is_safety,
                   elapsed, spc, befo_safety, alarm, batch, shown, cause>>

(* A packet of a controller: its callback returns the toggled flag.        *)
receiver(c) ==
    /\ c \in appended
    /\ is_connected' = [is_connected EXCEPT ![c] = TRUE]
    /\ \E asks \in BOOLEAN : /\ is_safety' = [is_safety EXCEPT ![c] = asks]
                             /\ cause' = (cause \/ asks)
    /\ elapsed' = 0
    /\ UNCHANGED <<svars, appended, is_update_feedback, feedback,
                   spc, befo_safety, alarm, batch, shown>>

(* A packet of any other channel is reported, and restarts the timeout.    *)
receiverUnknown(c) ==
    /\ c \in (Channels \cup {Unknown}) \ appended
    /\ elapsed' = 0
    /\ UNCHANGED <<svars, infos, spc, befo_safety, alarm, batch, shown, cause>>

tick ==
    /\ elapsed <= Timeout
    /\ elapsed' = elapsed + 1
    /\ cause' = (cause \/ elapsed' > Timeout)
    /\ UNCHANGED <<svars, infos, spc, befo_safety, alarm, batch, shown>>

-----------------------------------------------------------------------------
(* can_smbus::safetyOff() at the start of the thread.                      *)
senderBoot ==
    /\ spc = "boot" /\ safetyOff(Sender) /\ spc' = "calling"
    /\ alarm' = FALSE
    /\ UNCHANGED <<infos, elapsed, befo_safety, batch, shown, cause>>

(* Mutant: the silence of all controllers is not looked at.                *)
senderScanDeaf ==
    /\ spc = "scan" /\ spc' = "decide"
    /\ alarm' = (\E c \in Connected : is_safety[c])
    /\ batch' = [c \in {d \in Connected : is_update_feedback[d]} |-> feedback[c]]
    /\ UNCHANGED <<svars, infos, elapsed, befo_safety, shown, cause>>

(* The first locked section of the loop.                                   *)
senderScan ==
    /\ spc = "scan" /\ spc' = "decide"
    /\ alarm' = (\/ \E c \in Connected : is_safety[c]
                 \/ elapsed > Timeout)
    /\ batch' = [c \in {d \in Connected : is_update_feedback[d]} |-> feedback[c]]
    /\ UNCHANGED <<svars, infos, elapsed, befo_safety, shown, cause>>

(* Mutant: the edge is not remembered.                                     *)
senderDecideForgetful ==
    /\ spc = "decide"
    /\ IF alarm = befo_safety
         THEN UNCHANGED svars /\ spc' = IF alarm THEN "flash" ELSE "send"
         ELSE /\ IF alarm THEN safetyOn(Sender) ELSE safetyOff(Sender)
              /\ spc' = "calling"
    /\ UNCHANGED <<infos, elapsed, befo_safety, alarm, batch, shown, cause>>

(* Only an edge of the alarm reaches CSSystem.                             *)
senderDecide ==
    /\ spc = "decide"
    /\ befo_safety' = alarm
    /\ IF alarm = befo_safety
         THEN UNCHANGED svars /\ spc' = IF alarm THEN "flash" ELSE "send"
         ELSE /\ IF alarm THEN safetyOn(Sender) ELSE safetyOff(Sender)
              /\ spc' = "calling"
    /\ UNCHANGED <<infos, elapsed, alarm, batch, shown, cause>>

(* safetyOn or safetyOff makes its broadcasts and returns.                 *)
senderBroadcast ==
    /\ spc = "calling" /\ sendBrc(Sender)
    /\ spc' = IF todo'[Sender] # <<>> THEN "calling"
              ELSE IF alarm THEN "flash" ELSE "send"
    /\ UNCHANGED <<infos, elapsed, befo_safety, alarm, batch, shown, cause>>

(* The second locked section: in an emergency every connected controller   *)
(* gets the emergency feedback instead of its own.                         *)
senderFlash ==
    /\ spc = "flash" /\ spc' = "send"
    /\ batch' = [c \in Connected |-> Emergency]
    /\ is_update_feedback' = [c \in Channels |-> is_update_feedback[c] \/ c \in Connected]
    /\ UNCHANGED <<svars, appended, is_connected, is_safety, feedback,
                   elapsed, befo_safety, alarm, shown, cause>>

senderSend ==
    /\ spc = "send" /\ spc' = "scan"
    /\ shown' = [c \in Channels |-> IF c \in DOMAIN batch THEN batch[c] ELSE shown[c]]
    /\ batch' = <<>>
    /\ UNCHANGED <<svars, infos, elapsed, befo_safety, alarm, cause>>

sender == \/ senderBoot \/ senderScan \/ senderDecide \/ senderBroadcast
          \/ senderFlash \/ senderSend

systemThread == (safetyThread \/ sendBrc(Thread)) /\ UNCHANGED dvars

Next ==
    \/ \E c \in Channels : append(c) \/ receiver(c)
    \/ \E c \in Channels, f \in Feedbacks : set_feedback(c, f) \/ set_mute(c, f)
    \/ \E c \in Channels \cup {Unknown} : receiverUnknown(c)
    \/ tick
    \/ sender
    \/ systemThread

Spec == Init /\ [][Next]_vars

(* Both loops run forever and time passes; packets and application calls   *)
(* may stop.                                                               *)
Fairness == WF_vars(sender) /\ WF_vars(systemThread) /\ WF_vars(tick)

FairSpec == Spec /\ Fairness

-----------------------------------------------------------------------------
TypeOK ==
    /\ STypeOK
    /\ appended \subseteq Channels
    /\ is_connected \in [Channels -> BOOLEAN] /\ is_safety \in [Channels -> BOOLEAN]
    /\ is_update_feedback \in [Channels -> BOOLEAN]
    /\ feedback \in [Channels -> Feedbacks] /\ cause \in BOOLEAN
    /\ elapsed \in 0 .. Timeout + 1
    /\ spc \in {"boot", "scan", "decide", "calling", "flash", "send"}
    /\ befo_safety \in BOOLEAN /\ alarm \in BOOLEAN
    /\ DOMAIN batch \subseteq Channels
    /\ \A c \in DOMAIN batch : batch[c] \in Feedbacks \cup {Emergency}
    /\ shown \in [Channels -> Feedbacks \cup {Emergency}]

(* The edge detector never loses its place: whenever the sender is not in  *)
(* the middle of a decision, its memory of the last edge, the flag of      *)
(* CSSystem and the alarm it acted on agree.                               *)
EdgeTracksFlag ==
    /\ befo_safety = is_enable_safety
    /\ spc \in {"scan", "calling", "flash", "send"} => befo_safety = alarm

(* The list of controllers, the sender's batch and its edge detector, and  *)
(* how often the bus can contradict the flag (StaleBounded of CSSystem).   *)
EdgeInv == TypeOK /\ EdgeTracksFlag /\ StaleBounded

(* No emergency out of nothing: the is_safety field that append leaves     *)
(* uninitialised, and the start of the threads, never put Unsafe on the    *)
(* bus before a controller asked for it or the timeout passed.             *)
UnsafeNeedsCause ==
    is_enable_safety \/ (\E g \in Gateways : last[g] = "Unsafe") => cause

(* Danger: some connected controller asks for the emergency stop, or no    *)
(* packet of any controller came for longer than the timeout.              *)
Danger == elapsed > Timeout \/ \E c \in Connected : is_safety[c]

(* A lasting danger ends, for good, with Unsafe as the last broadcast to   *)
(* gateways 0 and 1; its lasting absence with Safety.                      *)
DangerReachesBus ==
    /\ <>[]Danger  => <>[](\A g \in SafetyGateways : last[g] = "Unsafe")
    /\ <>[]~Danger => <>[](\A g \in SafetyGateways : last[g] = "Safety")

(* After an emergency each connected controller gets its own feedback      *)
(* back, also one set during the emergency and by the setters that do not  *)
(* mark the entry for sending.                                             *)
FeedbackRestored ==
    \A c \in Channels, f \in Feedbacks :
        <>[](~Danger /\ c \in Connected /\ feedback[c] = f) => <>[](shown[c] = f)
=============================================================================
