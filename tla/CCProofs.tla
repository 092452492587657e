------------------------------ MODULE CCProofs -------------------------------
(***************************************************************************)
(* controller_client, for every number of controllers, every timeout and   *)
(* every width of the counters.                                            *)
(*                                                                         *)
(*  - The daemon (CCDaemon with CSSystem): edge detector, safety flag and  *)
(*    broadcasts agree (EdgeInv), and there is no emergency without a      *)
(*    cause (UnsafeNeedsCause).                                            *)
(*  - The game pad (CCController): one toggle per press (PadInv),  *)
(*    no torn read (NoTornRead).                                           *)
(***************************************************************************)
EXTENDS CCDaemon, CCController, FiniteSetTheorems, SequenceTheorems, TLAPS

\* What is left of the broadcasts of a mode: both gateways, the second, none.
Full(m) == << <<0, m>>, <<1, m>> >>
Half(m) == << <<1, m>> >>
Rest(m) == {<<>>, Half(m), Full(m)}

Modes == {"Safety", "Unsafe"}

\* The sender's broadcasts are those of the flag, and exactly while it calls.
SenderOk ==
    /\ todo[Sender] \in Rest(Mode(is_enable_safety))
    /\ todo[Sender] = <<>> <=> spc # "calling"
    /\ spc = "boot" => ~befo_safety

\* The safety thread's broadcasts are those of one mode; one it still has to
\* make against the flag is the first of its gateway, and has its cause.
ThreadOk(m) ==
    /\ todo[Thread] \in Rest(m)
    /\ m # Mode(is_enable_safety) /\ todo[Thread] # <<>> => stale[1] = 0
    /\ m # Mode(is_enable_safety) /\ todo[Thread] = Full(m) => stale[0] = 0
    /\ m = "Unsafe" /\ todo[Thread] # <<>> => cause

\* Whatever the alarm is raised from has its cause.
CauseOk ==
    /\ is_enable_safety \/ alarm \/ elapsed > Timeout => cause
    /\ \A c \in appended : is_connected[c] /\ is_safety[c] => cause
    /\ \A g \in Gateways : last[g] = "Unsafe" => cause

\* The inductive invariant behind EdgeInv and UnsafeNeedsCause.
DaemonInv ==
    /\ TypeOK /\ EdgeTracksFlag /\ SenderOk
    /\ \E m \in Modes : ThreadOk(m)
    /\ \A g \in Gateways : stale[g] \in {0, 1}
    /\ CauseOk

-----------------------------------------------------------------------------
\* Taking the broadcasts of a mode one by one.
LEMMA RestFacts ==
    ASSUME NEW m \in Modes
    PROVE  /\ Head(Full(m)) = <<0, m>> /\ Tail(Full(m)) = Half(m)
           /\ Head(Half(m)) = <<1, m>> /\ Tail(Half(m)) = <<>>
           /\ Full(m) # <<>> /\ Half(m) # <<>> /\ Full(m) # Half(m)
           /\ Rest(m) \subseteq Seq(Gateways \X Modes)
<1>1. 0 \in Gateways /\ 1 \in Gateways
  BY DEF Gateways
<1>2. Len(Full(m)) = 2 /\ Len(Half(m)) = 1 /\ Len(<<>>) = 0
  BY DEF Full, Half
<1>3. Full(m) \in Seq(Gateways \X Modes) /\ Half(m) \in Seq(Gateways \X Modes)
  BY <1>1 DEF Full, Half
<1>4. Head(Full(m)) = <<0, m>> /\ Head(Half(m)) = <<1, m>>
  BY DEF Full, Half
<1>5. Tail(Full(m)) = Half(m)
  <2> DEFINE q == Full(m)
             r == Half(m)
  <2>1. q \in Seq(Gateways \X Modes) /\ q # <<>> /\ Len(q) = 2
    BY <1>2, <1>3
  <2>2. r \in Seq(Gateways \X Modes) /\ Len(r) = 1 /\ q[2] = r[1]
    BY <1>2, <1>3 DEF Full, Half
  <2> HIDE DEF q, r
  <2> DEFINE t == Tail(q)
  <2>3. /\ t \in Seq(Gateways \X Modes) /\ Len(t) = 1
        /\ \A i \in 1 .. Len(t) : t[i] = q[i + 1]
    BY <2>1, HeadTailProperties
  <2> HIDE DEF t
  <2>4. \A i \in 1 .. Len(t) : t[i] = r[i]
    BY <2>2, <2>3
  <2>5. t = r
    BY <2>2, <2>3, <2>4, SeqEqual
  <2> QED BY <2>5 DEF q, r, t
<1>6. Tail(Half(m)) = <<>>
  BY DEF Half
<1>7. <<>> \in Seq(Gateways \X Modes)
  BY EmptySeq
<1>8. Rest(m) \subseteq Seq(Gateways \X Modes)
  BY <1>3, <1>7 DEF Rest
<1>9. Full(m) # <<>> /\ Half(m) # <<>> /\ Full(m) # Half(m)
  BY <1>2
<1> QED BY <1>4, <1>5, <1>6, <1>8, <1>9

\* The two constants of cs_system.c are the broadcasts of the two modes.
LEMMA ModeFacts ==
    /\ safeMode = Full("Safety") /\ unsafeMode = Full("Unsafe")
    /\ Mode(TRUE) = "Unsafe" /\ Mode(FALSE) = "Safety"
    /\ \A on \in BOOLEAN : Mode(on) \in Modes
BY DEF safeMode, unsafeMode, Full, Mode, Modes

\* The daemon's thread and CSSystem's are the only two.
LEMMA TwoProcesses ==
    /\ Processes = {Sender, Thread} /\ Sender # Thread /\ Cardinality(Callers) = 1
<1>1. Callers = {Sender} /\ Thread \notin Callers
  BY SystemAssumption, DaemonAssumption
<1>2. Cardinality({Sender}) = 1
  BY FS_Singleton
<1> QED BY <1>1, <1>2 DEF Processes

\* The initial state satisfies the invariant.
LEMMA DaemonInvInit == Init => DaemonInv
<1> SUFFICES ASSUME Init PROVE DaemonInv
  OBVIOUS
<1> USE DaemonAssumption
<1>0. <<>> \in Seq(Gateways \X {"Safety", "Unsafe"}) /\ DOMAIN <<>> = {}
  BY EmptySeq
<1>1. STypeOK
  BY <1>0 DEF Init, SInit, STypeOK
<1>b. DOMAIN batch = {}
  BY <1>0 DEF Init
<1>2. TypeOK
  <2>1. /\ is_connected \in [Channels -> BOOLEAN] /\ is_update_feedback \in [Channels -> BOOLEAN]
        /\ feedback \in [Channels -> Feedbacks]
        /\ shown \in [Channels -> Feedbacks \cup {Emergency}]
    BY DEF Init
  <2>2. elapsed \in 0 .. Timeout + 1
    BY DEF Init
  <2> QED BY <1>1, <1>b, <2>1, <2>2 DEF Init, TypeOK
<1>3. EdgeTracksFlag
  BY DEF Init, SInit, EdgeTracksFlag
<1>4. todo[Sender] = <<>> /\ todo[Thread] = <<>>
  BY TwoProcesses DEF Init, SInit
<1>5. SenderOk
  BY <1>4 DEF Init, SInit, SenderOk, Rest
<1>6. ThreadOk("Safety")
  BY <1>4 DEF Init, SInit, ThreadOk, Rest, Gateways
<1>7. \A g \in Gateways : stale[g] \in {0, 1}
  BY DEF Init, SInit
<1>8. CauseOk
  BY DEF Init, SInit, CauseOk, Gateways
<1> QED BY <1>2, <1>3, <1>5, <1>6, <1>7, <1>8 DEF DaemonInv, Modes

\* A step that leaves CSSystem, the sender's memory and its place in the calls
\* alone, and takes no cause back.
LEMMA QuietStep ==
    ASSUME DaemonInv, TypeOK', UNCHANGED <<svars, befo_safety>>, cause => cause',
           \/ UNCHANGED <<spc, alarm>>
           \/ spc = "scan" /\ spc' = "decide"
           \/ spc = "flash" /\ spc' = "send" /\ UNCHANGED alarm
           \/ spc = "send" /\ spc' = "scan" /\ UNCHANGED alarm
           \/ spc = "decide" /\ spc' \in {"flash", "send"} /\ UNCHANGED alarm
                /\ alarm = befo_safety,
           CauseOk'
    PROVE  DaemonInv'
<1>1. UNCHANGED <<is_enable_safety, todo, last, stale, befo_safety>>
  BY DEF svars
<1>2. EdgeTracksFlag'
  BY <1>1 DEF DaemonInv, EdgeTracksFlag
<1>3. SenderOk'
  BY <1>1 DEF DaemonInv, SenderOk
<1>4. \E m \in Modes : ThreadOk(m)'
  BY <1>1 DEF DaemonInv, ThreadOk
<1>5. \A g \in Gateways : stale'[g] \in {0, 1}
  BY <1>1 DEF DaemonInv
<1> QED BY <1>2, <1>3, <1>4, <1>5 DEF DaemonInv

\* The application's calls, the receiver and the clock.
LEMMA ListSteps ==
    ASSUME DaemonInv,
           \/ \E c \in Channels : append(c) \/ receiver(c)
           \/ \E c \in Channels, f \in Feedbacks : set_feedback(c, f) \/ set_mute(c, f)
           \/ \E c \in Channels \cup {Unknown} : receiverUnknown(c)
           \/ tick
    PROVE  DaemonInv'
<1> USE DaemonAssumption
<1>t. TypeOK /\ CauseOk
  BY DEF DaemonInv
<1>1. ASSUME NEW c \in Channels, append(c) PROVE DaemonInv'
  <2>1. TypeOK'
    BY <1>1, <1>t DEF append, TypeOK, STypeOK, svars
  <2>2. CauseOk'
    BY <1>1, <1>t DEF append, TypeOK, CauseOk, svars
  <2> QED BY <1>1, <2>1, <2>2, QuietStep DEF append
<1>2. ASSUME NEW c \in Channels, receiver(c) PROVE DaemonInv'
  <2>1. TypeOK'
    BY <1>2, <1>t DEF receiver, TypeOK, STypeOK, svars
  <2>2. CauseOk'
    BY <1>2, <1>t DEF receiver, TypeOK, CauseOk, svars
  <2>3. cause => cause'
    BY <1>2 DEF receiver
  <2> QED BY <1>2, <2>1, <2>2, <2>3, QuietStep DEF receiver
<1>3. ASSUME NEW c \in Channels, NEW f \in Feedbacks, set_feedback(c, f) PROVE DaemonInv'
  <2>1. TypeOK'
    BY <1>3, <1>t DEF set_feedback, TypeOK, STypeOK, svars
  <2>2. CauseOk'
    BY <1>3, <1>t DEF set_feedback, CauseOk, svars
  <2> QED BY <1>3, <2>1, <2>2, QuietStep DEF set_feedback
<1>4. ASSUME NEW c \in Channels, NEW f \in Feedbacks, set_mute(c, f) PROVE DaemonInv'
  <2>1. TypeOK'
    BY <1>4, <1>t DEF set_mute, TypeOK, STypeOK, svars
  <2>2. CauseOk'
    BY <1>4, <1>t DEF set_mute, CauseOk, svars
  <2> QED BY <1>4, <2>1, <2>2, QuietStep DEF set_mute
<1>5. ASSUME NEW c \in Channels \cup {Unknown}, receiverUnknown(c) PROVE DaemonInv'
  <2>1. TypeOK'
    BY <1>5, <1>t DEF receiverUnknown, TypeOK, STypeOK, svars, infos
  <2>2. CauseOk'
    BY <1>5, <1>t DEF receiverUnknown, CauseOk, svars, infos
  <2> QED BY <1>5, <2>1, <2>2, QuietStep DEF receiverUnknown
<1>6. ASSUME tick PROVE DaemonInv'
  <2>1. TypeOK'
    BY <1>6, <1>t DEF tick, TypeOK, STypeOK, svars, infos
  <2>2. CauseOk'
    BY <1>6, <1>t DEF tick, CauseOk, svars, infos
  <2>3. cause => cause'
    BY <1>6 DEF tick
  <2> QED BY <1>6, <2>1, <2>2, <2>3, QuietStep DEF tick
<1> QED BY <1>1, <1>2, <1>3, <1>4, <1>5, <1>6

\* safetyOn and safetyOff, called by the sender in accordance with its alarm.
LEMMA AssignStep ==
    ASSUME DaemonInv, NEW on \in BOOLEAN, Assign(Sender, on, Full(Mode(on))),
           spc # "calling", spc' = "calling", befo_safety' = on, alarm' = on,
           UNCHANGED <<infos, elapsed, batch, shown, cause>>, on => cause
    PROVE  DaemonInv'
<1>m. Mode(on) \in Modes
  BY ModeFacts
<1>r. Full(Mode(on)) \in Seq(Gateways \X Modes) /\ Full(Mode(on)) # <<>>
  BY <1>m, RestFacts DEF Rest
<1>t. TypeOK /\ STypeOK /\ todo \in [Processes -> Seq(Gateways \X Modes)]
  BY DEF DaemonInv, TypeOK, STypeOK, Modes
<1>p. Sender \in Processes /\ Thread \in Processes /\ Sender # Thread
  BY TwoProcesses
<1>1. todo' = [todo EXCEPT ![Sender] = Full(Mode(on))] /\ is_enable_safety' = on
      /\ stale' = [g \in Gateways |-> 0] /\ last' = last
  BY DEF Assign
<1>2. todo' \in [Processes -> Seq(Gateways \X Modes)]
  BY <1>1, <1>r, <1>t, <1>p
<1>3. todo'[Sender] = Full(Mode(on)) /\ todo'[Thread] = todo[Thread]
  BY <1>1, <1>t, <1>p
<1>4. stale' \in [Gateways -> Nat] /\ \A g \in Gateways : stale'[g] = 0
  BY <1>1
<1>5. STypeOK'
  BY <1>1, <1>2, <1>4, <1>t DEF STypeOK, Modes
<1>6. TypeOK'
  BY <1>5, <1>t DEF TypeOK, infos
<1>7. EdgeTracksFlag'
  BY <1>1 DEF EdgeTracksFlag
<1>8. SenderOk'
  BY <1>1, <1>3, <1>r DEF SenderOk, Rest
<1>9. \E m \in Modes : ThreadOk(m)'
  <2>1. PICK m \in Modes : ThreadOk(m)
    BY DEF DaemonInv
  <2>2. 0 \in Gateways /\ 1 \in Gateways
    BY DEF Gateways
  <2>3. ThreadOk(m)'
    BY <1>3, <1>4, <2>1, <2>2 DEF ThreadOk
  <2> QED BY <2>3
<1>10. CauseOk'
  BY <1>1 DEF DaemonInv, CauseOk, infos
<1> QED BY <1>4, <1>6, <1>7, <1>8, <1>9, <1>10 DEF DaemonInv

\* A broadcast of a process whose broadcasts are those of one mode: what it
\* leaves to do, what the gateway heard last, how stale it is.
LEMMA BroadcastStep ==
    ASSUME DaemonInv, NEW p \in Processes, NEW m \in Modes, todo[p] \in Rest(m), sendBrc(p)
    PROVE  /\ STypeOK' /\ is_enable_safety' = is_enable_safety
           /\ \A q \in Processes \ {p} : todo'[q] = todo[q]
           /\ \/ todo[p] = Full(m) /\ todo'[p] = Half(m)
                 /\ last' = [last EXCEPT ![0] = m]
                 /\ stale' = IF m = Mode(is_enable_safety) THEN stale
                              ELSE [stale EXCEPT ![0] = @ + 1]
              \/ todo[p] = Half(m) /\ todo'[p] = <<>>
                 /\ last' = [last EXCEPT ![1] = m]
                 /\ stale' = IF m = Mode(is_enable_safety) THEN stale
                              ELSE [stale EXCEPT ![1] = @ + 1]
<1>t. STypeOK /\ todo \in [Processes -> Seq(Gateways \X Modes)] /\ stale \in [Gateways -> Nat]
      /\ last \in [Gateways -> {"none"} \cup Modes]
  BY DEF DaemonInv, TypeOK, STypeOK, Modes
<1>g. 0 \in Gateways /\ 1 \in Gateways
  BY DEF Gateways
<1>1. todo' = [todo EXCEPT ![p] = Tail(todo[p])] /\ is_enable_safety' = is_enable_safety
  BY <1>t DEF sendBrc
<1>2. todo'[p] = Tail(todo[p]) /\ \A q \in Processes \ {p} : todo'[q] = todo[q]
  BY <1>1, <1>t
<1>3. CASE todo[p] = Full(m)
  <2>1. Tail(todo[p]) = Half(m) /\ Head(todo[p]) = <<0, m>> /\ Half(m) \in Seq(Gateways \X Modes)
    BY <1>3, RestFacts DEF Rest
  <2>2. Head(todo[p])[1] = 0 /\ Head(todo[p])[2] = m
    BY <2>1
  <2>3. last' = [last EXCEPT ![0] = m] /\ stale' = IF m = Mode(is_enable_safety) THEN stale
                              ELSE [stale EXCEPT ![0] = @ + 1]
    BY <2>2 DEF sendBrc
  <2>4. todo' \in [Processes -> Seq(Gateways \X Modes)]
    BY <1>1, <2>1, <1>t
  <2>5. last' \in [Gateways -> {"none"} \cup Modes] /\ stale' \in [Gateways -> Nat]
    BY <2>3, <1>t, <1>g
  <2>6. STypeOK'
    BY <1>1, <2>4, <2>5, <1>t DEF STypeOK, Modes
  <2> QED BY <1>1, <1>2, <1>3, <2>1, <2>3, <2>6
<1>4. CASE todo[p] = Half(m)
  <2>1. Tail(todo[p]) = <<>> /\ Head(todo[p]) = <<1, m>> /\ <<>> \in Seq(Gateways \X Modes)
    BY <1>4, RestFacts DEF Rest
  <2>2. Head(todo[p])[1] = 1 /\ Head(todo[p])[2] = m
    BY <2>1
  <2>3. last' = [last EXCEPT ![1] = m] /\ stale' = IF m = Mode(is_enable_safety) THEN stale
                              ELSE [stale EXCEPT ![1] = @ + 1]
    BY <2>2 DEF sendBrc
  <2>4. todo' \in [Processes -> Seq(Gateways \X Modes)]
    BY <1>1, <2>1, <1>t
  <2>5. last' \in [Gateways -> {"none"} \cup Modes] /\ stale' \in [Gateways -> Nat]
    BY <2>3, <1>t, <1>g
  <2>6. STypeOK'
    BY <1>1, <2>4, <2>5, <1>t DEF STypeOK, Modes
  <2> QED BY <1>1, <1>2, <1>4, <2>1, <2>3, <2>6
<1>5. todo[p] # <<>>
  BY DEF sendBrc
<1> QED BY <1>3, <1>4, <1>5 DEF Rest

\* The sender's broadcasts change neither the flag nor the count of stale ones.
LEMMA SenderBroadcasts == ASSUME DaemonInv, senderBroadcast PROVE DaemonInv'
<1> DEFINE m == Mode(is_enable_safety)
<1>p. Sender \in Processes /\ Thread \in Processes /\ Sender # Thread
  BY TwoProcesses
<1>m. m \in Modes /\ todo[Sender] \in Rest(m) /\ is_enable_safety \in BOOLEAN
  BY ModeFacts DEF DaemonInv, SenderOk, TypeOK, STypeOK
<1>u. m = "Unsafe" => is_enable_safety
  BY <1>m DEF Mode
<1> HIDE DEF m
<1>1. /\ STypeOK' /\ is_enable_safety' = is_enable_safety /\ todo'[Thread] = todo[Thread]
      /\ todo'[Sender] \in Rest(m) /\ stale' = stale
      /\ \A g \in Gateways : last'[g] \in {last[g], m}
  <2>1. sendBrc(Sender)
    BY DEF senderBroadcast
  <2>2. 0 \in Gateways /\ 1 \in Gateways /\ last \in [Gateways -> {"none", "Safety", "Unsafe"}]
    BY DEF Gateways, DaemonInv, TypeOK, STypeOK
  <2> QED BY <1>m, <1>p, <2>1, <2>2, BroadcastStep DEF Rest, m
<1>2. TypeOK'
  BY <1>1 DEF DaemonInv, TypeOK, senderBroadcast, infos
<1>3. EdgeTracksFlag'
  BY <1>1 DEF DaemonInv, EdgeTracksFlag, senderBroadcast
<1>4. SenderOk'
  BY <1>1 DEF SenderOk, senderBroadcast, m
<1>5. \E k \in Modes : ThreadOk(k)'
  BY <1>1 DEF DaemonInv, ThreadOk, senderBroadcast
<1>6. \A g \in Gateways : stale'[g] \in {0, 1}
  BY <1>1 DEF DaemonInv
<1>7. CauseOk'
  BY <1>1, <1>u DEF DaemonInv, CauseOk, senderBroadcast, infos
<1> QED BY <1>2, <1>3, <1>4, <1>5, <1>6, <1>7 DEF DaemonInv

\* The safety thread reads the flag, or makes a broadcast it decided on
\* before the flag changed: the one stale broadcast of its gateway.
LEMMA SystemSteps == ASSUME DaemonInv, systemThread PROVE DaemonInv'
<1>p. Sender \in Processes /\ Thread \in Processes /\ Sender # Thread
  BY TwoProcesses
<1>g. 0 \in Gateways /\ 1 \in Gateways
  BY DEF Gateways
<1>t. TypeOK /\ STypeOK /\ CauseOk
  BY DEF DaemonInv, TypeOK
<1>d. UNCHANGED <<infos, elapsed, spc, befo_safety, alarm, batch, shown, cause>>
  BY DEF systemThread, dvars
<1>1. CASE safetyThread
  <2>0. PICK m \in Modes : m = Mode(is_enable_safety)
    BY <1>t, ModeFacts DEF STypeOK
  <2>1. todo' = [todo EXCEPT ![Thread] = Full(m)]
    BY <1>1, <1>t, <2>0, ModeFacts DEF safetyThread, STypeOK
  <2>2. UNCHANGED <<is_enable_safety, last, stale>>
    BY <1>1 DEF safetyThread
  <2>3. m = "Unsafe" => cause
    BY <1>t, <2>0 DEF CauseOk, Mode, STypeOK
  <2>4. m = Mode(is_enable_safety')
    BY <2>0, <2>2
  <2>5. Full(m) \in Seq(Gateways \X Modes)
    BY <2>1, RestFacts DEF Rest
  <2>6. todo \in [Processes -> Seq(Gateways \X Modes)]
    BY <1>t DEF STypeOK, Modes
  <2>7. todo' \in [Processes -> Seq(Gateways \X Modes)] /\ todo'[Thread] = Full(m)
        /\ todo'[Sender] = todo[Sender]
    BY <1>p, <2>1, <2>5, <2>6
  <2>8. STypeOK'
    BY <1>t, <2>2, <2>7 DEF STypeOK, Modes
  <2>9. TypeOK'
    BY <1>t, <1>d, <2>8 DEF TypeOK, infos
  <2>10. ThreadOk(m)'
    BY <1>d, <2>3, <2>4, <2>7 DEF ThreadOk, Rest
  <2>11. EdgeTracksFlag' /\ SenderOk'
    BY <1>d, <2>2, <2>7 DEF DaemonInv, EdgeTracksFlag, SenderOk
  <2>12. CauseOk' /\ \A g \in Gateways : stale'[g] \in {0, 1}
    BY <1>d, <2>2 DEF DaemonInv, CauseOk, infos
  <2> QED BY <2>1, <2>9, <2>10, <2>11, <2>12 DEF DaemonInv
<1>2. CASE sendBrc(Thread)
  <2>1. PICK m \in Modes : ThreadOk(m)
    BY DEF DaemonInv
  <2>2. todo[Thread] \in Rest(m) /\ todo[Thread] # <<>>
    BY <1>2, <2>1 DEF ThreadOk, sendBrc
  <2>3. STypeOK' /\ is_enable_safety' = is_enable_safety /\ todo'[Sender] = todo[Sender]
    BY <1>2, <1>p, <2>2, BroadcastStep
  <2>4. TypeOK'
    BY <1>t, <1>d, <2>3 DEF TypeOK, infos
  <2>5. EdgeTracksFlag' /\ SenderOk'
    BY <1>d, <2>3 DEF DaemonInv, EdgeTracksFlag, SenderOk
  <2>6. last \in [Gateways -> {"none", "Safety", "Unsafe"}] /\ stale \in [Gateways -> {0, 1}]
    BY DEF DaemonInv, TypeOK, STypeOK
  <2>7. Full(m) # <<>> /\ Half(m) # <<>> /\ Full(m) # Half(m)
    BY RestFacts
  <2>8. CASE /\ todo[Thread] = Full(m) /\ todo'[Thread] = Half(m)
             /\ last' = [last EXCEPT ![0] = m]
             /\ stale' = IF m = Mode(is_enable_safety) THEN stale
                         ELSE [stale EXCEPT ![0] = @ + 1]
    <3>1. m # Mode(is_enable_safety) => stale[0] = 0 /\ stale[1] = 0
      BY <2>1, <2>2, <2>8 DEF ThreadOk
    <3>2. ThreadOk(m)'
      BY <1>d, <1>g, <2>1, <2>2, <2>3, <2>6, <2>7, <2>8, <3>1 DEF ThreadOk, Rest
    <3>3. \A g \in Gateways : stale'[g] \in {0, 1}
      BY <1>g, <2>6, <2>8, <3>1
    <3>4. CauseOk'
      BY <1>t, <1>d, <1>g, <2>1, <2>2, <2>3, <2>6, <2>8 DEF CauseOk, ThreadOk, infos
    <3> QED BY <2>4, <2>5, <3>2, <3>3, <3>4 DEF DaemonInv
  <2>9. CASE /\ todo[Thread] = Half(m) /\ todo'[Thread] = <<>>
             /\ last' = [last EXCEPT ![1] = m]
             /\ stale' = IF m = Mode(is_enable_safety) THEN stale
                         ELSE [stale EXCEPT ![1] = @ + 1]
    <3>1. m # Mode(is_enable_safety) => stale[1] = 0
      BY <2>1, <2>2 DEF ThreadOk
    <3>2. ThreadOk(m)'
      BY <2>7, <2>9 DEF ThreadOk, Rest
    <3>3. \A g \in Gateways : stale'[g] \in {0, 1}
      BY <1>g, <2>6, <2>9, <3>1
    <3>4. CauseOk'
      BY <1>t, <1>d, <1>g, <2>1, <2>2, <2>3, <2>6, <2>9 DEF CauseOk, ThreadOk, infos
    <3> QED BY <2>4, <2>5, <3>2, <3>3, <3>4 DEF DaemonInv
  <2> QED BY <1>2, <1>p, <2>2, <2>8, <2>9, BroadcastStep
<1> QED BY <1>1, <1>2 DEF systemThread

\* The sender's loop.
LEMMA SenderSteps == ASSUME DaemonInv, sender PROVE DaemonInv'
<1> USE DaemonAssumption
<1>t. TypeOK /\ CauseOk /\ EdgeTracksFlag /\ SenderOk
  BY DEF DaemonInv
<1>m. safeMode = Full(Mode(FALSE)) /\ unsafeMode = Full(Mode(TRUE))
  BY ModeFacts
<1>1. ASSUME senderBoot PROVE DaemonInv'
  <2>1. Assign(Sender, FALSE, Full(Mode(FALSE)))
    BY <1>1, <1>m DEF senderBoot, safetyOff
  <2>2. befo_safety = FALSE
    BY <1>1, <1>t DEF senderBoot, SenderOk, TypeOK
  <2> QED BY <1>1, <2>1, <2>2, AssignStep DEF senderBoot
<1>2. ASSUME senderScan PROVE DaemonInv'
  <2>1. TypeOK'
    BY <1>2, <1>t DEF senderScan, TypeOK, STypeOK, svars, infos, Connected
  <2>2. CauseOk'
    BY <1>2, <1>t DEF senderScan, TypeOK, CauseOk, svars, infos, Connected
  <2> QED BY <1>2, <2>1, <2>2, QuietStep DEF senderScan
<1>3. ASSUME senderDecide PROVE DaemonInv'
  <2>1. CASE alarm = befo_safety
    <3>1. TypeOK'
      BY <1>3, <2>1, <1>t DEF senderDecide, TypeOK, STypeOK, svars, infos
    <3>2. CauseOk'
      BY <1>3, <2>1, <1>t DEF senderDecide, CauseOk, svars, infos
    <3> QED BY <1>3, <2>1, <3>1, <3>2, QuietStep DEF senderDecide
  <2>2. CASE alarm # befo_safety
    <3>1. alarm \in BOOLEAN /\ (alarm => cause)
      BY <1>t DEF TypeOK, CauseOk
    <3>2. Assign(Sender, alarm, Full(Mode(alarm)))
      <4>1. CASE alarm = TRUE
        BY <1>3, <2>2, <1>m, <4>1 DEF senderDecide, safetyOn
      <4>2. CASE alarm = FALSE
        BY <1>3, <2>2, <1>m, <4>2 DEF senderDecide, safetyOff
      <4> QED BY <3>1, <4>1, <4>2
    <3> QED BY <1>3, <2>2, <3>1, <3>2, AssignStep DEF senderDecide
  <2> QED BY <2>1, <2>2
<1>4. ASSUME senderFlash PROVE DaemonInv'
  <2>1. TypeOK'
    BY <1>4, <1>t DEF senderFlash, TypeOK, STypeOK, svars, Connected
  <2>2. CauseOk'
    BY <1>4, <1>t DEF senderFlash, CauseOk, svars
  <2> QED BY <1>4, <2>1, <2>2, QuietStep DEF senderFlash
<1>5. ASSUME senderSend PROVE DaemonInv'
  <2>0. DOMAIN <<>> = {}
    OBVIOUS
  <2>1. TypeOK'
    BY <1>5, <1>t, <2>0 DEF senderSend, TypeOK, STypeOK, svars, infos
  <2>2. CauseOk'
    BY <1>5, <1>t DEF senderSend, CauseOk, svars, infos
  <2> QED BY <1>5, <2>1, <2>2, QuietStep DEF senderSend
<1> QED BY <1>1, <1>2, <1>3, <1>4, <1>5, SenderBroadcasts DEF sender

\* The inductive step.
LEMMA DaemonInvInductive == DaemonInv /\ [Next]_vars => DaemonInv'
<1> SUFFICES ASSUME DaemonInv, [Next]_vars PROVE DaemonInv'
  OBVIOUS
<1>1. CASE UNCHANGED vars
  <2>1. TypeOK' /\ CauseOk'
    BY <1>1 DEF DaemonInv, TypeOK, STypeOK, CauseOk, vars, svars, dvars, infos
  <2> QED BY <1>1, <2>1, QuietStep DEF vars, dvars
<1> QED BY <1>1, ListSteps, SenderSteps, SystemSteps DEF Next

\* The two properties follow from the invariant: there is one caller, so one
\* stale broadcast per gateway is StaleBounded.
LEMMA DaemonInvImplies == DaemonInv => EdgeInv /\ UnsafeNeedsCause
<1> SUFFICES ASSUME DaemonInv PROVE EdgeInv /\ UnsafeNeedsCause
  OBVIOUS
<1>1. StaleBounded
  BY TwoProcesses DEF DaemonInv, StaleBounded
<1>2. UnsafeNeedsCause
  BY DEF DaemonInv, CauseOk, UnsafeNeedsCause
<1> QED BY <1>1, <1>2 DEF DaemonInv, EdgeInv

\* The chain from the controllers to the bus keeps its place for every number
\* of controllers and every timeout: the sender's memory of the last edge is
\* the flag of CSSystem, what it is sending is what the flag says, and between
\* two assignments of the flag each gateway hears at most one broadcast that
\* contradicts it, the one the safety thread had already decided on.
THEOREM EdgeCorrect == Spec => []EdgeInv
<1>1. Init => DaemonInv
  BY DaemonInvInit
<1>2. DaemonInv /\ [Next]_vars => DaemonInv'
  BY DaemonInvInductive
<1>3. DaemonInv => EdgeInv
  BY DaemonInvImplies
<1> QED BY <1>1, <1>2, <1>3, PTL DEF Spec

\* No emergency out of nothing: whatever the uninitialised is_safety of an
\* appended controller holds and however the threads start, Unsafe is not
\* broadcast before a controller asked for it or the timeout passed.
THEOREM NoUnsafeWithoutCause == Spec => []UnsafeNeedsCause
<1>1. Init => DaemonInv
  BY DaemonInvInit
<1>2. DaemonInv /\ [Next]_vars => DaemonInv'
  BY DaemonInvInductive
<1>3. DaemonInv => UnsafeNeedsCause
  BY DaemonInvImplies
<1> QED BY <1>1, <1>2, <1>3, PTL DEF Spec

-----------------------------------------------------------------------------
(* The game pad.                                                           *)

\* Counting on in a machine integer.
LEMMA ModSucc ==
    ASSUME NEW m \in Nat \ {0}, NEW n \in 0 .. m - 1
    PROVE  (n + 1) % m = IF n = m - 1 THEN 0 ELSE n + 1
OBVIOUS

\* One part of a pair is replaced.
LEMMA PairExcept ==
    ASSUME NEW S, NEW t \in S \X S, NEW v \in S
    PROVE  /\ [t EXCEPT ![1] = v] = <<v, t[2]>>
           /\ [t EXCEPT ![2] = v] = <<t[1], v>>
OBVIOUS

\* The other half of the double buffer.
LEMMA Parity ==
    ASSUME NEW n \in Nat
    PROVE  /\ n % 2 \in {0, 1}
           /\ (n + 1) % 2 = 1 - (n % 2)
OBVIOUS
\* It is the half that m_packet_flg + 1 selects, also when that wraps.
LEMMA ParityWrap ==
    ASSUME NEW m \in Nat \ {0}, m % 2 = 0, NEW n \in 0 .. m - 1
    PROVE  ((n + 1) % m) % 2 = 1 - (n % 2)
<1>1. CASE n = m - 1
  <2>1. (n + 1) % m = 0
    BY <1>1, ModSucc
  <2>2. (n + 1) % 2 = 0
    BY <1>1
  <2>3. (n + 1) % 2 = 1 - (n % 2)
    BY Parity
  <2>4. 0 % 2 = 0
    OBVIOUS
  <2> QED BY <2>1, <2>2, <2>3, <2>4
<1>2. CASE n # m - 1
  BY <1>2, ModSucc, Parity
<1> QED BY <1>1, <1>2

\* The newest packet get_sensor can see, and the half that holds it.
Newest == IF cpc \in {"copy1", "copy2"} THEN value - 1 ELSE value
Shown  == m_packet_flg % 2

\* One press: until the threshold the counter counts the packets; beyond it
\* only m_safety_changed is relied on, so the counter may wrap.
PressOk ==
    /\ toggles = IF held > HoldCount THEN 1 ELSE 0
    /\ m_safety_changed <=> held > HoldCount
    /\ held <= HoldCount => m_safety_count = held
    /\ held <= value /\ (cpc # "idle" => held < value)

\* The shown half is whole; a reader's half is overwritten only after a newer
\* packet was shown in the other one.
HalvesOk ==
    /\ m_packet[Shown] = <<Newest, Newest>>
    /\ cpc = "copy2" => m_packet[1 - Shown][1] = value
    /\ cpc # "idle" => value > 0

ReaderOk ==
    /\ begun <= Newest
    /\ gpc = "idle" /\ value <= begun + 1 => got[1] = got[2]
    /\ gpc = "half" => /\ got[1] = begun
                       /\ gsrc # Shown => begun < Newest
                       /\ value <= begun + 1 => m_packet[gsrc][2] = begun

PadStrong == PadTypeOK /\ PressOk /\ HalvesOk /\ ReaderOk

-----------------------------------------------------------------------------
\* The initial pad.
LEMMA PadInitial == PadInit => PadStrong
<1> SUFFICES ASSUME PadInit PROVE PadStrong
  OBVIOUS
<1>c. /\ HoldCount \in Nat /\ CountMod \in Nat /\ HoldCount + 1 < CountMod
      /\ FlgMod \in Nat \ {0} /\ MaxValue \in Nat
  BY ControllerAssumption
<1>1. Shown = 0
  BY DEF Shown, PadInit
<1>2. PadTypeOK
  <2>1. 0 \in 0 .. MaxValue /\ 0 \in 0 .. CountMod - 1 /\ 0 \in 0 .. FlgMod - 1
    BY <1>c
  <2>2. <<0, 0>> \in (0 .. MaxValue) \X (0 .. MaxValue)
    BY <2>1
  <2>3. m_packet \in [{0, 1} -> (0 .. MaxValue) \X (0 .. MaxValue)]
    BY <2>2 DEF PadInit
  <2> QED BY <2>1, <2>2, <2>3 DEF PadInit, PadTypeOK
<1>3. PressOk /\ HalvesOk /\ ReaderOk
  BY <1>c, <1>1 DEF PadInit, PressOk, HalvesOk, ReaderOk, Newest
<1> QED BY <1>2, <1>3 DEF PadStrong

\* A packet arrives: nothing is shown yet.
LEMMA PadReceive == ASSUME PadStrong, receive PROVE PadStrong'
<1>c. MaxValue \in Nat
  BY ControllerAssumption
<1>t. PadTypeOK /\ value \in Nat /\ begun \in Nat /\ held \in Nat
  BY <1>c DEF PadStrong, PadTypeOK
<1>1. PadTypeOK'
  BY <1>c, <1>t DEF PadTypeOK, receive, cvars, gvars
<1>2. Shown' = Shown /\ Newest' = Newest
  BY <1>t DEF Shown, Newest, receive
<1>3. PressOk'
  BY <1>t DEF PadStrong, PressOk, receive, cvars
<1>4. HalvesOk'
  BY <1>t, <1>2 DEF PadStrong, HalvesOk, receive
<1>5. ReaderOk'
  BY <1>t, <1>2 DEF PadStrong, ReaderOk, receive, gvars
<1> QED BY <1>1, <1>3, <1>4, <1>5 DEF PadStrong

\* The two steps of the copy: the second shows the packet.
LEMMA PadCopy == ASSUME PadStrong, callbackCopy PROVE PadStrong'
<1> DEFINE Stamp == 0 .. MaxValue
           o == 1 - Shown
<1>t. PadTypeOK /\ value \in Nat /\ begun \in Nat /\ held \in Nat
      /\ m_packet_flg \in Nat /\ m_packet_flg \in 0 .. FlgMod - 1
      /\ value \in Stamp /\ m_packet \in [{0, 1} -> Stamp \X Stamp]
      /\ cpc \in {"idle", "copy1", "copy2", "button"}
      /\ gsrc \in {0, 1}
  BY ControllerAssumption DEF PadStrong, PadTypeOK
<1>c. FlgMod \in Nat \ {0} /\ FlgMod % 2 = 0 /\ MaxValue \in Nat
  BY ControllerAssumption
<1>o. Other = o /\ Shown \in {0, 1} /\ o \in {0, 1} /\ o # Shown
  BY <1>t, Parity DEF Other, Shown
<1>p. m_packet[o] \in Stamp \X Stamp /\ m_packet[Shown] \in Stamp \X Stamp
  BY <1>t, <1>o
<1> HIDE DEF Stamp, o
<1>1. CASE cpc = "copy1"
  <2>1. /\ cpc' = "copy2" /\ m_packet' = [m_packet EXCEPT ![o] = [m_packet[o] EXCEPT ![1] = value]]
        /\ UNCHANGED <<cvars, m_packet_flg, value, button, gvars>>
    BY <1>1, <1>o, <1>t DEF callbackCopy
  <2>a. \A t \in Stamp \X Stamp : [t EXCEPT ![1] = value] = <<value, t[2]>>
    BY <1>t, PairExcept
  <2>b. [m_packet[o] EXCEPT ![1] = value] = <<value, m_packet[o][2]>>
    BY <2>a, <1>p, Zenon
  <2>2. m_packet' = [m_packet EXCEPT ![o] = <<value, m_packet[o][2]>>]
    BY <2>1, <2>b, Zenon
  <2>3. <<value, m_packet[o][2]>> \in Stamp \X Stamp
    BY <1>p, <1>t
  <2>4. m_packet' \in [{0, 1} -> Stamp \X Stamp]
    BY <2>2, <2>3, <1>t, <1>o
  <2>5. PadTypeOK'
    BY <1>t, <2>1, <2>4 DEF PadTypeOK, cvars, gvars, Stamp
  <2>6. Shown' = Shown /\ Newest' = Newest
    BY <1>1, <2>1 DEF Shown, Newest
  <2>7. PressOk'
    BY <1>1, <2>1 DEF PadStrong, PressOk, cvars
  <2>8. m_packet'[Shown] = m_packet[Shown] /\ m_packet'[o] = <<value, m_packet[o][2]>>
    BY <2>2, <1>t, <1>o
  <2>9. HalvesOk'
    BY <1>1, <2>1, <2>6, <2>8 DEF PadStrong, HalvesOk, o
  <2>10. \A h \in {0, 1} : m_packet'[h][2] = m_packet[h][2]
    BY <2>8, <1>o
  <2>11. ReaderOk'
    BY <1>t, <2>1, <2>6, <2>10 DEF PadStrong, ReaderOk, gvars
  <2> QED BY <2>5, <2>7, <2>9, <2>11 DEF PadStrong
<1>2. CASE cpc = "copy2"
  <2>1. /\ cpc' = "button" /\ m_packet' = [m_packet EXCEPT ![o] = [m_packet[o] EXCEPT ![2] = value]]
        /\ m_packet_flg' = (m_packet_flg + 1) % FlgMod
        /\ UNCHANGED <<cvars, value, button, gvars>>
    BY <1>2, <1>o, <1>t DEF callbackCopy
  <2>a. \A t \in Stamp \X Stamp : [t EXCEPT ![2] = value] = <<t[1], value>>
    BY <1>t, PairExcept
  <2>b. [m_packet[o] EXCEPT ![2] = value] = <<m_packet[o][1], value>>
    BY <2>a, <1>p, Zenon
  <2>c. m_packet[o][1] = value
    BY <1>2 DEF PadStrong, HalvesOk, o
  <2>2. m_packet' = [m_packet EXCEPT ![o] = <<value, value>>]
    BY <2>1, <2>b, <2>c, Zenon
  <2>3. <<value, value>> \in Stamp \X Stamp
    BY <1>t
  <2>4. m_packet' \in [{0, 1} -> Stamp \X Stamp]
    BY <2>2, <2>3, <1>t, <1>o
  <2>5. m_packet_flg' \in 0 .. FlgMod - 1 /\ Shown' = o
    <3>1. m_packet_flg' \in 0 .. FlgMod - 1
      BY <1>c, <1>t, <2>1, ModSucc
    <3>2. ((m_packet_flg + 1) % FlgMod) % 2 = 1 - (m_packet_flg % 2)
      BY <1>c, <1>t, ParityWrap
    <3>3. Shown' = ((m_packet_flg + 1) % FlgMod) % 2
      BY <2>1, Zenon DEF Shown
    <3>4. o = 1 - (m_packet_flg % 2)
      BY DEF Shown, o
    <3> QED BY <3>1, <3>2, <3>3, <3>4, Zenon
  <2>6. PadTypeOK'
    BY <1>t, <2>1, <2>4, <2>5 DEF PadTypeOK, cvars, gvars, Stamp
  <2>7. Newest = value - 1 /\ Newest' = value
    BY <1>2, <2>1 DEF Newest
  <2>8. PressOk'
    BY <1>2, <2>1 DEF PadStrong, PressOk, cvars
  <2>9. m_packet'[Shown] = m_packet[Shown] /\ m_packet'[o] = <<value, value>>
    BY <2>2, <1>t, <1>o
  <2>10. HalvesOk'
    BY <1>2, <2>1, <2>5, <2>7, <2>9 DEF PadStrong, HalvesOk
  <2>11. ReaderOk'
    <3>1. gsrc = o => begun < Newest \/ gpc # "half"
      BY <1>o DEF PadStrong, ReaderOk
    <3>2. gsrc = o \/ gsrc = Shown
      BY <1>t, <1>o
    <3>3. UNCHANGED <<gpc, gsrc, got, begun, value>>
      BY <2>1 DEF gvars
    <3>4. gsrc = Shown => m_packet'[gsrc][2] = m_packet[gsrc][2]
      BY <2>9
    <3>5. begun <= Newest
      BY DEF PadStrong, ReaderOk
    <3>6. gpc = "half" => /\ got[1] = begun
                          /\ gsrc # o => begun < value
                          /\ value <= begun + 1 => m_packet'[gsrc][2] = begun
      BY <1>t, <2>7, <3>1, <3>2, <3>4, <3>5 DEF PadStrong, ReaderOk
    <3>7. gpc = "idle" /\ value <= begun + 1 => got[1] = got[2]
      BY DEF PadStrong, ReaderOk
    <3>8. begun <= value
      BY <1>t, <2>7, <3>5
    <3> QED BY <2>5, <2>7, <3>3, <3>6, <3>7, <3>8 DEF ReaderOk
  <2> QED BY <2>6, <2>8, <2>10, <2>11 DEF PadStrong
<1> QED BY <1>1, <1>2 DEF callbackCopy

\* The emergency button of the packet.
LEMMA PadButton == ASSUME PadStrong, callbackButton PROVE PadStrong'
<1>c. HoldCount \in Nat /\ CountMod \in Nat \ {0} /\ HoldCount + 1 < CountMod
  BY ControllerAssumption
<1>t. /\ PadTypeOK /\ value \in Nat /\ begun \in Nat /\ held \in Nat /\ toggles \in Nat
      /\ m_safety_count \in 0 .. CountMod - 1 /\ m_safety_changed \in BOOLEAN
      /\ button \in BOOLEAN /\ value <= MaxValue /\ MaxValue \in Nat
  BY ControllerAssumption DEF PadStrong, PadTypeOK
<1>b. /\ cpc = "button" /\ cpc' = "idle" /\ held' = IF button THEN held + 1 ELSE 0
      /\ UNCHANGED <<m_packet_flg, m_packet, value, button, gvars>>
  BY DEF callbackButton
<1>h. held < value
  BY <1>b DEF PadStrong, PressOk
<1>f. ASSUME NEW changed \in BOOLEAN, changed = ChangedAfter,
             NEW toggle \in BOOLEAN, toggle = (~changed /\ HoldCount < CountAfter)
      PROVE  /\ m_safety_count' = CountAfter /\ m_safety_changed' = (changed \/ toggle)
             /\ m_safety_flg' = IF toggle THEN ~m_safety_flg ELSE m_safety_flg
             /\ toggles' = (IF button THEN toggles ELSE 0) + (IF toggle THEN 1 ELSE 0)
  BY <1>f, Zenon DEF callbackButton
<1>r. ASSUME m_safety_count' \in 0 .. CountMod - 1, m_safety_changed' \in BOOLEAN,
             m_safety_flg' \in BOOLEAN, toggles' \in Nat, held' \in 0 .. value, PressOk'
      PROVE  PadStrong'
  <2>1. held' \in 0 .. MaxValue
    BY <1>r, <1>t
  <2>2. UNCHANGED <<m_packet_flg, m_packet, value, button, gpc, gsrc, got, begun>>
    BY <1>b DEF gvars
  <2>3. PadTypeOK'
    BY <1>t, <1>b, <1>r, <2>1, <2>2 DEF PadTypeOK
  <2> QED BY <1>b, <1>r, <2>2, <2>3 DEF PadStrong, HalvesOk, ReaderOk, Newest, Shown
<1>g. m_safety_flg \in BOOLEAN /\ (~m_safety_flg) \in BOOLEAN
  BY <1>t DEF PadTypeOK
<1>1. CASE button = FALSE
  <2>1. CountAfter = 0
    BY <1>1 DEF CountAfter
  <2>2. ChangedAfter = FALSE /\ ~(HoldCount < 0)
    BY <1>1, <1>c DEF ChangedAfter
  <2>3. /\ m_safety_count' = 0 /\ m_safety_changed' = FALSE /\ m_safety_flg' = m_safety_flg
        /\ toggles' = 0 + 0
    BY <1>1, <1>f, <2>1, <2>2
  <2>4. held' = 0 /\ toggles' = 0
    BY <1>1, <1>b, <2>3
  <2>5. PressOk'
    BY <1>c, <1>t, <1>b, <2>3, <2>4 DEF PressOk
  <2>6. m_safety_changed' \in BOOLEAN /\ m_safety_flg' \in BOOLEAN
    BY <1>g, <2>3, Zenon
  <2>7. toggles' \in Nat /\ held' \in 0 .. value /\ m_safety_count' \in 0 .. CountMod - 1
    BY <1>c, <1>t, <2>3, <2>4
  <2> QED BY <1>r, <2>5, <2>6, <2>7, Zenon
<1>2. CASE button = TRUE /\ held > HoldCount
  <2>1. m_safety_changed = TRUE /\ toggles = 1
    BY <1>2, <1>t DEF PadStrong, PressOk
  <2>2. ChangedAfter = TRUE
    BY <1>2, <2>1 DEF ChangedAfter
  <2>3. CountAfter \in 0 .. CountMod - 1
    BY <1>2, <1>c, <1>t, ModSucc DEF CountAfter
  <2>4. /\ m_safety_count' \in 0 .. CountMod - 1 /\ m_safety_changed' = TRUE
        /\ m_safety_flg' = m_safety_flg /\ toggles' = toggles + 0
    BY <1>2, <1>f, <2>2, <2>3
  <2>5. held' = held + 1 /\ toggles' = 1
    BY <1>2, <1>b, <2>1, <2>4
  <2>6. PressOk'
    BY <1>2, <1>c, <1>t, <1>b, <1>h, <2>4, <2>5 DEF PressOk
  <2> QED BY <1>t, <1>h, <1>g, <1>r, <2>4, <2>5, <2>6
<1>3. CASE button = TRUE /\ held <= HoldCount
  <2>1. m_safety_changed = FALSE /\ toggles = 0 /\ m_safety_count = held
    BY <1>3, <1>c, <1>t DEF PadStrong, PressOk
  <2>2. ChangedAfter = FALSE
    BY <2>1 DEF ChangedAfter
  <2>3. CountAfter = held + 1
    BY <1>3, <1>c, <1>t, <2>1, ModSucc DEF CountAfter
  <2>4. held' = held + 1 /\ held + 1 \in 0 .. CountMod - 1
    BY <1>3, <1>b, <1>c, <1>t
  <2>5. CASE HoldCount < held + 1
    <3>1. /\ m_safety_count' = held + 1 /\ m_safety_changed' = TRUE
          /\ m_safety_flg' = ~m_safety_flg /\ toggles' = toggles + 1
      BY <1>3, <1>f, <2>2, <2>3, <2>5
    <3>2. PressOk'
      BY <1>3, <1>c, <1>t, <1>b, <1>h, <2>1, <2>4, <2>5, <3>1 DEF PressOk
    <3>3. m_safety_changed' \in BOOLEAN /\ m_safety_flg' \in BOOLEAN
      BY <1>g, <3>1, Zenon
    <3>4. toggles' \in Nat /\ held' \in 0 .. value /\ m_safety_count' \in 0 .. CountMod - 1
      BY <1>t, <1>h, <2>1, <2>4, <3>1
    <3> QED BY <1>r, <3>2, <3>3, <3>4, Zenon
  <2>6. CASE ~(HoldCount < held + 1)
    <3>1. /\ m_safety_count' = held + 1 /\ m_safety_changed' = FALSE
          /\ m_safety_flg' = m_safety_flg /\ toggles' = toggles + 0
      BY <1>3, <1>f, <2>2, <2>3, <2>6
    <3>2. PressOk'
      BY <1>3, <1>c, <1>t, <1>b, <1>h, <2>1, <2>4, <2>6, <3>1 DEF PressOk
    <3>3. m_safety_changed' \in BOOLEAN /\ m_safety_flg' \in BOOLEAN
      BY <1>g, <3>1, Zenon
    <3>4. toggles' \in Nat /\ held' \in 0 .. value /\ m_safety_count' \in 0 .. CountMod - 1
      BY <1>t, <1>h, <2>1, <2>4, <3>1
    <3> QED BY <1>r, <3>2, <3>3, <3>4, Zenon
  <2> QED BY <2>5, <2>6
<1>4. held > HoldCount \/ held <= HoldCount
  BY <1>c, <1>t
<1> QED BY <1>t, <1>1, <1>2, <1>3, <1>4, Zenon

\* The application reads the pad.
LEMMA PadGet == ASSUME PadStrong, get_sensor PROVE PadStrong'
<1> DEFINE Stamp == 0 .. MaxValue
<1>t. /\ PadTypeOK /\ value \in Nat /\ begun \in Nat /\ m_packet_flg \in Nat
      /\ m_packet \in [{0, 1} -> Stamp \X Stamp] /\ got \in Stamp \X Stamp
      /\ gpc \in {"idle", "half"} /\ gsrc \in {0, 1} /\ MaxValue \in Nat
      /\ cpc \in {"idle", "copy1", "copy2", "button"} /\ value <= MaxValue
  BY ControllerAssumption DEF PadStrong, PadTypeOK
<1>s. Shown \in {0, 1}
  BY <1>t, Parity DEF Shown
<1>u. UNCHANGED <<cvars, bvars>> /\ Shown' = Shown /\ Newest' = Newest
  BY DEF get_sensor, bvars, Shown, Newest
<1>v. UNCHANGED <<m_safety_count, m_safety_changed, m_safety_flg, toggles, held, m_packet_flg,
                  m_packet, cpc, value, button>>
  BY <1>u DEF cvars, bvars
<1>n. Newest \in Stamp /\ Newest \in Nat
  BY <1>t DEF Newest, PadStrong, HalvesOk
<1>1. PressOk' /\ HalvesOk'
  BY <1>u, <1>v DEF PadStrong, PressOk, HalvesOk
<1>2. CASE gpc = "idle"
  <2>1. /\ gpc' = "half" /\ gsrc' = Shown /\ begun' = Newest
        /\ got' = [got EXCEPT ![1] = m_packet[Shown][1]]
    BY <1>2 DEF get_sensor, Shown, Newest
  <2>2. got' = <<Newest, got[2]>>
    BY <2>1, <1>t, <1>n, PairExcept DEF PadStrong, HalvesOk
  <2>3. got' \in Stamp \X Stamp
    BY <2>2, <1>t, <1>n
  <2>4. PadTypeOK'
    BY <1>t, <1>v, <1>s, <1>n, <2>1, <2>3 DEF PadTypeOK
  <2>5. ReaderOk'
    BY <1>u, <1>v, <1>n, <2>1, <2>2 DEF ReaderOk, PadStrong, HalvesOk
  <2> QED BY <1>1, <2>4, <2>5 DEF PadStrong
<1>3. CASE gpc = "half"
  <2>1. /\ gpc' = "idle" /\ gsrc' = gsrc /\ begun' = begun
        /\ got' = [got EXCEPT ![2] = m_packet[gsrc][2]]
    BY <1>3 DEF get_sensor
  <2>2. m_packet[gsrc][2] \in Stamp
    BY <1>t
  <2>3. got' = <<got[1], m_packet[gsrc][2]>>
    BY <2>1, <2>2, <1>t, PairExcept
  <2>4. got' \in Stamp \X Stamp
    BY <2>2, <2>3, <1>t
  <2>5. PadTypeOK'
    BY <1>t, <1>v, <2>1, <2>4 DEF PadTypeOK
  <2>6. ReaderOk'
    BY <1>3, <1>u, <1>v, <2>1, <2>3 DEF ReaderOk, PadStrong
  <2> QED BY <1>1, <2>5, <2>6 DEF PadStrong
<1> QED BY <1>t, <1>2, <1>3

\* The inductive step.
LEMMA PadInductive == PadStrong /\ [PadNext]_padVars => PadStrong'
<1> SUFFICES ASSUME PadStrong, [PadNext]_padVars PROVE PadStrong'
  OBVIOUS
<1>1. CASE UNCHANGED padVars
  BY <1>1 DEF padVars, cvars, bvars, gvars, PadStrong, PadTypeOK, PressOk,
              HalvesOk, ReaderOk, Newest, Shown
<1> QED BY <1>1, PadReceive, PadCopy, PadButton, PadGet DEF PadNext

\* Holding the emergency button toggles the flag exactly once, for every
\* threshold and every width of the counter that exceeds it by two: also when
\* the button is held so long that the counter wraps and passes it again.
THEOREM PadCorrect == PadSpec => []PadInv
<1>1. PadInit => PadStrong
  BY PadInitial
<1>2. PadStrong /\ [PadNext]_padVars => PadStrong'
  BY PadInductive
<1>3. PadStrong => PadInv
  BY DEF PadStrong, PressOk, PadInv, OneTogglePerPress
<1> QED BY <1>1, <1>2, <1>3, PTL DEF PadSpec

\* get_sensor without a lock returns one packet as long as at most one packet
\* arrives during its copy, whatever half it started on.
THEOREM ReadNotTorn == PadSpec => []NoTornRead
<1>1. PadInit => PadStrong
  BY PadInitial
<1>2. PadStrong /\ [PadNext]_padVars => PadStrong'
  BY PadInductive
<1>3. PadStrong => NoTornRead
  BY DEF PadStrong, ReaderOk, NoTornRead
<1> QED BY <1>1, <1>2, <1>3, PTL DEF PadSpec
=============================================================================
