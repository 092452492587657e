-------------------------------- MODULE CSRx ---------------------------------
(***************************************************************************)
(* pkg/can_smbus/src/core/io/cs_rx.c: the registry of receive callbacks of *)
(* one gateway and the receive thread that runs them.                      *)
(*                                                                         *)
(* A client is one (callback, args) pair with the place it is bound to: a  *)
(* device id and one of the lists of its deviceInfo, or a broadcast list.  *)
(* Clients are the objects of CSRegShare, CSRegSignal, CSSendAck,          *)
(* CSRequest and CSArp; each binds and closes itself once at a time.       *)
(* One mutex protects the registry and stays locked while callbacks run;   *)
(* bind and close are one step each because they hold it throughout.       *)
(***************************************************************************)
EXTENDS CSType, CSCallbackList

CONSTANTS
    Clients,
    IdOf,       \* client -> the id it passes
    ListOf,     \* client -> its list: <<"regs", channel, reg>>, <<"reg_acks", channel>>,
                \*           <<"req_acks", channel>> or <<"brc_callbacks", reg>>
    Regs        \* the registers in use

(* The lists of a deviceInfo, and those of the gateway.                    *)
DevLists == ({"regs"} \X Channels \X Regs) \cup ({"reg_acks", "req_acks"} \X Channels)
BrcLists == {"brc_callbacks"} \X Regs

LegalIds == {IdOf[k] : k \in {c \in Clients : ArgsLegal(0, IdOf[c], 0)}}
Cells    == {DevIndex(d) : d \in LegalIds}
NoFrame  == <<>>

(* Register numbers have 4 bits, ids are standard CAN identifiers.         *)
ASSUME RxAssumption ==
    /\ Regs \subseteq 0 .. 15
    /\ IdOf \in [Clients -> 0 .. 2047] /\ ListOf \in [Clients -> DevLists \cup BrcLists]

VARIABLES
    alloc,          \* cell of devs -> its deviceInfo is allocated
    lists,          \* cell of devs -> list -> bound clients, in order
    brc_callbacks,
    locked,         \* the mutex is held by the receive thread
    frame,          \* the frame the receive thread works on
    calling,        \* it has been dispatched
    next,           \* position of the next callback to call
    asked,          \* history: clients that called bind and not yet close
    meant,          \* history: <<device, list>> the sender of frame meant
    called          \* history: clients called for frame, in order

registry == <<alloc, lists, brc_callbacks>>
thread   == <<locked, frame, calling, next, meant, called>>
vars     == <<registry, thread, asked>>

-----------------------------------------------------------------------------
(* What a device with number d puts on the bus (its firmware mirrors the   *)
(* encoders of cs_tx.c): a value of a register, the answer to an           *)
(* acknowledged write or request, a broadcast.                             *)
DeviceFrame(d, list, r) ==
    [id |-> DRIV_ID(d), len |-> 2,
     reg   |-> CASE list[1] = "regs" -> sendRegByte(r, list[2])
                 [] list[1] = "brc_callbacks" -> BRC_REG(r)
                 [] OTHER -> ACK_REG(r),
     data0 |-> CASE list[1] = "reg_acks" -> sendRegAckByte(r, list[2])
                 [] list[1] = "req_acks" -> sendReqAckByte(r, list[2])
                 [] OTHER -> 0]

(* Frames meant for no callback: those of a host, requests, and answers    *)
(* cut to one byte.                                                        *)
OtherFrames(d, r, channel) ==
    {[id |-> HOST_ID(d), len |-> 2, reg |-> sendRegByte(r, channel), data0 |-> 0],
     [id |-> HOST_ID(d), len |-> 2, reg |-> ACK_REG(r), data0 |-> sendRegAckByte(r, channel)],
     [id |-> DRIV_ID(d), len |-> 2, reg |-> sendReqByte(r, channel), data0 |-> 0],
     [id |-> DRIV_ID(d), len |-> 2, reg |-> ACK_REG(r), data0 |-> sendRegByte(r, channel)],
     [id |-> DRIV_ID(d), len |-> 1, reg |-> ACK_REG(r), data0 |-> sendRegAckByte(r, channel)]}

-----------------------------------------------------------------------------
Init ==
    /\ alloc = [c \in Cells |-> FALSE]
    /\ lists = [c \in Cells |-> [l \in DevLists |-> <<>>]]
    /\ brc_callbacks = [l \in BrcLists |-> <<>>]
    /\ locked = FALSE /\ frame = NoFrame /\ calling = FALSE /\ next = 1
    /\ asked = {} /\ meant = <<>> /\ called = <<>>

(* CSRx_bindReg, bindRegAck, bindReqAck: deviceInfoCreate, callbackListAdd. *)
bind(k) ==
    LET c == DevIndex(IdOf[k])  l == ListOf[k] IN
    /\ l \in DevLists /\ k \notin asked /\ ~locked
    /\ asked' = asked \cup {k}
    /\ IF ArgsLegal(0, IdOf[k], 0)
         THEN /\ alloc' = [alloc EXCEPT ![c] = TRUE]
              /\ lists' = [lists EXCEPT ![c][l] = callbackListAdd(@, k)]
         ELSE UNCHANGED <<alloc, lists>>
    /\ UNCHANGED <<brc_callbacks, thread>>

(* CSRx_bindBrc passes the id 0x201 to the checker of the arguments.       *)
BrcId == 513
bindBrc(k) ==
    /\ ListOf[k] \in BrcLists /\ k \notin asked /\ ~locked
    /\ asked' = asked \cup {k}
    /\ brc_callbacks' = IF ArgsLegal(0, BrcId, 0)
                           THEN [brc_callbacks EXCEPT ![ListOf[k]] = callbackListAdd(@, k)]
                           ELSE brc_callbacks
    /\ UNCHANGED <<alloc, lists, thread>>

(* Mutants: close does not take the mutex; only the list of the client is  *)
(* looked at before the deviceInfo is freed.                               *)
closeUnlocked(k) ==
    LET c == DevIndex(IdOf[k])  l == ListOf[k]
        left == [lists[c] EXCEPT ![l] = callbackListClose(@, k)]
    IN
    /\ l \in DevLists /\ k \in asked
    /\ asked' = asked \ {k}
    /\ IF ArgsLegal(0, IdOf[k], 0) /\ alloc[c] /\ left # lists[c]
         THEN /\ lists' = [lists EXCEPT ![c] = left]
              /\ alloc' = [alloc EXCEPT ![c] = \E m \in DevLists : left[m] # <<>>]
         ELSE UNCHANGED <<alloc, lists>>
    /\ UNCHANGED <<brc_callbacks, thread>>
closeFreeing(k) ==
    LET c == DevIndex(IdOf[k])  l == ListOf[k]
        left == [lists[c] EXCEPT ![l] = callbackListClose(@, k)]
    IN
    /\ l \in DevLists /\ k \in asked /\ ~locked
    /\ asked' = asked \ {k}
    /\ IF ArgsLegal(0, IdOf[k], 0) /\ alloc[c] /\ left # lists[c]
         THEN /\ lists' = [lists EXCEPT ![c] = left]
              /\ alloc' = [alloc EXCEPT ![c] = left[l] # <<>>]
         ELSE UNCHANGED <<alloc, lists>>
    /\ UNCHANGED <<brc_callbacks, thread>>

(* CSRx_closeReg, closeRegAck, closeReqAck: callbackListClose, then        *)
(* deviceInfoClose frees the deviceInfo whose lists are all empty.         *)
close(k) ==
    LET c == DevIndex(IdOf[k])  l == ListOf[k]
        left == [lists[c] EXCEPT ![l] = callbackListClose(@, k)]
    IN
    /\ l \in DevLists /\ k \in asked /\ ~locked
    /\ asked' = asked \ {k}
    /\ IF ArgsLegal(0, IdOf[k], 0) /\ alloc[c] /\ left # lists[c]
         THEN /\ lists' = [lists EXCEPT ![c] = left]
              /\ alloc' = [alloc EXCEPT ![c] = \E m \in DevLists : left[m] # <<>>]
         ELSE UNCHANGED <<alloc, lists>>
    /\ UNCHANGED <<brc_callbacks, thread>>

closeBrc(k) ==
    /\ ListOf[k] \in BrcLists /\ k \in asked /\ ~locked
    /\ asked' = asked \ {k}
    /\ brc_callbacks' = IF ArgsLegal(0, BrcId, 0)
                           THEN [brc_callbacks EXCEPT ![ListOf[k]] = callbackListClose(@, k)]
                           ELSE brc_callbacks
    /\ UNCHANGED <<alloc, lists, thread>>

-----------------------------------------------------------------------------
(* The next frame of the pack CSIo_read returned.                          *)
receive(f, m) ==
    /\ frame = NoFrame
    /\ frame' = f /\ meant' = m
    /\ UNCHANGED <<registry, locked, calling, next, called, asked>>

Target == Route(frame.id, frame.reg, frame.len, frame.data0)

(* The list regCallback, ackCallback or brcCallback goes through, under    *)
(* the mutex; a device without deviceInfo is only reported.                *)
Current ==
    LET c == DevIndex(NUMBER_ID(frame.id)) IN
    CASE Target[1] = "none"          -> <<>>
      [] Target[1] = "brc_callbacks" -> brc_callbacks[Target]
      [] OTHER -> IF c \in Cells /\ alloc[c] THEN lists[c][Target] ELSE <<>>

(* receiveThread dispatches the frame: regCallback, ackCallback or         *)
(* brcCallback takes the mutex; other frames are only reported.            *)
dispatch ==
    /\ frame # NoFrame /\ ~calling /\ ~locked
    /\ calling' = TRUE /\ locked' = (Target[1] # "none")
    /\ UNCHANGED <<registry, frame, next, meant, called, asked>>

(* callbackListCall runs the callbacks one after the other.                *)
callNext ==
    /\ calling /\ next <= Len(Current)
    /\ called' = Append(called, Current[next])
    /\ next' = next + 1
    /\ UNCHANGED <<registry, locked, frame, calling, meant, asked>>

callDone ==
    /\ calling /\ next > Len(Current)
    /\ locked' = FALSE /\ frame' = NoFrame /\ calling' = FALSE /\ next' = 1
    /\ meant' = <<>> /\ called' = <<>>
    /\ UNCHANGED <<registry, asked>>

Next ==
    \/ \E k \in Clients : bind(k) \/ close(k) \/ bindBrc(k) \/ closeBrc(k)
    \/ \E d \in LegalIds, l \in DevLists \cup BrcLists, r \in Regs :
          /\ l[1] = "regs" => r = l[3]
          /\ l[1] = "brc_callbacks" => r = l[2]
          /\ receive(DeviceFrame(d, l, r), <<d, l>>)
    \/ \E d \in LegalIds, r \in Regs, channel \in Channels :
          \E f \in OtherFrames(d, r, channel) : receive(f, <<>>)
    \/ dispatch
    \/ callNext
    \/ callDone

Spec == Init /\ [][Next]_vars

-----------------------------------------------------------------------------
TypeOK ==
    /\ alloc \in [Cells -> BOOLEAN]
    /\ lists \in [Cells -> [DevLists -> Seq(Clients)]]
    /\ brc_callbacks \in [BrcLists -> Seq(Clients)]
    /\ locked \in BOOLEAN /\ calling \in BOOLEAN /\ next \in Nat
    /\ meant = <<>> \/ meant \in LegalIds \X (DevLists \cup BrcLists)
    /\ asked \subseteq Clients /\ called \in Seq(Clients)

(* A callback never runs for a client that has closed itself: the args of  *)
(* CSRequest_sendAck are on its stack and are gone once close returns.     *)
NoCallAfterClose ==
    calling => /\ \A i \in 1 .. Len(called) : called[i] \in asked
               /\ next <= Len(Current) + 1

(* A device's table exists exactly while some client is bound to it: no    *)
(* leak after the last close, no table missing before it.                  *)
AllocatedIffBound ==
    \A c \in Cells :
        alloc[c] <=> \E k \in asked : /\ ListOf[k] \in DevLists
                                      /\ ArgsLegal(0, IdOf[k], 0) /\ DevIndex(IdOf[k]) = c

(* The registry is well formed, and holds a table per device in use.       *)
RegistryInv == TypeOK /\ AllocatedIffBound

(* The clients bound to what the sender of the frame meant.                *)
MeantFor == IF meant = <<>> THEN {}
            ELSE {k \in asked : /\ ListOf[k] = meant[2]
                                /\ meant[2] \in BrcLists \/ IdOf[k] = meant[1]}

CalledSet == {called[i] : i \in 1 .. Len(called)}

(* Through encoder, register byte, decoder and registry: when a device's   *)
(* frame has been dispatched, exactly the clients bound to the device,     *)
(* kind, channel and register it meant have been called, once each; a      *)
(* host's own frame, a request or a cut answer calls nobody.               *)
BoundAreCalled ==
    calling /\ next > Len(Current) /\ (meant = <<>> \/ meant[2] \in DevLists)
    => /\ CalledSet = MeantFor
       /\ \A i, j \in 1 .. Len(called) : called[i] = called[j] => i = j

(* cs_rx.h: "If it receive a data that is the same id and reg, the         *)
(* callback will be called", for broadcast registers as for the others.    *)
CallbackWillBeCalled ==
    calling /\ next > Len(Current) => MeantFor \subseteq CalledSet
=============================================================================
