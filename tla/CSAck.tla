-------------------------------- MODULE CSAck --------------------------------
(***************************************************************************)
(* Acknowledged sending: pkg/can_smbus/src/core/cs_send_ack.c and          *)
(* cs_request.c, which run the same protocol.  A thread binds an ack       *)
(* callback, sends a frame up to Tries times, each time waiting for the    *)
(* device's ack of the data's hash with a timeout, and in the end closes   *)
(* the callback.  CSSendAck keeps the binding over several sends;          *)
(* CSRequest_sendAck binds, sends once and closes.                         *)
(*                                                                         *)
(* Two kinds of mutex meet here: CSRx's, held by the receive thread while  *)
(* it runs callbacks and needed to bind and close, and each object's own,  *)
(* held by a sender except while it waits and needed by the callback.      *)
(* A critical section in which a thread needs no further lock is one step. *)
(*                                                                         *)
(* The device and the network are external: a frame may be lost, a device  *)
(* that received a frame acknowledges it any number of times, at any later *)
(* time, or never.                                                         *)
(***************************************************************************)
EXTENDS CSCallbackList, FiniteSets

CONSTANTS
    Objs,       \* ack objects (CSSendAck_t, or the stack frame of a CSRequest)
    AckRegs,    \* register numbers
    RegOf,      \* object -> its register
    Values,     \* data to send
    Hash,       \* value -> its additive uint8_t hash; different data may collide
    Tries,      \* sends per call (5)
    MaxCalls    \* bound: calls per object

ASSUME AckAssumption ==
    Tries \in Nat \ {0} /\ MaxCalls \in Nat /\ RegOf \in [Objs -> AckRegs]

Hashes == {Hash[v] : v \in Values}

VARIABLES
    pc,         \* object's thread: "none", "bound", "sending", "sent",
                \* "waiting", "signalled", "timedout", "freed"
    arg,        \* object -> hash the callback compares with
    value,      \* object -> value being sent
    tries,      \* object -> sends done in this call
    hit,        \* object -> result of the last call
    calls,      \* object -> calls made
    bound,      \* CSRx: the device's ack list
    rx,         \* receive thread: position in `bound', or 0 when it holds no lock
    ack,        \* the ack it is delivering: <<register, hash>>
    air,        \* frames sent and not yet received: <<register, value>>
    received,   \* history and device state: <<register, value>> it received
    spurious    \* history: object's wait ended without a signal or timeout

ackVars == <<pc, arg, value, tries, hit, calls, bound, rx, ack, air, received, spurious>>

-----------------------------------------------------------------------------
AckInit ==
    /\ pc = [o \in Objs |-> "none"]
    /\ arg \in [Objs -> Hashes]     \* not initialised in CSRequest_sendAck
    /\ value \in [Objs -> Values]
    /\ tries = [o \in Objs |-> 0] /\ hit = [o \in Objs |-> FALSE]
    /\ calls = [o \in Objs |-> 0]
    /\ bound = <<>> /\ rx = 0 /\ ack = <<>>
    /\ air = {} /\ received = {}
    /\ spurious = [o \in Objs |-> FALSE]

(* CSSendAck_create, or the opening of CSRequest_sendAck.                  *)
create(o) ==
    /\ pc[o] = "none" /\ rx = 0
    /\ pc' = [pc EXCEPT ![o] = "bound"]
    /\ bound' = callbackListAdd(bound, o)
    /\ UNCHANGED <<arg, value, tries, hit, calls, rx, ack, air, received, spurious>>

(* Mutant: the callback does not lock.                                     *)
ArgUnlocked(o) == TRUE

(* The object's mutex: a sender holds it from here to the wait.            *)
ArgFree(o) == pc[o] \notin {"sending", "sent"}

send(o, v) ==
    /\ pc[o] = "bound" /\ calls[o] < MaxCalls
    /\ pc' = [pc EXCEPT ![o] = "sending"]
    /\ value' = [value EXCEPT ![o] = v]
    /\ arg' = [arg EXCEPT ![o] = Hash[v]]
    /\ tries' = [tries EXCEPT ![o] = 0] /\ hit' = [hit EXCEPT ![o] = FALSE]
    /\ spurious' = [spurious EXCEPT ![o] = FALSE]
    /\ calls' = [calls EXCEPT ![o] = @ + 1]
    /\ UNCHANGED <<bound, rx, ack, air, received>>

(* Mutant: tries that are not counted.                                     *)
queueFrameForever(o) ==
    /\ pc[o] = "sending"
    /\ air' = air \cup {<<RegOf[o], value[o]>>}
    /\ pc' = [pc EXCEPT ![o] = "sent"]
    /\ UNCHANGED <<arg, value, tries, hit, calls, bound, rx, ack, received, spurious>>

(* One turn of the loop: the frame is queued (CSTx's mutex is taken and     *)
(* released inside), then the wait begins and releases the object's mutex. *)
queueFrame(o) ==
    /\ pc[o] = "sending" /\ tries[o] < Tries
    /\ tries' = [tries EXCEPT ![o] = @ + 1]
    /\ air' = air \cup {<<RegOf[o], value[o]>>}
    /\ pc' = [pc EXCEPT ![o] = "sent"]
    /\ UNCHANGED <<arg, value, hit, calls, bound, rx, ack, received, spurious>>

timedWait(o) ==
    /\ pc[o] = "sent" /\ pc' = [pc EXCEPT ![o] = "waiting"]
    /\ UNCHANGED <<arg, value, tries, hit, calls, bound, rx, ack, air, received, spurious>>

timeout(o) ==
    /\ pc[o] = "waiting" /\ pc' = [pc EXCEPT ![o] = "timedout"]
    /\ UNCHANGED <<arg, value, tries, hit, calls, bound, rx, ack, air, received, spurious>>

spuriousWakeup(o) ==
    /\ pc[o] = "waiting" /\ pc' = [pc EXCEPT ![o] = "signalled"]
    /\ spurious' = [spurious EXCEPT ![o] = TRUE]
    /\ UNCHANGED <<arg, value, tries, hit, calls, bound, rx, ack, air, received>>

(* The wait returns with the mutex: with 0 the call is over, with          *)
(* ETIMEDOUT the loop goes on.                                             *)
wake(o) ==
    /\ pc[o] \in {"signalled", "timedout"}
    /\ hit' = [hit EXCEPT ![o] = pc[o] = "signalled"]
    /\ pc' = [pc EXCEPT ![o] = IF pc[o] = "signalled" THEN "bound" ELSE "sending"]
    /\ UNCHANGED <<arg, value, tries, calls, bound, rx, ack, air, received, spurious>>

(* After the last try: the mutex is released, "Ack can't receive." logged. *)
giveUp(o) ==
    /\ pc[o] = "sending" /\ tries[o] = Tries
    /\ pc' = [pc EXCEPT ![o] = "bound"]
    /\ UNCHANGED <<arg, value, tries, hit, calls, bound, rx, ack, air, received, spurious>>

(* Mutant: the callback stays bound.                                       *)
closeObjBound(o) ==
    /\ pc[o] = "bound" /\ rx = 0
    /\ pc' = [pc EXCEPT ![o] = "freed"]
    /\ UNCHANGED <<arg, value, tries, hit, calls, bound, rx, ack, air, received, spurious>>

(* CSSendAck_close, or the end of CSRequest_sendAck: the callback is       *)
(* closed in CSRx, then mutex and condition variable are destroyed.        *)
closeObj(o) ==
    /\ pc[o] = "bound" /\ rx = 0
    /\ pc' = [pc EXCEPT ![o] = "freed"]
    /\ bound' = callbackListClose(bound, o)
    /\ UNCHANGED <<arg, value, tries, hit, calls, rx, ack, air, received, spurious>>

-----------------------------------------------------------------------------
deviceReceive(f) ==
    /\ f \in air
    /\ air' = air \ {f} /\ received' = received \cup {f}
    /\ UNCHANGED <<pc, arg, value, tries, hit, calls, bound, rx, ack, spurious>>

(* CSRx_ackCallback: an ack arrives, CSRx's mutex is taken.                *)
ackArrives(f) ==
    /\ f \in received /\ rx = 0
    /\ rx' = 1 /\ ack' = <<f[1], Hash[f[2]]>>
    /\ UNCHANGED <<pc, arg, value, tries, hit, calls, bound, air, received, spurious>>

(* Mutant: the register is compared, the hash is not.                      *)
callbackAnyHash ==
    LET o == bound[rx] IN
    /\ rx \in 1 .. Len(bound) /\ ArgFree(o)
    /\ rx' = rx + 1
    /\ pc' = IF ack[1] = RegOf[o] /\ pc[o] = "waiting"
               THEN [pc EXCEPT ![o] = "signalled"] ELSE pc
    /\ UNCHANGED <<arg, value, tries, hit, calls, bound, ack, air, received, spurious>>

(* CSSendAck_callback, CSRequest_callback of the next object in the list.  *)
callback ==
    LET o == bound[rx] IN
    /\ rx \in 1 .. Len(bound) /\ ArgFree(o)
    /\ rx' = rx + 1
    /\ pc' = IF ack = <<RegOf[o], arg[o]>> /\ pc[o] = "waiting"
               THEN [pc EXCEPT ![o] = "signalled"] ELSE pc
    /\ UNCHANGED <<arg, value, tries, hit, calls, bound, ack, air, received, spurious>>

ackDone ==
    /\ rx = Len(bound) + 1
    /\ rx' = 0 /\ ack' = <<>>
    /\ UNCHANGED <<pc, arg, value, tries, hit, calls, bound, air, received, spurious>>

Sender(o) == queueFrame(o) \/ timedWait(o) \/ wake(o) \/ giveUp(o)
Receiver  == callback \/ ackDone

AckNext ==
    \/ \E o \in Objs : \/ create(o) \/ closeObj(o) \/ Sender(o)
                       \/ timeout(o) \/ spuriousWakeup(o)
                       \/ \E v \in Values : send(o, v)
    \/ \E f \in air : deviceReceive(f)
    \/ \E f \in received : ackArrives(f)
    \/ Receiver

AckSpec == AckInit /\ [][AckNext]_ackVars

(* The senders and the receive thread run; a timed wait that is not        *)
(* signalled times out.  No ack need ever come.                            *)
AckFairness ==
    /\ \A o \in Objs : WF_ackVars(Sender(o)) /\ WF_ackVars(timeout(o))
    /\ WF_ackVars(Receiver)

AckFairSpec == AckSpec /\ AckFairness

-----------------------------------------------------------------------------
AckTypeOK ==
    /\ pc \in [Objs -> {"none", "bound", "sending", "sent", "waiting",
                        "signalled", "timedout", "freed"}]
    /\ arg \in [Objs -> Hashes] /\ value \in [Objs -> Values]
    /\ tries \in [Objs -> 0 .. Tries] /\ hit \in [Objs -> BOOLEAN]
    /\ calls \in [Objs -> 0 .. MaxCalls]
    /\ bound \in Seq(Objs) /\ rx \in Nat
    /\ ack = <<>> \/ ack \in AckRegs \X Hashes
    /\ air \subseteq AckRegs \X Values /\ received \subseteq AckRegs \X Values
    /\ spurious \in [Objs -> BOOLEAN]

(* A call that reports an ack was acknowledged: unless its wait ended      *)
(* spuriously, the device has received data with that hash on that         *)
(* register, be it from an earlier try or an earlier call.                 *)
HitMeansReceived ==
    \A o \in Objs : hit[o] /\ ~spurious[o]
        => \E f \in received : f[1] = RegOf[o] /\ Hash[f[2]] = Hash[value[o]]

(* The receive thread never runs the callback of an object that is being   *)
(* or has been destroyed.                                                  *)
NoCallbackOnFreed ==
    rx \in 1 .. Len(bound) => pc[bound[rx]] \notin {"none", "freed"}

(* Types and life time together: in every state the fields of the objects  *)
(* are in range (at most Tries sends per call), and the receive thread     *)
(* stands at no object that is gone.                                       *)
AckInv == AckTypeOK /\ NoCallbackOnFreed

(* No ack falls between a send and its wait: a matching ack that the       *)
(* callback compares during a call wakes the sender, unless that try has   *)
(* just timed out.                                                         *)
AckNeverMissed ==
    [][\A o \in Objs :
         /\ rx \in 1 .. Len(bound) /\ bound[rx] = o /\ rx' = rx + 1
         /\ ack = <<RegOf[o], arg[o]>>
         /\ pc[o] \in {"sending", "sent", "waiting"}
         => pc'[o] = "signalled"]_ackVars

(* Every call returns, acknowledged or after Tries timeouts: the two kinds *)
(* of mutex are never waited for in a circle and no wait is unbounded.     *)
(* The receive thread, too, always gets through its list of callbacks.     *)
CallReturns ==
    /\ \A o \in Objs : (pc[o] = "sending") ~> (pc[o] = "bound")
    /\ (rx > 0) ~> (rx = 0)
=============================================================================
