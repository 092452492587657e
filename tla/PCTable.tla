------------------------------ MODULE PCTable -------------------------------
(***************************************************************************)
(* process_comm: the table of discovered services (pc_table.c), the        *)
(* DNS-SD thread that fills it (pc_dnssd.c), and the main loop that looks  *)
(* up a service every 100 ms (main.cpp).                                   *)
(*                                                                         *)
(* A server is registered under "name(type)" and split again by whoever    *)
(* discovers it.  Names and types are non-empty sequences of characters,   *)
(* short enough for the arrays of an entry (a DNS label has at most 63     *)
(* bytes).  Names that begin alike have the same hash, so the hash only    *)
(* saves comparisons and is left out.                                      *)
(*                                                                         *)
(* The table is a growing array.  loockUp returns a pointer into it and    *)
(* gives up the lock; getIp uses the pointer later.                        *)
(***************************************************************************)
EXTENDS Integers, Sequences

CONSTANTS Chars,          \* the characters of names and types
          Servers,        \* records [name, type, addr]
          Static,         \* servers the application enters with PCTable_set
          Wanted,         \* <<type, name>> pairs the main loop looks up
          ServiceBlock,   \* entries in a block: 1024 / sizeof(PCTable_service_t), 4
          AddrBlock,      \* addresses in a block: 1024 / sizeof(PCTable_addr_t), 51
          NoAddr,         \* "0.0.0.0", port 0
          Garbage,        \* whatever else a dead pointer makes of the heap
          MaxEvents       \* bound: events of the browser

VARIABLES services,       \* g_obj.services, a buffer of PCTable_service_t
          announced,      \* servers registered now, on any machine
          told,           \* servers the DNS-SD library last reported as added
          event,          \* the event the browse thread is working on
          events,         \* events so far
          handle,         \* the main loop's instance, the key it looked up and,
                          \* as history, the block its last entry was in then
          answer,         \* what getIp returned in this round
          applied         \* history: server -> last event the table was told of

vars == <<services, announced, told, event, events, handle, answer, applied>>

net  == <<announced, told, event, events>>
main == <<handle, answer>>

SB == INSTANCE SABuffer WITH OneBlockCount <- ServiceBlock
AB == INSTANCE SABuffer WITH OneBlockCount <- AddrBlock

Addrs == {s.addr : s \in Servers}

-----------------------------------------------------------------------------
(***************************************************************************)
(* Names                                                                   *)
(***************************************************************************)
\* the index of the first c at or after from, or one past the end
Find(text, c, from) ==
    CHOOSE i \in from .. Len(text) + 1 :
        /\ i = Len(text) + 1 \/ text[i] = c
        /\ \A j \in from .. i - 1 : text[j] # c

\* PCDnssd_registServer: sprintf(regist_name, "%s(%s)", name, type_name)
regist_name(s) == s.name \o <<"(">> \o s.type \o <<")">>

\* PCMdns_serviceGetAddrInfo_callback takes it apart, into <<type, name>>
Split(text) ==
    LET open  == Find(text, "(", 1)
        close == Find(text, ")", open + 1)
    IN  <<SubSeq(text, open + 1, close - 1), SubSeq(text, 1, open - 1)>>

Key(s) == Split(regist_name(s))

ASSUME TableAssumption ==
    /\ ServiceBlock \in Nat \ {0, 1} /\ AddrBlock \in Nat \ {0} /\ MaxEvents \in Nat
    /\ Static \subseteq Servers /\ \A s \in Static : Key(s) = <<s.type, s.name>>
    /\ {"(", ")"} \subseteq Chars /\ Wanted \subseteq Seq(Chars) \X Seq(Chars)
    /\ \A s \in Servers : s.name \in Seq(Chars) /\ s.type \in Seq(Chars)
    /\ \A s, t \in Servers : s.addr = t.addr => s = t
    /\ NoAddr \notin Addrs /\ Garbage \notin Addrs /\ NoAddr # Garbage

\* memcmp over the length of the wanted text
Begins(text, wanted) == Len(wanted) <= Len(text) /\ SubSeq(text, 1, Len(wanted)) = wanted

Matches(entry, key) == Begins(entry.service, key[1]) /\ Begins(entry.name, key[2])

-----------------------------------------------------------------------------
(***************************************************************************)
(* The table, under its lock                                               *)
(***************************************************************************)
First(S) == CHOOSE i \in S : \A j \in S : i <= j

\* PCTable_search_nolock: the first matching entry, 0 for NULL
search_nolock(table, key) ==
    LET hits == {i \in 1 .. Len(table.data) : Matches(table.data[i], key)}
    IN  IF hits = {} THEN 0 ELSE First(hits)

HitsOf(addrs, addr) == {i \in 1 .. Len(addrs.data) : addrs.data[i].addr = addr}

Activated(addrs, addr, active) ==
    [addrs EXCEPT !.data[First(HitsOf(addrs, addr))].is_active = active]

Active(addr) == [addr |-> addr, is_active |-> TRUE]

\* mutant: a known address is appended again
setSockaddrAppending(table, key, addr) ==
    LET i == search_nolock(table, key)
    IN  IF i = 0
        THEN SB!add(table, [service |-> key[1], name |-> key[2],
                            addrs |-> AB!add(AB!create, Active(addr))])
        ELSE [table EXCEPT !.data[i].addrs = AB!add(@, Active(addr))]

\* PCTable_setSockaddr
setSockaddr(table, key, addr) ==
    LET i == search_nolock(table, key)
    IN  IF i = 0
        THEN SB!add(table, [service |-> key[1], name |-> key[2],
                            addrs |-> AB!add(AB!create, Active(addr))])
        ELSE [table EXCEPT !.data[i].addrs =
                IF HitsOf(@, addr) = {} THEN AB!add(@, Active(addr))
                ELSE Activated(@, addr, TRUE)]

\* PCTable_deactivate; what is not found is only logged
deactivate(table, key, addr) ==
    LET i == search_nolock(table, key)
    IN  IF i = 0 \/ HitsOf(table.data[i].addrs, addr) = {} THEN table
        ELSE [table EXCEPT !.data[i].addrs = Activated(@, addr, FALSE)]

\* the first active address of an entry
ActiveAddr(entry) ==
    LET active == {i \in 1 .. Len(entry.addrs.data) : entry.addrs.data[i].is_active}
    IN  IF active = {} THEN NoAddr ELSE entry.addrs.data[First(active)].addr

-----------------------------------------------------------------------------
NoEvent == [stage |-> "none"]
NotHeld == [instance |-> "none"]
Null    == [index |-> 0, moves |-> 0]

Init ==
    /\ services = SB!create
    /\ announced = {} /\ told = {}
    /\ event = NoEvent /\ events = 0
    /\ handle = NotHeld /\ answer = NoAddr
    /\ applied = [s \in Servers |-> "none"]

(***************************************************************************)
(* Servers, here and on other machines.  A registration that fails returns *)
(* NULL and leaves nothing behind.                                         *)
(***************************************************************************)
registServer(s) ==
    /\ s \notin announced
    /\ announced' = announced \cup {s}
    /\ UNCHANGED <<services, told, event, events, main, applied>>

closeServer(s) ==
    /\ s \in announced
    /\ announced' = announced \ {s}
    /\ UNCHANGED <<services, told, event, events, main, applied>>

\* PCTable_set: the application enters an address itself
set(s) ==
    /\ applied[s] # "add"
    /\ services' = setSockaddr(services, <<s.type, s.name>>, s.addr)
    /\ applied' = [applied EXCEPT ![s] = "add"]
    /\ UNCHANGED <<net, main>>

(***************************************************************************)
(* The browse thread.  Each event is resolved in two further calls to the  *)
(* library, each of which can fail and drop the event; the table changes   *)
(* at the end of the last.                                                 *)
(***************************************************************************)
serviceBrowse(s) ==
    /\ event = NoEvent /\ events < MaxEvents
    /\ s \in announced \ told \/ s \in told \ announced
    /\ told' = IF s \in announced THEN told \cup {s} ELSE told \ {s}
    /\ event' = [stage |-> "resolve", server |-> s, is_add |-> s \in announced]
    /\ events' = events + 1
    /\ UNCHANGED <<services, announced, main, applied>>

serviceResolve ==
    /\ event.stage = "resolve"
    /\ event' = [event EXCEPT !.stage = "addrInfo"]
    /\ UNCHANGED <<services, announced, told, events, main, applied>>

serviceGetAddrInfo ==
    /\ event.stage = "addrInfo"
    /\ LET s == event.server
       IN  /\ services' = IF event.is_add THEN setSockaddr(services, Key(s), s.addr)
                          ELSE deactivate(services, Key(s), s.addr)
           /\ applied' = [applied EXCEPT ![s] = IF event.is_add THEN "add" ELSE "remove"]
    /\ event' = NoEvent
    /\ UNCHANGED <<announced, told, events, main>>

\* an error code, at either stage
dropEvent ==
    /\ event # NoEvent
    /\ event' = NoEvent
    /\ UNCHANGED <<services, announced, told, events, main, applied>>

\* the block of the n-th entry
BlockOf(n) == (n - 1) \div ServiceBlock

(***************************************************************************)
(* The main loop                                                           *)
(***************************************************************************)
loockUp(key) ==
    /\ handle = NotHeld
    /\ LET i == search_nolock(services, key)
       IN  handle' = [instance |-> IF i = 0 THEN Null ELSE SB!pointer(services, i),
                      key |-> key, block |-> BlockOf(Len(services.data))]
    /\ answer' = NoAddr
    /\ UNCHANGED <<services, net, applied>>

\* a dead pointer reads freed memory: an old entry, or anything
getIp ==
    /\ handle # NotHeld
    /\ answer' \in IF handle.instance = Null THEN {NoAddr}
                   ELSE IF SB!alive(services, handle.instance)
                   THEN {ActiveAddr(services.data[handle.instance.index])}
                   ELSE Addrs \cup {NoAddr, Garbage}
    /\ handle' = NotHeld
    /\ UNCHANGED <<services, net, applied>>

Next ==
    \/ \E s \in Servers : registServer(s) \/ closeServer(s) \/ serviceBrowse(s)
    \/ \E s \in Static : set(s)
    \/ serviceResolve \/ serviceGetAddrInfo \/ dropEvent
    \/ \E key \in Wanted : loockUp(key)
    \/ getIp

Spec == Init /\ [][Next]_vars

-----------------------------------------------------------------------------
(***************************************************************************)
(* Properties                                                              *)
(***************************************************************************)
Entries == 1 .. Len(services.data)

TypeOK ==
    /\ announced \subseteq Servers /\ told \subseteq Servers
    /\ events \in 0 .. MaxEvents
    /\ applied \in [Servers -> {"none", "add", "remove"}]
    /\ answer \in Addrs \cup {NoAddr, Garbage}

\* No entry is written beyond the memory of its buffer.
Room == SB!Fits(services) /\ \A i \in Entries : AB!Fits(services.data[i].addrs)

\* Where an address is in the table: entry and place in it.
Places(addr) ==
    UNION {{<<i, j>> : j \in HitsOf(services.data[i].addrs, addr)} : i \in Entries}

\* The table says of every server what it was told last: its address is in one
\* place at most, in the entry its key finds, and active there exactly if the
\* last event was its arrival.  This although keys match every entry that
\* begins with them, so that servers share entries.
TracksEvents ==
    \A s \in Servers :
        LET places == Places(s.addr)
        IN  /\ \A p, q \in places : p = q
            /\ \A p \in places :
                  /\ p[1] = search_nolock(services, Key(s))
                  /\ services.data[p[1]].addrs.data[p[2]].is_active
                        <=> applied[s] = "add"
            /\ applied[s] = "add" => places # {}

\* The buffers have room for their entries, and the table follows the events.
ServicesInv == TypeOK /\ Room /\ TracksEvents

\* name and type of one begin with those of the other
Extends(key, other) == Begins(key[1], other[1]) /\ Begins(key[2], other[2])

\* The main loop uses its pointer without the lock.  What getIp answers is right
\* unless the table outgrew a block between the look-up and the answer, whatever
\* its size and whatever else was added or removed meanwhile.  The address is
\* that of a server that is there now.  It is of another name or type than was
\* looked up only if an entry hides both: the table was told of a server whose
\* name and type begin with those of the one as well as of the other.  And a
\* server of exactly that name and type is not missed if the look-up found it.
AnswerFaithful ==
    [][handle # NotHeld /\ handle' = NotHeld
         /\ handle.block = BlockOf(Len(services.data)) =>
        IF answer' = NoAddr
        THEN handle.instance # Null =>
                \A s \in Servers : Key(s) = handle.key => applied[s] # "add"
        ELSE \E s, e \in Servers :
                /\ answer' = s.addr /\ applied[s] = "add" /\ applied[e] # "none"
                /\ Extends(Key(e), Key(s)) /\ Extends(Key(e), handle.key)]_vars
=============================================================================
