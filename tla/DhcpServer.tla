----------------------------- MODULE DhcpServer -----------------------------
(* The DHCP server of the access point: a table of leases, one per address,
   served from messages that may be lost, repeated or late.  Time is in ticks;
   Grain ticks make the unit of a stored expiry (2^16 ms in the code) and the
   stored expiry wraps at Wrap units (2^16), as the tick counter does. *)
EXTENDS Integers, FiniteSets

CONSTANTS Macs,       \* clients, by hardware address
          DHCPS_MAX_IP,
          Grain, Wrap,
          LeaseTicks  \* DEFAULT_LEASE_TIME_S

NoMac == "000000"
Slots == 0 .. DHCPS_MAX_IP - 1
TickWrap == Grain * Wrap

\* A lease has to end before the sign of the 32-bit difference turns.
ASSUME DhcpAssumption ==
    /\ DHCPS_MAX_IP \in Nat \ {0} /\ NoMac \notin Macs
    /\ Grain \in Nat \ {0} /\ Wrap \in Nat \ {0} /\ LeaseTicks \in Nat
    /\ LeaseTicks + Grain < TickWrap \div 2

VARIABLES lease,   \* [Slots -> [mac, expiry]]
          reply,   \* the last answer on the wire
          ticks,   \* cyw43_hal_ticks_ms(), which wraps
          held     \* [Macs -> [Slots -> what is left of the client's lease]]

dhcpVars == <<lease, reply, ticks, held>>

NoReply == [type |-> "none", mac |-> NoMac, yi |-> 0]

DhcpInit ==
    /\ lease = [i \in Slots |-> [mac |-> NoMac, expiry |-> 0]]
    /\ reply = NoReply
    /\ ticks = 0
    /\ held = [m \in Macs |-> [i \in Slots |-> 0]]

ExpiredUnsigned(e) == e * Grain + Grain - 1 < ticks

\* (int32_t)(expiry - ticks) < 0, the stored expiry filled up with 0xffff.
Expired(e) ==
    (e * Grain + Grain - 1 - ticks) % TickWrap >= TickWrap \div 2

Matches(mac) == {i \in Slots : lease[i].mac = mac}
First(S) == CHOOSE i \in S : \A j \in S : i <= j

\* The slots that the search may hand out, and where it stops looking.
Reusable == {i \in Slots : lease[i].mac = NoMac \/ Expired(lease[i].expiry)}

\* An offer: the client's own slot, else the first that is free or expired.
\* An expired slot met before the client's own one loses its owner as well.
Discover(mac) ==
    LET own    == Matches(mac)
        before == IF own = {} THEN Reusable ELSE {i \in Reusable : i < First(own)}
        freed  == IF before = {} THEN {} ELSE {First(before)}
        yi     == First(IF own # {} THEN own ELSE freed)
    IN  /\ lease' = [i \in Slots |->
                        IF i \in freed THEN [lease[i] EXCEPT !.mac = NoMac]
                                       ELSE lease[i]]
        /\ reply' = IF own \cup freed = {} THEN reply
                    ELSE [type |-> "OFFER", mac |-> mac, yi |-> yi]
        /\ UNCHANGED <<ticks, held>>

\* A request for the slot yi, a number outside Slots standing for no address
\* option, another subnet or an address that is not served.  The client takes
\* the acknowledgement (heard) or the network loses it.
Request(mac, yi, heard) ==
    /\ yi \in Slots
    /\ lease[yi].mac \in {mac, NoMac}
    /\ lease' = [lease EXCEPT ![yi] =
                    [mac |-> mac, expiry |-> ((ticks + LeaseTicks) % TickWrap) \div Grain]]
    /\ reply' = [type |-> "ACK", mac |-> mac, yi |-> yi]
    /\ held' = IF heard THEN [held EXCEPT ![mac][yi] = LeaseTicks] ELSE held
    /\ UNCHANGED ticks

\* Everything else the handler reads and drops: short messages, other types,
\* requests for an address that is not served or that another client has.
IgnoreRequest(mac, yi) ==
    /\ yi \in Slots => lease[yi].mac \notin {mac, NoMac}
    /\ UNCHANGED dhcpVars

\* Time passes, for the server's counter and for the leases of the clients.
DhcpTick ==
    /\ ticks' = (ticks + 1) % TickWrap
    /\ held' = [m \in Macs |-> [i \in Slots |-> IF held[m][i] = 0 THEN 0 ELSE held[m][i] - 1]]
    /\ UNCHANGED <<lease, reply>>

dhcp_server_process ==
    \E mac \in Macs :
        \/ Discover(mac)
        \/ \E yi \in -1 .. DHCPS_MAX_IP :
               \/ \E heard \in BOOLEAN : Request(mac, yi, heard)
               \/ IgnoreRequest(mac, yi)

DhcpNext == dhcp_server_process \/ DhcpTick

DhcpSpec == DhcpInit /\ [][DhcpNext]_dhcpVars

-----------------------------------------------------------------------------
\* An address is in use by one client at a time: while a client may count on a
\* lease that was acknowledged, no other client has it or is offered it, over
\* every wrap of the tick counter and of the 16-bit expiry.
LeaseExclusive ==
    \A m \in Macs, i \in Slots :
        held[m][i] > 0 =>
            /\ \A n \in Macs \ {m} : held[n][i] = 0
            /\ lease[i].mac = m
            /\ (reply.type = "OFFER" /\ reply.yi = i => reply.mac = m)
=============================================================================
