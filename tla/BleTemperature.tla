--------------------------- MODULE BleTemperature ---------------------------
(* The Bluetooth LE temperature client and server of pico_w/bt/standalone,
   joined by a link that may be lost at any time and that the two ends may see
   end at different times.  BTstack is external: it calls the handlers, keeps one
   query of the client in flight, advertises while the server has no connection
   and delivers what a connection carries in order. *)
EXTENDS Integers, Sequences

CONSTANTS Temps,        \* values of the temperature sensor
          HeartbeatDiv, \* heartbeats of the server per measurement (10)
          MaxConn       \* bound on the number of connections

ASSUME BleAssumption == HeartbeatDiv \in Nat \ {0}

VARIABLES gc,    \* the client: state, connection_handle, listener_registered, ...
          heartbeat_led,   \* the client's LED: led_on and quick_flash
          sv,    \* the server: le_notification_enabled, con_handle, current_temp, ...
          link,  \* the connection as each end sees it (0: none), and the next one
          query, \* the client's query in flight: what for, and how far
          air    \* notifications on their way to the client

bleVars == <<gc, heartbeat_led, sv, link, query, air>>

NoQuery == [of |-> "none", conn |-> 0, done |-> FALSE]

BleInit ==
    /\ gc = [state |-> "TC_OFF", handle |-> 0, listener |-> FALSE, service |-> 0,
             characteristic |-> 0, temp |-> -1]
    /\ heartbeat_led = [on |-> TRUE, quick |-> FALSE]
    /\ sv = [up |-> FALSE, notify |-> FALSE, con_handle |-> 0, temp |-> 0, send |-> FALSE,
             counter |-> 0]
    /\ link = [gc |-> 0, sv |-> 0, next |-> 1]
    /\ query = NoQuery
    /\ air = <<>>

Advertising == sv.up /\ link.sv = 0

-----------------------------------------------------------------------------
\* The server.
poll_temp(s, t) == [s EXCEPT !.temp = t]

ServerWorking(t) ==
    /\ ~sv.up /\ sv' = poll_temp([sv EXCEPT !.up = TRUE], t)
    /\ UNCHANGED <<gc, heartbeat_led, link, query, air>>

ServerHeartbeat(t) ==
    LET n == (sv.counter + 1) % HeartbeatDiv
        s == [sv EXCEPT !.counter = n]
    IN  /\ sv.up
        /\ sv' = IF n = 0 THEN [poll_temp(s, t) EXCEPT !.send = @ \/ sv.notify] ELSE s
        /\ UNCHANGED <<gc, heartbeat_led, link, query, air>>

DisconnectedKeepsNotify ==
    /\ link.sv # 0 /\ link' = [link EXCEPT !.sv = 0]
    /\ sv' = [sv EXCEPT !.send = FALSE] /\ UNCHANGED <<gc, heartbeat_led, query, air>>

\* BTstack drops a can-send-now request with its connection.
ServerDisconnected ==
    /\ link.sv # 0 /\ link' = [link EXCEPT !.sv = 0]
    /\ sv' = [sv EXCEPT !.notify = FALSE, !.send = FALSE]
    /\ UNCHANGED <<gc, heartbeat_led, query, air>>

\* The client writes the configuration that asks for notifications.
att_write_callback ==
    /\ query.of = "notify" /\ ~query.done /\ query.conn = link.sv
    /\ sv' = [sv EXCEPT !.notify = TRUE, !.con_handle = link.sv, !.send = TRUE]
    /\ query' = [query EXCEPT !.done = TRUE]
    /\ UNCHANGED <<gc, heartbeat_led, link, air>>

\* ATT_EVENT_CAN_SEND_NOW: the temperature of this moment is sent.
CanSendNow ==
    /\ sv.send /\ sv.con_handle = link.sv /\ Len(air) < 2
    /\ sv' = [sv EXCEPT !.send = FALSE]
    /\ air' = IF link.gc = link.sv THEN Append(air, sv.temp) ELSE air
    /\ UNCHANGED <<gc, heartbeat_led, link, query>>

-----------------------------------------------------------------------------
\* The client.
client_start(c) == [c EXCEPT !.state = "TC_W4_SCAN_RESULT"]
Asks(what) == [of |-> what, conn |-> link.gc, done |-> what # "notify"]

ClientWorking == /\ gc.state = "TC_OFF" /\ gc' = client_start(gc)
                 /\ UNCHANGED <<heartbeat_led, sv, link, query, air>>

\* An advertising report that lists the service; others are passed over.
AdvertisingReport ==
    /\ gc.state = "TC_W4_SCAN_RESULT" /\ Advertising
    /\ gc' = [gc EXCEPT !.state = "TC_W4_CONNECT"]
    /\ UNCHANGED <<heartbeat_led, sv, link, query, air>>

ConnectionComplete ==
    /\ gc.state = "TC_W4_CONNECT" /\ Advertising /\ link.next <= MaxConn
    /\ link' = [gc |-> link.next, sv |-> link.next, next |-> link.next + 1]
    /\ gc' = [gc EXCEPT !.state = "TC_W4_SERVICE_RESULT", !.handle = link.next]
    /\ query' = [of |-> "service", conn |-> link.next, done |-> TRUE]
    /\ air' = <<>> /\ UNCHANGED <<heartbeat_led, sv>>

\* The event says that the connection could not be made.  Its status is not looked
\* at: BTstack refuses the query for want of a connection, and the client waits for
\* the answer.
ConnectionFails ==
    /\ gc.state = "TC_W4_CONNECT"
    /\ gc' = [gc EXCEPT !.state = "TC_W4_SERVICE_RESULT"]
    /\ UNCHANGED <<heartbeat_led, sv, link, query, air>>

\* The link is lost: BTstack ends the query with an error and reports it.
DisconnectionComplete ==
    /\ link.gc # 0
    /\ link' = [link EXCEPT !.gc = 0]
    /\ gc' = [IF gc.state = "TC_OFF" THEN gc ELSE client_start(gc) EXCEPT
                !.handle = 0, !.listener = FALSE]
    /\ query' = NoQuery /\ air' = <<>>
    /\ UNCHANGED <<heartbeat_led, sv>>

\* A query is complete: its result was stored, the next one is asked.
QueryComplete ==
    /\ query.of # "none" /\ query.done
    /\ UNCHANGED <<heartbeat_led, sv, link, air>>
    /\ \/ /\ gc.state = "TC_W4_SERVICE_RESULT"
          /\ gc' = [gc EXCEPT !.state = "TC_W4_CHARACTERISTIC_RESULT", !.service = link.gc]
          /\ query' = Asks("characteristic")
       \/ /\ gc.state = "TC_W4_CHARACTERISTIC_RESULT"
          /\ gc' = [gc EXCEPT !.state = "TC_W4_ENABLE_NOTIFICATIONS_COMPLETE",
                              !.characteristic = link.gc, !.listener = TRUE]
          /\ query' = Asks("notify")
       \/ /\ gc.state = "TC_W4_ENABLE_NOTIFICATIONS_COMPLETE"
          /\ gc' = [gc EXCEPT !.state = "TC_W4_READY"]
          /\ query' = NoQuery

\* A query fails: the client hangs up, but not when notifications are refused.
QueryFails ==
    /\ query.of # "none"
    /\ query' = NoQuery
    /\ link' = IF query.of = "notify" THEN link ELSE [link EXCEPT !.gc = 0]
    /\ gc' = IF query.of = "notify" THEN gc
             ELSE [client_start(gc) EXCEPT !.handle = 0, !.listener = FALSE]
    /\ air' = IF query.of = "notify" THEN air ELSE <<>>
    /\ UNCHANGED <<heartbeat_led, sv>>

\* A notification: shown when the client is ready.
Notification ==
    /\ air # <<>> /\ gc.listener
    /\ gc' = IF gc.state = "TC_W4_READY" THEN [gc EXCEPT !.temp = Head(air)] ELSE gc
    /\ air' = Tail(air)
    /\ UNCHANGED <<heartbeat_led, sv, link, query>>

heartbeat_handler ==
    /\ heartbeat_led' = [on |-> ~heartbeat_led.on,
               quick |-> IF ~gc.listener THEN FALSE
                         ELSE IF heartbeat_led.on THEN heartbeat_led.quick ELSE ~heartbeat_led.quick]
    /\ UNCHANGED <<gc, sv, link, query, air>>

BleNext ==
    \/ \E t \in Temps : ServerWorking(t) \/ ServerHeartbeat(t)
    \/ ServerDisconnected \/ att_write_callback \/ CanSendNow
    \/ ClientWorking \/ AdvertisingReport \/ ConnectionComplete \/ ConnectionFails
    \/ DisconnectionComplete
    \/ QueryComplete \/ QueryFails \/ Notification \/ heartbeat_handler

-----------------------------------------------------------------------------
\* A ready client is served: over every loss of the link and every new connection
\* it listens on this connection, knows the service and the characteristic from
\* this connection, and the server, as long as it sees the connection, has
\* notifications on for it; the server sends to no connection that is over.
ReadyIsServed ==
    /\ gc.state = "TC_W4_READY" =>
           /\ gc.listener /\ gc.handle # 0
           /\ {gc.service, gc.characteristic} = {gc.handle}
           /\ link.sv = gc.handle => sv.notify /\ sv.con_handle = gc.handle
    /\ sv.send => sv.con_handle = link.sv /\ link.sv # 0
    /\ air # <<>> => sv.con_handle = link.gc

BleSpec == BleInit /\ [][BleNext]_bleVars
=============================================================================
