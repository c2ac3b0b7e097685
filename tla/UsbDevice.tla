------------------------------ MODULE UsbDevice ------------------------------
(* The low-level USB device: control requests on endpoint 0 and an echo from the
   bulk endpoint 1 (OUT) to the bulk endpoint 2 (IN).  isr_usbctrl is one step;
   the main loop only waits to be configured and arms endpoint 1.  The host and
   the controller are external: the host addresses, enumerates and configures the
   device, may reset the bus, and keeps its own data toggles. *)
EXTENDS Integers, Sequences, FiniteSets

CONSTANTS MaxPackets,   \* bulk packets that the host sends
          MaxResets,    \* bus resets
          Lengths       \* values of wLength, 0 for requests without data

ASSUME UsbAssumption == Lengths \subseteq Nat

Eps == {"ep0_in", "ep0_out", "ep1_out", "ep2_in"}
ep_is_tx(ep) == ep \in {"ep0_in", "ep2_in"}

OutRequests == {"SET_ADDRESS", "SET_CONFIGURATION", "other_out"}
InRequests == {"device", "config", "string", "other_in"}

VARIABLES devState,     \* the globals of the program and the controller's registers
          irq,     \* what the interrupt will find: setup, done buffers, reset
          armed,   \* main has left its wait and armed endpoint 1
          host     \* the host's view

usbVars == <<devState, irq, armed, host>>

Off == [avail |-> FALSE, pid |-> 0, data |-> 0]

UsbInit ==
    /\ devState = [dev_addr |-> 0, should_set_address |-> FALSE, configured |-> FALSE,
              dev_addr_ctrl |-> 0, next_pid |-> [e \in Eps |-> 0],
              buffer |-> [e \in Eps |-> Off]]
    /\ irq = [setup |-> "none", done |-> {}, reset |-> FALSE]
    /\ armed = FALSE
    /\ host = [addr |-> 0, config |-> FALSE, phase |-> "idle", req |-> "none", wLength |-> 0, out |-> 0, in |-> 0,
               sent |-> 0, got |-> <<>>, resets |-> 0, late |-> FALSE]

-----------------------------------------------------------------------------
\* The device.
StartTransferKeepsPid(d, ep, data) ==
    [d EXCEPT !.buffer[ep] = [avail |-> TRUE, pid |-> d.next_pid[ep], data |-> data]]

\* The buffer is handed to the controller with the next PID, which then flips.
usb_start_transfer(d, ep, data) ==
    [d EXCEPT !.buffer[ep] = [avail |-> TRUE, pid |-> d.next_pid[ep], data |-> data],
              !.next_pid[ep] = 1 - @]

\* Descriptors, cut to the length the host asked for: the device descriptor; the
\* configuration alone or, when the host has room for all, with the interface and
\* the endpoints 1 and 2; the languages or one of the strings.
Shorter(a, b) == IF a < b THEN a ELSE b

usb_handle_device_descriptor(d, wLength) ==
    usb_start_transfer([d EXCEPT !.next_pid["ep0_in"] = 1], "ep0_in", Shorter(18, wLength))

usb_handle_config_descriptor(d, wLength) ==
    usb_start_transfer(d, "ep0_in", Shorter(IF wLength >= 9 + 9 + 7 + 7 THEN 9 + 9 + 7 + 7 ELSE 9, wLength))

usb_prepare_string_descriptor(strlen) == 2 + 2 * strlen

usb_handle_string_descriptor(d, wLength) ==
    usb_start_transfer(d, "ep0_in", Shorter(usb_prepare_string_descriptor(16), wLength))

usb_acknowledge_out_request(d) == usb_start_transfer(d, "ep0_in", 0)

\* Every answer on endpoint 0 starts with PID 1; an address is only remembered.
usb_set_device_address(d) ==
    usb_acknowledge_out_request([d EXCEPT !.dev_addr = 1, !.should_set_address = TRUE])

usb_set_device_configuration(d) ==
    [usb_acknowledge_out_request(d) EXCEPT !.configured = TRUE]

usb_handle_setup_packet(d, req, wLength) ==
    LET e == [d EXCEPT !.next_pid["ep0_in"] = 1]
    IN  CASE req = "SET_ADDRESS" -> usb_set_device_address(e)
          [] req = "SET_CONFIGURATION" -> usb_set_device_configuration(e)
          [] req = "other_out" -> usb_acknowledge_out_request(e)
          [] req = "device" -> usb_handle_device_descriptor(e, wLength)
          [] req = "config" -> usb_handle_config_descriptor(e, wLength)
          [] req = "string" -> usb_handle_string_descriptor(e, wLength)
          [] req = "other_in" -> e

ep0_in_handler(d) ==
    IF d.should_set_address
    THEN [d EXCEPT !.dev_addr_ctrl = d.dev_addr, !.should_set_address = FALSE]
    ELSE usb_start_transfer(d, "ep0_out", 0)

ep1_out_handler(d) == usb_start_transfer(d, "ep2_in", d.buffer["ep1_out"].data)
ep2_in_handler(d) == usb_start_transfer(d, "ep1_out", 0)

usb_handle_buff_done(d, ep) ==
    CASE ep = "ep0_in" -> ep0_in_handler(d)
      [] ep = "ep0_out" -> d
      [] ep = "ep1_out" -> ep1_out_handler(d)
      [] ep = "ep2_in" -> ep2_in_handler(d)

\* Every buffer that is done, by the order of the bits of buf_status.
Handled(d, done, ep) == IF ep \in done THEN usb_handle_buff_done(d, ep) ELSE d

usb_handle_buff_status(d, done) ==
    LET d1 == Handled(d, done, "ep0_in")
        d2 == Handled(d1, done, "ep0_out")
        d3 == Handled(d2, done, "ep1_out")
    IN  Handled(d3, done, "ep2_in")

usb_bus_reset(d) ==
    [d EXCEPT !.dev_addr = 0, !.should_set_address = FALSE, !.dev_addr_ctrl = 0,
              !.configured = FALSE]

isr_usbctrl ==
    LET d1 == IF irq.setup = "none" THEN devState
              ELSE usb_handle_setup_packet(devState, irq.setup, host.wLength)
        d2 == usb_handle_buff_status(d1, irq.done)
    IN  /\ irq.setup # "none" \/ irq.done # {} \/ irq.reset
        /\ devState' = IF irq.reset THEN usb_bus_reset(d2) ELSE d2
        /\ irq' = [setup |-> "none", done |-> {}, reset |-> FALSE]
        /\ UNCHANGED <<armed, host>>

UsbMain == /\ ~armed /\ devState.configured
           /\ armed' = TRUE /\ devState' = usb_start_transfer(devState, "ep1_out", 0)
           /\ UNCHANGED <<irq, host>>

-----------------------------------------------------------------------------
\* The host.  A request needs the device at the address the host uses.
Reaches == devState.dev_addr_ctrl = host.addr /\ ~irq.reset
Done(ep) == [irq EXCEPT !.done = @ \cup {ep}]
Taken(ep) == [devState EXCEPT !.buffer[ep].avail = FALSE]

BusReset ==
    /\ host.resets < MaxResets
    /\ host' = [host EXCEPT !.resets = @ + 1, !.addr = 0, !.config = FALSE, !.phase = "idle",
                            !.out = 0, !.in = 0, !.late = @ \/ armed \/ devState.configured]
    /\ irq' = [setup |-> "none", done |-> irq.done, reset |-> TRUE]
    /\ UNCHANGED <<devState, armed>>

\* An address is set on a device that has none, a configuration once it has one.
SetupPacket(req, w) ==
    /\ host.phase = "idle" /\ Reaches /\ irq.setup = "none"
    /\ req = "SET_ADDRESS" <=> host.addr = 0 /\ req \notin InRequests
    /\ req = "SET_CONFIGURATION" => ~host.config
    /\ req \in OutRequests => w = 0
    /\ host' = [host EXCEPT !.phase = IF req \in OutRequests THEN "status" ELSE "data",
                            !.req = req, !.wLength = w]
    /\ irq' = [irq EXCEPT !.setup = req]
    /\ devState' = [devState EXCEPT !.buffer["ep0_in"].avail = FALSE, !.buffer["ep0_out"].avail = FALSE]
    /\ UNCHANGED armed

\* The device's answer: data, or the status of an OUT request.
ControlIn ==
    /\ host.phase \in {"data", "status"} /\ Reaches /\ irq.setup = "none"
    /\ devState.buffer["ep0_in"].avail
    /\ host' = [host EXCEPT !.phase = IF @ = "data" THEN "ack" ELSE "idle",
                            !.addr = IF host.req = "SET_ADDRESS" THEN 1 ELSE @,
                            !.config = @ \/ host.req = "SET_CONFIGURATION"]
    /\ devState' = Taken("ep0_in") /\ irq' = Done("ep0_in") /\ UNCHANGED armed

ControlOut ==
    /\ host.phase = "ack" /\ Reaches /\ devState.buffer["ep0_out"].avail
    /\ host' = [host EXCEPT !.phase = "idle"]
    /\ devState' = Taken("ep0_out") /\ irq' = Done("ep0_out") /\ UNCHANGED armed

\* No answer comes to a request that the device does not know.
GiveUp == /\ host.phase = "data" /\ host.req = "other_in" /\ irq.setup = "none"
          /\ host' = [host EXCEPT !.phase = "idle"] /\ UNCHANGED <<devState, irq, armed>>

\* Bulk packets; a packet with the wrong PID is taken for a repeated one.
BulkOut ==
    /\ host.config /\ Reaches /\ host.sent < MaxPackets /\ devState.buffer["ep1_out"].avail
    /\ host' = [host EXCEPT !.sent = @ + 1, !.out = 1 - @]
    /\ IF devState.buffer["ep1_out"].pid = host.out
       THEN /\ devState' = [devState EXCEPT !.buffer["ep1_out"] =
                            [avail |-> FALSE, pid |-> host.out, data |-> host.sent + 1]]
            /\ irq' = Done("ep1_out")
       ELSE UNCHANGED <<devState, irq>>
    /\ UNCHANGED armed

BulkIn ==
    LET b == devState.buffer["ep2_in"]
    IN  /\ host.config /\ Reaches /\ b.avail
        /\ host' = IF b.pid = host.in
                   THEN [host EXCEPT !.got = Append(@, b.data), !.in = 1 - @] ELSE host
        /\ devState' = Taken("ep2_in") /\ irq' = Done("ep2_in") /\ UNCHANGED armed

UsbNext ==
    \/ isr_usbctrl \/ UsbMain \/ BusReset
    \/ \E req \in OutRequests \cup InRequests, w \in Lengths : SetupPacket(req, w)
    \/ ControlIn \/ ControlOut \/ GiveUp \/ BulkOut \/ BulkIn

UsbSpec == UsbInit /\ [][UsbNext]_usbVars

-----------------------------------------------------------------------------
\* The echo is exact and the address in step.  As long as the bus is not reset
\* after the device was configured, the host gets back what it sent, in order and
\* at most one packet behind, because both ends flip their data toggles alike; and
\* whenever no interrupt is waiting, the controller answers at the address that
\* the host uses, so the address changed after the acknowledgement and not before.
\* No answer is longer than one packet or than the host asked for.
UsbInStep ==
    /\ ~host.late => /\ \A i \in 1 .. Len(host.got) : host.got[i] = i
                     /\ host.sent - Len(host.got) \in {0, 1}
    /\ irq = [setup |-> "none", done |-> {}, reset |-> FALSE] => devState.dev_addr_ctrl = host.addr
    /\ LET b == devState.buffer["ep0_in"] IN b.avail => b.data <= Shorter(64, host.wLength)
=============================================================================
