------------------------------- MODULE UsbHid -------------------------------
(* The composite HID device (keyboard, mouse, consumer control and gamepad behind
   one button) plugged into the HID host.  TinyUSB is external: it carries one
   report at a time and calls back when the report was sent and received. *)
EXTENDS Integers, Sequences

Reports == <<"keyboard", "mouse", "consumer", "gamepad">>     \* ids 1 .. 4
Keyed == {"keyboard", "consumer", "gamepad"}

VARIABLES btn,        \* the button
          hasKey,     \* has_keyboard_key, has_consumer_key, has_gamepad_key
          wire,       \* the report under way: its id (0: none) and the key in it
          complete,   \* id of the report whose completion is to be handled (0: none)
          blink,      \* blink_interval_ms and the LED
          bus,        \* "unmounted", "mounted", "suspended"
          prev,       \* the host: key of prev_report
          typed,      \* the host: characters written
          presses     \* keyboard reports by which the device pressed its key

hidVars == <<btn, hasKey, wire, complete, blink, bus, prev, typed, presses>>

CONSTANT MaxTyped
NoReport == [id |-> 0, key |-> FALSE]

HidInit ==
    /\ btn = FALSE /\ hasKey = [r \in Keyed |-> FALSE] /\ wire = NoReport /\ complete = 0
    /\ blink = [interval |-> 250, led |-> FALSE] /\ bus = "unmounted"
    /\ prev = FALSE /\ typed = 0 /\ presses = 0

-----------------------------------------------------------------------------
\* A report goes out when the device is ready; a release only after a press.
send_hid_report(id, b) ==
    IF wire # NoReport \/ bus # "mounted"
    THEN UNCHANGED <<hasKey, wire, presses>>
    ELSE IF Reports[id] = "mouse"
    THEN wire' = [id |-> id, key |-> FALSE] /\ UNCHANGED <<hasKey, presses>>
    ELSE /\ wire' = IF b \/ hasKey[Reports[id]] THEN [id |-> id, key |-> b] ELSE NoReport
         /\ hasKey' = [hasKey EXCEPT ![Reports[id]] = b]
         /\ presses' = IF id = 1 /\ b /\ ~hasKey["keyboard"] THEN presses + 1 ELSE presses

\* Every 10 ms: wake a suspended host, or send the first report of the chain.
hid_task ==
    /\ complete = 0
    /\ IF bus = "suspended" /\ btn
       THEN UNCHANGED <<hasKey, wire, presses>>
       ELSE send_hid_report(1, btn)
    /\ UNCHANGED <<btn, complete, blink, bus, prev, typed>>

\* The report is through: the next of the chain, with the button of this moment.
tud_hid_report_complete_cb ==
    /\ complete # 0
    /\ complete' = 0
    /\ IF complete < Len(Reports) THEN send_hid_report(complete + 1, btn)
                                  ELSE UNCHANGED <<hasKey, wire, presses>>
    /\ UNCHANGED <<btn, blink, bus, prev, typed>>

Button == /\ btn' = ~btn /\ presses < MaxTyped
          /\ UNCHANGED <<hasKey, wire, complete, blink, bus, prev, typed, presses>>

\* tud_mount_cb, tud_suspend_cb, tud_resume_cb.
Mount == /\ bus = "unmounted" /\ bus' = "mounted" /\ blink' = [blink EXCEPT !.interval = 1000]
         /\ UNCHANGED <<btn, hasKey, wire, complete, prev, typed, presses>>
Suspend == /\ bus = "mounted" /\ wire = NoReport /\ complete = 0 /\ bus' = "suspended"
           /\ blink' = [blink EXCEPT !.interval = 2500]
           /\ UNCHANGED <<btn, hasKey, wire, complete, prev, typed, presses>>
Resume == /\ bus = "suspended" /\ bus' = "mounted" /\ blink' = [blink EXCEPT !.interval = 1000]
          /\ UNCHANGED <<btn, hasKey, wire, complete, prev, typed, presses>>

\* The host's caps-lock LED: on without blinking, or off and back to blinking.
tud_hid_set_report_cb(caps) ==
    /\ bus = "mounted"
    /\ blink' = [interval |-> IF caps THEN 0 ELSE 1000, led |-> caps]
    /\ UNCHANGED <<btn, hasKey, wire, complete, bus, prev, typed, presses>>

led_blinking_task ==
    /\ blink.interval # 0 /\ blink' = [blink EXCEPT !.led = ~@]
    /\ UNCHANGED <<btn, hasKey, wire, complete, bus, prev, typed, presses>>

-----------------------------------------------------------------------------
KbdForgetsPrevious(key) == /\ typed' = IF key /\ ~prev THEN typed + 1 ELSE typed
                           /\ UNCHANGED prev

\* A key is written when the previous report did not have it.
process_kbd_report(key) == /\ typed' = IF key /\ ~prev THEN typed + 1 ELSE typed
                           /\ prev' = key

\* The report's id selects what it is; only a keyboard's writes characters.
process_generic_report(report) ==
    IF Reports[report.id] = "keyboard" THEN process_kbd_report(report.key)
                                       ELSE UNCHANGED <<prev, typed>>

\* The host has the report and asks for the next one.  The device learns
\* that it was sent.
tuh_hid_report_received_cb ==
    /\ wire # NoReport /\ complete = 0
    /\ process_generic_report(wire)
    /\ complete' = wire.id /\ wire' = NoReport
    /\ UNCHANGED <<btn, hasKey, blink, bus, presses>>

HidNext ==
    \/ hid_task \/ tud_hid_report_complete_cb \/ Button \/ Mount \/ Suspend \/ Resume
    \/ \E caps \in BOOLEAN : tud_hid_set_report_cb(caps)
    \/ led_blinking_task \/ tuh_hid_report_received_cb

HidSpec == HidInit /\ [][HidNext]_hidVars

-----------------------------------------------------------------------------
\* The host writes one character for every time the device pressed its key, however
\* many reports repeat the key and whatever else the chain of reports carries.
KeyTypedOnce == wire = NoReport => typed = presses
=============================================================================
