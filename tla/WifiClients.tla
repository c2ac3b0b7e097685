---------------------------- MODULE WifiClients -----------------------------
(* Three of the Wi-Fi programs that ask somebody and wait for the answer: the
   NTP client, the TLS client and the scanner for networks.  lwIP, the driver of
   the radio and the alarms are external: they call the handlers.  A behaviour
   is one of the program that `wifi` names; the NTP client is built twice, once
   with lwIP in an interrupt and once with the handlers inside cyw43_arch_poll(). *)
EXTENDS Integers

CONSTANT MaxDns         \* queries that lwIP can have pending

VARIABLES wifi, ntp, tls, scan

wifiVars == <<wifi, ntp, tls, scan>>

WifiInit ==
    /\ wifi \in {"ntp_poll", "ntp_background", "tls", "scan"}
    /\ ntp = [pc |-> "loop", due |-> TRUE, dns_request_sent |-> FALSE, alarm |-> FALSE,
              dns |-> 0, asked |-> FALSE, early |-> FALSE]
    /\ tls = [main |-> "start", pcb |-> "none", complete |-> FALSE, dns |-> FALSE,
              request |-> FALSE, failed |-> FALSE]
    /\ scan = [due |-> TRUE, scan_in_progress |-> FALSE, active |-> FALSE]

-----------------------------------------------------------------------------
\* NTP.  `due`: ntp_test_time has passed; `alarm`: ntp_resend_alarm is pending;
\* `asked`: the pcb has sent once, so that answers, late ones too, may come;
\* `early`: one came after the main loop had set the alarm and before it noted
\* that it waits.
IsNtp == wifi \in {"ntp_poll", "ntp_background"}
Ntp(t) == ntp' = t /\ UNCHANGED <<wifi, tls, scan>>

ntp_result(t) == [t EXCEPT !.alarm = FALSE, !.due = FALSE, !.dns_request_sent = FALSE]
ntp_request(t) == [t EXCEPT !.asked = TRUE]

NtpTime == IsNtp /\ ~ntp.due /\ Ntp([ntp EXCEPT !.due = TRUE])

\* The main loop sets the alarm and asks lwIP for the address; dns_gethostbyname
\* knows it from an earlier query, will call back, or refuses.
NtpAsks(err) ==
    /\ IsNtp /\ ntp.pc = "loop" /\ ntp.due /\ ~ntp.dns_request_sent
    /\ err = "ERR_INPROGRESS" => ntp.dns < MaxDns
    /\ err = "ERR_OK" => ntp.asked
    /\ Ntp([ntp EXCEPT !.pc = err, !.alarm = TRUE, !.early = FALSE,
                       !.dns = IF err = "ERR_INPROGRESS" THEN @ + 1 ELSE @])

\* ... and goes on with what lwIP said.
NtpAsked ==
    LET t == [ntp EXCEPT !.pc = "loop", !.dns_request_sent = TRUE]
    IN  /\ IsNtp /\ ntp.pc # "loop"
        /\ Ntp(CASE ntp.pc = "ERR_OK" -> ntp_request(t)
                 [] ntp.pc = "ERR_INPROGRESS" -> t
                 [] OTHER -> ntp_result(t))

\* The alarm is ten seconds away, which no step of the main loop takes.
ntp_failed_handler == IsNtp /\ ntp.pc = "loop" /\ ntp.alarm /\ Ntp(ntp_result(ntp))

\* The handlers of lwIP: between any two steps of the main loop where they run
\* in an interrupt, else where it polls.
InHandler == wifi = "ntp_background" \/ (wifi = "ntp_poll" /\ ntp.pc = "loop")

\* The query made last takes a round trip, which the step that made it does not.
Answerable == ntp.dns > (IF ntp.pc = "ERR_INPROGRESS" THEN 1 ELSE 0)
Early(t) == [t EXCEPT !.early = @ \/ t.pc # "loop"]

ntp_dns_found(found) ==
    LET t == [ntp EXCEPT !.dns = @ - 1]
    IN  /\ InHandler /\ Answerable
        /\ Ntp(IF found THEN ntp_request(t) ELSE Early(ntp_result(t)))

\* A datagram, the answer asked for, a late or a wrong one: each ends the
\* request, with a time or without.
ntp_recv == InHandler /\ ntp.asked /\ Ntp(Early(ntp_result(ntp)))

-----------------------------------------------------------------------------
\* TLS.  pcb: none, made (its handlers set), connecting, connected.  `failed`:
\* lwIP freed the pcb after an error.  main "astray": tls_client_close was called
\* with the pcb for its argument, and what the program does then is undefined.
Tls(t) == tls' = t /\ UNCHANGED <<wifi, ntp, scan>>

tls_client_close(t) == [t EXCEPT !.complete = TRUE, !.pcb = "none"]

tls_client_connect_to_server_ip(t, ok) ==
    IF ok THEN [t EXCEPT !.pcb = "connecting"] ELSE tls_client_close(t)

\* tls_client_open: no pcb ends the program; a name that lwIP refuses closes
\* state->pcb where it means state.
tls_client_open(err, ok) ==
    LET t == [tls EXCEPT !.main = "wait", !.pcb = "made"]
    IN  /\ wifi = "tls" /\ tls.main = "start"
        /\ Tls(CASE err = "ERR_OK" -> tls_client_connect_to_server_ip(t, ok)
                 [] err = "ERR_INPROGRESS" -> [t EXCEPT !.dns = TRUE]
                 [] err = "ERR_MEM" -> [t EXCEPT !.main = "astray"]
                 [] OTHER -> [tls EXCEPT !.main = "left"])

DnsFoundForgets(found, ok) ==
    LET t == [tls EXCEPT !.dns = FALSE]
    IN  /\ wifi = "tls" /\ tls.dns
        /\ Tls(IF found THEN tls_client_connect_to_server_ip(t, ok) ELSE t)

tls_client_dns_found(found, ok) ==
    LET t == [tls EXCEPT !.dns = FALSE]
    IN  /\ wifi = "tls" /\ tls.dns
        /\ Tls(IF found THEN tls_client_connect_to_server_ip(t, ok) ELSE tls_client_close(t))

\* The connection stands (or not) and the request is written (or not).
tls_client_connected(ok, written) ==
    /\ wifi = "tls" /\ tls.pcb = "connecting"
    /\ Tls(IF ok /\ written THEN [tls EXCEPT !.pcb = "connected", !.request = TRUE]
                            ELSE tls_client_close(tls))

\* Data is shown; the end of the stream and the poll timer close.
tls_client_recv(data) ==
    /\ wifi = "tls" /\ tls.pcb = "connected"
    /\ Tls(IF data THEN tls ELSE tls_client_close(tls))

tls_client_poll == /\ wifi = "tls" /\ tls.pcb \in {"connecting", "connected"}
                   /\ Tls(tls_client_close(tls))

tls_client_err == /\ wifi = "tls" /\ tls.pcb \in {"connecting", "connected"}
                  /\ Tls([tls EXCEPT !.pcb = "none", !.failed = TRUE])

TlsMainEnds == wifi = "tls" /\ tls.main = "wait" /\ tls.complete /\ Tls([tls EXCEPT !.main = "left"])

-----------------------------------------------------------------------------
\* The scan for networks, one at a time, ten seconds apart.
Scan(t) == scan' = t /\ UNCHANGED <<wifi, ntp, tls>>

ScanTime == wifi = "scan" /\ ~scan.due /\ Scan([scan EXCEPT !.due = TRUE])

ScanLoop(ok) ==
    /\ wifi = "scan" /\ scan.due
    /\ \/ /\ ~scan.scan_in_progress
          /\ Scan(IF ok THEN [scan EXCEPT !.scan_in_progress = TRUE, !.active = TRUE]
                        ELSE [scan EXCEPT !.due = FALSE])
       \/ /\ scan.scan_in_progress /\ ~scan.active
          /\ Scan([scan EXCEPT !.due = FALSE, !.scan_in_progress = FALSE])

ScanDone == wifi = "scan" /\ scan.active /\ Scan([scan EXCEPT !.active = FALSE])

WifiNext ==
    \/ NtpTime \/ NtpAsked \/ ntp_failed_handler \/ ntp_recv
    \/ \E err \in {"ERR_OK", "ERR_INPROGRESS", "ERR_MEM"}, ok \in BOOLEAN :
           NtpAsks(err) \/ tls_client_open(err, ok)
    \/ tls_client_open("no pcb", FALSE)
    \/ \E a, b \in BOOLEAN : \/ ntp_dns_found(a) \/ tls_client_dns_found(a, b)
                             \/ tls_client_connected(a, b) \/ tls_client_recv(a)
    \/ tls_client_poll \/ tls_client_err \/ TlsMainEnds
    \/ ScanTime \/ ScanDone \/ \E ok \in BOOLEAN : ScanLoop(ok)

-----------------------------------------------------------------------------
\* The NTP client that waits for an answer has an alarm pending.
WaitsWithAlarm == ntp.pc = "loop" /\ ntp.dns_request_sent => ntp.alarm

\* A program that waits is waited for, whatever is lost, late or refused.  The NTP
\* client that waits has the alarm that ends the wait, unless an answer disarmed it
\* before the client noted that it waits, which happens in the interrupt build only.
\* The TLS client that is not complete has a name or a connection that will call it
\* back, unless lwIP reported an error, which tls_client_err does not pass on.  The
\* scanner starts no scan while one is active.
WaitEnds ==
    /\ WaitsWithAlarm \/ (ntp.early /\ wifi = "ntp_background")
    /\ tls.main = "wait" /\ ~tls.complete =>
           tls.dns \/ tls.pcb \in {"connecting", "connected"} \/ tls.failed
    /\ scan.active => scan.scan_in_progress

WifiSpec == WifiInit /\ [][WifiNext]_wifiVars
=============================================================================
