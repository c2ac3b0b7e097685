------------------------------- MODULE TcpEcho -------------------------------
(* The TCP test server and the TCP test client of the Wi-Fi examples, joined by
   a connection.  The server writes a buffer, the client writes it back, the
   server compares; after TEST_ITERATIONS rounds each side closes.  lwIP calls
   one handler at a time; for one segment it calls the sent handler for what the
   segment acknowledges before the recv handler for what it carries. *)
EXTENDS Integers, Sequences

CONSTANTS BUF_SIZE, TEST_ITERATIONS

ASSUME EchoAssumption == BUF_SIZE \in Nat \ {0} /\ TEST_ITERATIONS \in Nat \ {0}

None == 99              \* no result yet

VARIABLES srv, cli,     \* TCP_SERVER_T and TCP_CLIENT_T
          toCli, toSrv, \* bytes written and not yet delivered, each with the
                        \* acknowledgement that the segment carrying it has
          got,          \* [side -> bytes its stack has received]
          acked,        \* [side -> bytes of it that were acknowledged to it]
          fault         \* a timeout, an error or a failed call has happened

echoVars == <<srv, cli, toCli, toSrv, got, acked, fault>>

EchoInit ==
    /\ srv = [open |-> FALSE, listening |-> FALSE, complete |-> FALSE, result |-> None,
              sent_len |-> 0, run_count |-> 0, buffer_sent |-> <<>>, buffer_recv |-> <<>>]
    /\ cli = [open |-> FALSE, connected |-> FALSE, complete |-> FALSE, result |-> None,
              sent_len |-> 0, run_count |-> 0, buffer |-> <<>>]
    /\ toCli = <<>> /\ toSrv = <<>>
    /\ got = [srv |-> 0, cli |-> 0] /\ acked = [srv |-> 0, cli |-> 0]
    /\ fault = FALSE

Written(bytes, side) == [i \in 1 .. Len(bytes) |-> [v |-> bytes[i], ack |-> got'[side]]]
Fill(buffer, data) == buffer \o SubSeq(data, 1, IF Len(data) > BUF_SIZE - Len(buffer)
                                                THEN BUF_SIZE - Len(buffer) ELSE Len(data))

-----------------------------------------------------------------------------
\* The server.  tcp_server_result ends in tcp_server_close: the handlers of both
\* pcbs are taken back, an abort when the close fails included.
tcp_server_result(s, status) ==
    [s EXCEPT !.complete = TRUE, !.result = status, !.open = FALSE, !.listening = FALSE]

ServerSentKeepsBuffer(s, len) == [s EXCEPT !.sent_len = @ + len]

tcp_server_sent(s, len) ==
    [s EXCEPT !.sent_len = @ + len,
              !.buffer_recv = IF s.sent_len + len >= BUF_SIZE THEN <<>> ELSE @]

\* The buffer of a round is random; a byte is told apart by its round and place.
tcp_server_send_data(s, ok) ==
    LET t == [s EXCEPT !.buffer_sent = [i \in 1 .. BUF_SIZE |-> <<s.run_count, i>>],
                       !.sent_len = 0]
    IN  IF ok THEN t ELSE tcp_server_result(t, -1)

\* What the server is after a whole buffer, and after any other data.
tcp_server_recv(s, data, ok) ==
    LET t == [s EXCEPT !.buffer_recv = Fill(s.buffer_recv, data)]
        u == [t EXCEPT !.run_count = @ + 1]
    IN  CASE Len(t.buffer_recv) < BUF_SIZE -> t
          [] t.buffer_recv # t.buffer_sent /\ Len(t.buffer_recv) = BUF_SIZE ->
                 tcp_server_result(t, -1)
          [] OTHER -> IF u.run_count >= TEST_ITERATIONS THEN tcp_server_result(u, 0)
                                                        ELSE tcp_server_send_data(u, ok)

\* The client.
tcp_result(c, status) == [c EXCEPT !.complete = TRUE, !.result = status, !.open = FALSE]

tcp_client_sent(c, len) ==
    LET n == c.sent_len + len
        d == [c EXCEPT !.sent_len = n, !.run_count = @ + 1]
    IN  IF n < BUF_SIZE THEN [c EXCEPT !.sent_len = n]
        ELSE IF d.run_count >= TEST_ITERATIONS THEN tcp_result(d, 0)
        ELSE [d EXCEPT !.buffer = <<>>, !.sent_len = 0]

tcp_client_recv(c, data, ok) ==
    LET d == [c EXCEPT !.buffer = Fill(c.buffer, data)]
    IN  IF Len(d.buffer) = BUF_SIZE /\ ~ok THEN tcp_result(d, -1) ELSE d

-----------------------------------------------------------------------------
\* tcp_server_open and tcp_client_open, each of which may fail.
OpenServer(ok) ==
    /\ ~srv.listening /\ ~srv.complete
    /\ srv' = IF ok THEN [srv EXCEPT !.listening = TRUE] ELSE tcp_server_result(srv, -1)
    /\ fault' = (fault \/ ~ok) /\ UNCHANGED <<cli, toCli, toSrv, got, acked>>

OpenClient(ok) ==
    /\ ~cli.open /\ ~cli.complete
    /\ cli' = IF ok THEN [cli EXCEPT !.open = TRUE] ELSE tcp_result(cli, -1)
    /\ fault' = (fault \/ ~ok) /\ UNCHANGED <<srv, toCli, toSrv, got, acked>>

\* The server's stack has seen the end of the handshake: accept, the first buffer.
tcp_server_accept(err, ok) ==
    /\ srv.listening /\ ~srv.open /\ cli.connected
    /\ UNCHANGED <<cli, toSrv, got, acked>>
    /\ fault' = (fault \/ err \/ ~ok)
    /\ IF err
       THEN srv' = tcp_server_result(srv, -1) /\ UNCHANGED toCli
       ELSE /\ srv' = tcp_server_send_data([srv EXCEPT !.open = TRUE], ok)
            /\ toCli' = IF ok THEN Written(srv'.buffer_sent, "srv") ELSE toCli

tcp_client_connected(err) ==
    /\ cli.open /\ ~cli.connected /\ (srv.listening \/ err)
    /\ cli' = IF err THEN tcp_result(cli, -1) ELSE [cli EXCEPT !.connected = TRUE]
    /\ fault' = (fault \/ err)
    /\ UNCHANGED <<srv, toCli, toSrv, got, acked>>

\* A segment of n bytes for the server, or a bare acknowledgement (n = 0), that
\* acknowledges the first `a` bytes the server ever wrote.
ToServer(n, a, ok) ==
    LET data  == [i \in 1 .. n |-> toSrv[i].v]
        s1    == IF a > acked.srv THEN tcp_server_sent(srv, a - acked.srv) ELSE srv
        s2    == IF n > 0 /\ s1.open THEN tcp_server_recv(s1, data, ok) ELSE s1
        wrote == n > 0 /\ s2.open /\ s2.run_count > s1.run_count
    IN  /\ srv.open /\ cli.connected /\ n <= Len(toSrv)
        /\ a \in acked.srv .. got.cli /\ (n > 0 \/ a > acked.srv)
        /\ n > 0 => a >= toSrv[n].ack
        /\ srv' = s2
        /\ got' = [got EXCEPT !.srv = @ + n] /\ acked' = [acked EXCEPT !.srv = a]
        /\ toSrv' = SubSeq(toSrv, n + 1, Len(toSrv))
        /\ toCli' = IF wrote THEN toCli \o Written(s2.buffer_sent, "srv") ELSE toCli
        /\ fault' = (fault \/ ~ok) /\ UNCHANGED cli

ToClient(n, a, ok) ==
    LET data  == [i \in 1 .. n |-> toCli[i].v]
        c1    == IF a > acked.cli THEN tcp_client_sent(cli, a - acked.cli) ELSE cli
        c2    == IF n > 0 /\ c1.open THEN tcp_client_recv(c1, data, ok) ELSE c1
        wrote == n > 0 /\ c2.open /\ Len(c2.buffer) = BUF_SIZE
    IN  /\ cli.open /\ cli.connected /\ n <= Len(toCli)
        /\ a \in acked.cli .. got.srv /\ (n > 0 \/ a > acked.cli)
        /\ n > 0 => a >= toCli[n].ack
        /\ cli' = c2
        /\ got' = [got EXCEPT !.cli = @ + n] /\ acked' = [acked EXCEPT !.cli = a]
        /\ toCli' = SubSeq(toCli, n + 1, Len(toCli))
        /\ toSrv' = IF wrote THEN toSrv \o Written(c2.buffer, "cli") ELSE toSrv
        /\ fault' = (fault \/ ~ok) /\ UNCHANGED srv

\* The peer has closed: its last segment acknowledges all that it received and
\* then the recv handler sees no buffer.
ServerSeesEnd ==
    /\ srv.open /\ cli.complete /\ cli.connected /\ toSrv = <<>>
    /\ srv' = tcp_server_result(IF got.cli > acked.srv
                                THEN tcp_server_sent(srv, got.cli - acked.srv) ELSE srv, -1)
    /\ acked' = [acked EXCEPT !.srv = got.cli]
    /\ UNCHANGED <<cli, toCli, toSrv, got, fault>>

ClientSeesEnd ==
    LET c == IF got.srv > acked.cli THEN tcp_client_sent(cli, got.srv - acked.cli) ELSE cli
    IN  /\ cli.open /\ cli.connected /\ srv.complete /\ toCli = <<>>
        /\ cli' = IF c.open THEN tcp_result(c, -1) ELSE c
        /\ acked' = [acked EXCEPT !.cli = got.srv]
        /\ UNCHANGED <<srv, toCli, toSrv, got, fault>>

\* The poll timer, or an error that lwIP reports for the connection.
ServerFails ==
    /\ srv.open /\ srv' = tcp_server_result(srv, -1)
    /\ fault' = TRUE /\ UNCHANGED <<cli, toCli, toSrv, got, acked>>

ClientFails ==
    /\ cli.open /\ cli' = tcp_result(cli, -1)
    /\ fault' = TRUE /\ UNCHANGED <<srv, toCli, toSrv, got, acked>>

EchoNext ==
    \/ \E ok \in BOOLEAN : OpenServer(ok) \/ OpenClient(ok) \/ tcp_client_connected(ok)
    \/ \E err, ok \in BOOLEAN : tcp_server_accept(err, ok)
    \/ \E n \in 0 .. BUF_SIZE, a \in 0 .. BUF_SIZE * TEST_ITERATIONS, ok \in BOOLEAN :
           ToServer(n, a, ok) \/ ToClient(n, a, ok)
    \/ ServerSeesEnd \/ ClientSeesEnd \/ ServerFails \/ ClientFails

EchoSpec == EchoInit /\ [][EchoNext]_echoVars

-----------------------------------------------------------------------------
\* As long as nothing times out or fails neither side reports a failure: no round
\* is spoiled by the order in which acknowledgements and data reach the two
\* sides.  And the client reports success only after the server has.
EchoSound ==
    /\ ~fault => {srv.result, cli.result} \subseteq {None, 0}
    /\ cli.result = 0 => srv.result = 0
=============================================================================
