----------------------------- MODULE AccessPoint -----------------------------
(* The access point of picow_access_point.c: main starts the DHCP and the DNS
   server and the web server, and then only polls.  lwIP calls each of them for
   its own packets, and none touches the state of another.

   The DHCP server has a module of its own.  dns_server_process is here as the
   walk over the labels of the question and the answer written behind it in the
   same buffer: only lengths and positions matter, the letters of a name do not.

   The web server is here, over lwIP's callbacks, with as many segments on a
   connection as a client cares to send.  Requests are told apart by what the
   server reads of them, responses by the number of bytes of the header and of
   the page. *)
EXTENDS DhcpServer

CONSTANTS MsgLengths,   \* lengths of the datagrams that arrive
          LabelBytes    \* values of the byte at the head of a label

ASSUME DnsAssumption == MsgLengths \subseteq Nat /\ LabelBytes \subseteq 0 .. 255

HeaderSize == 12        \* sizeof(dns_header_t)
MAX_DNS_MSG_SIZE == 300
AnswerSize == 16        \* pointer, type, class, ttl, length, address

VARIABLES dnsStep,   \* "wait", "walk", "answer"
          msg_len,
          qptr,      \* question_ptr - dns_msg
          qend,      \* where the name ended, 0 while it has not
          answer     \* what was sent: where the answer is and where it ends

dnsVars == <<dnsStep, msg_len, qptr, qend, answer>>
NoAnswer == [sent |-> FALSE, at |-> 0, stop |-> 0, name |-> 0]

DnsInit == /\ dnsStep = "wait"
           /\ msg_len = 0 /\ qptr = 0 /\ qend = 0 /\ answer = NoAnswer

DnsIgnore == /\ dnsStep' = "wait" /\ answer' = NoAnswer
             /\ msg_len' = 0 /\ qptr' = 0 /\ qend' = 0

\* A datagram, of which the buffer takes at most MAX_DNS_MSG_SIZE bytes.  A
\* response, another opcode than a query and an empty question section are
\* dropped after the header, like a datagram shorter than the header.
Received(len, standardQuery) ==
    LET taken == IF len < MAX_DNS_MSG_SIZE THEN len ELSE MAX_DNS_MSG_SIZE
    IN  /\ dnsStep = "wait"
        /\ IF taken < HeaderSize \/ ~standardQuery
           THEN DnsIgnore
           ELSE /\ dnsStep' = "walk" /\ msg_len' = taken
                /\ qptr' = HeaderSize /\ qend' = 0 /\ answer' = NoAnswer

\* One turn of the while loop: the end of the name, or a label to step over.
Label(b) ==
    /\ dnsStep = "walk" /\ qptr < msg_len
    /\ CASE b = 0 -> /\ dnsStep' = "answer" /\ qptr' = qptr + 1 /\ qend' = qptr + 1
                     /\ UNCHANGED <<msg_len, answer>>
         [] b \in 1 .. 63 -> qptr' = qptr + 1 + b /\ UNCHANGED <<dnsStep, msg_len, qend, answer>>
         [] b > 63 -> DnsIgnore

\* The datagram ended inside the name.
Truncated == /\ dnsStep = "walk" /\ qptr >= msg_len
             /\ dnsStep' = "answer" /\ UNCHANGED <<msg_len, qptr, qend, answer>>

AnswerAnyLength ==
    /\ dnsStep = "answer"
    /\ answer' = [sent |-> TRUE, at |-> qptr + 4, stop |-> qptr + 4 + AnswerSize, name |-> qend]
    /\ dnsStep' = "wait" /\ UNCHANGED <<msg_len, qptr, qend>>

\* A name of more than 255 bytes is dropped; else type and class are skipped
\* and the answer goes out (or is lost: dns_socket_sendto reports and returns).
Answer ==
    /\ dnsStep = "answer"
    /\ IF qptr - HeaderSize > 255
       THEN DnsIgnore
       ELSE /\ answer' = [sent |-> TRUE, at |-> qptr + 4,
                          stop |-> qptr + 4 + AnswerSize, name |-> qend]
            /\ dnsStep' = "wait" /\ UNCHANGED <<msg_len, qptr, qend>>

DnsNext == \/ \E len \in MsgLengths, q \in BOOLEAN : Received(len, q)
           \/ \E b \in LabelBytes : Label(b)
           \/ Truncated \/ Answer

DnsSpec == DnsInit /\ [][DnsNext]_dnsVars

-----------------------------------------------------------------------------
\* Every answer fits in dns_msg, and stands right behind the question it answers:
\* behind the root label, the type and the class of a name that ended in the datagram.
DnsReplyFits ==
    answer.sent => /\ answer.stop <= MAX_DNS_MSG_SIZE
                   /\ answer.name # 0 => answer.at = answer.name + 4
                   /\ answer.at >= HeaderSize + 4

-----------------------------------------------------------------------------
(* The web server. *)
CONSTANTS Conns,                  \* client pcbs
          PageLen, HeadLen, RedirectLen,
          SndBuf                  \* bytes that lwIP holds for one connection

ASSUME HttpAssumption == PageLen \in Nat /\ HeadLen \in Nat /\ RedirectLen \in Nat

\* What the handler makes of a segment: not the beginning of a GET, as the rest of a
\* long request is not; a page it does not have; the test page with no parameter,
\* with one it cannot read, or with led=0, led=1.
Requests == {"post", "other", "plain", "junk", "led0", "led1"}

VARIABLES listening,              \* state->server_pcb
          led,                    \* the GPIO of the radio chip
          con                     \* [Conns -> connection and its con_state]

httpVars == <<listening, led, con>>

\* pcb: open, closing (tcp_close was called, lwIP still sends what it owes), gone
\* (freed by lwIP), stray (closed by the handler after lwIP had freed it).
\* mem: the allocation of con_state.  heads, pages: bytes of its two buffers that
\* lwIP refers to until they are acknowledged.  whole: none of these was overwritten.
\* again, twice: a segment, a GET came while there were any.
NoState == [pcb |-> "none", mem |-> "none", sent_len |-> 0, header_len |-> 0,
            result_len |-> 0, heads |-> 0, pages |-> 0, whole |-> TRUE, again |-> FALSE,
            twice |-> FALSE, end |-> "none"]

HttpInit == listening = FALSE /\ led \in BOOLEAN /\ con = [c \in Conns |-> NoState]

Becomes(c, s) == con' = [con EXCEPT ![c] = s]

\* tcp_server_open; the program ends when it fails.
OpenHttp == ~listening /\ listening' = TRUE /\ UNCHANGED <<led, con>>

tcp_server_accept_http(c) ==
    /\ listening /\ con[c].pcb = "none"
    /\ Becomes(c, [NoState EXCEPT !.pcb = "open", !.mem = "live"])
    /\ UNCHANGED <<listening, led>>

\* All handlers are taken back, the pcb is closed or aborted, con_state is freed.
\* lwIP goes on with the bytes it owes, or drops them and frees the pcb.
tcp_close_client_connection(c, s, why) ==
    \E p \in {"closing", "gone"} : Becomes(c, [s EXCEPT !.pcb = p, !.mem = "freed", !.end = why])

\* Bytes are acknowledged in the order they were written: the header's, then the
\* page's, and in any order, for what is claimed then, after a second response.
Acked(c, a, b) ==
    /\ con[c].pcb = "open" /\ a <= con[c].heads /\ b <= con[c].pages /\ a + b > 0
    /\ b > 0 => a = con[c].heads \/ con[c].twice

AfterAck(c, a, b) == [con[c] EXCEPT !.sent_len = @ + a + b, !.heads = @ - a, !.pages = @ - b]

SentHeaderOnly(c, a, b) ==
    LET s == AfterAck(c, a, b)
    IN  /\ Acked(c, a, b)
        /\ IF s.sent_len >= s.header_len THEN tcp_close_client_connection(c, s, "done")
                                         ELSE Becomes(c, s)
        /\ UNCHANGED <<listening, led>>

tcp_server_sent_http(c, a, b) ==
    LET s == AfterAck(c, a, b)
    IN  /\ Acked(c, a, b)
        /\ IF s.sent_len >= s.header_len + s.result_len
           THEN tcp_close_client_connection(c, s, "done") ELSE Becomes(c, s)
        /\ UNCHANGED <<listening, led>>

\* The LED after a request for the test page; the page shows that.
test_server_content(req) == CASE req = "led0" -> FALSE [] req = "led1" -> TRUE [] OTHER -> led

\* Any segment is copied over headers; a GET has its header, and its page if it
\* has one, printed there and into result, and its counters begin anew.
Copied(s, page) == [s EXCEPT !.again = @ \/ s.heads + s.pages > 0,
                             !.whole = @ /\ s.heads = 0 /\ (page => s.pages = 0)]
Restarted(s, page) == [s EXCEPT !.twice = @ \/ s.heads + s.pages > 0, !.sent_len = 0,
                              !.header_len = IF page THEN HeadLen ELSE RedirectLen,
                              !.result_len = IF page THEN PageLen ELSE 0]

\* Header and page are written in two calls, either of which may fail, and does
\* when lwIP holds too much; the page is short enough for its buffers.
tcp_server_recv_http(c, req, headOk, pageOk) ==
    LET page == req \notin {"post", "other"}
        s0   == Copied(con[c], page)
        s1   == Restarted(s0, page)
        s2   == [s1 EXCEPT !.heads = @ + s1.header_len]
        s3   == [s2 EXCEPT !.pages = @ + s1.result_len]
    IN  /\ con[c].pcb = "open"
        /\ headOk => s2.heads + s2.pages <= SndBuf
        /\ pageOk => s3.heads + s3.pages <= SndBuf
        /\ led' = test_server_content(req)
        /\ \/ req = "post" /\ Becomes(c, s0)
           \/ req # "post" /\ ~headOk /\ tcp_close_client_connection(c, s1, "failed")
           \/ req # "post" /\ headOk /\ page /\ ~pageOk
                  /\ tcp_close_client_connection(c, s2, "failed")
           \/ req # "post" /\ headOk /\ (page => pageOk) /\ Becomes(c, s3)
        /\ UNCHANGED listening

\* The peer closed (a NULL pbuf), or the poll timer ran out.
HangUp(c, why) ==
    /\ con[c].pcb = "open"
    /\ tcp_close_client_connection(c, con[c], why)
    /\ UNCHANGED <<listening, led>>

\* lwIP reports an error of a pcb that it has freed: the handler closes that pcb,
\* with no defined effect, or does nothing at all.
tcp_server_err(c, aborted) ==
    /\ con[c].pcb = "open"
    /\ Becomes(c, IF aborted THEN [con[c] EXCEPT !.pcb = "gone", !.end = "abort"]
                   ELSE [con[c] EXCEPT !.pcb = "stray", !.mem = "freed", !.end = "error"])
    /\ UNCHANGED <<listening, led>>

\* lwIP is done with a closed pcb, and reuses it for another connection.
PcbFreed(c) == /\ con[c].pcb = "closing" /\ Becomes(c, [con[c] EXCEPT !.pcb = "gone"])
               /\ UNCHANGED <<listening, led>>
PcbReused(c) == con[c].pcb = "gone" /\ Becomes(c, NoState) /\ UNCHANGED <<listening, led>>

HttpNext ==
    \/ OpenHttp
    \/ \E c \in Conns :
          \/ tcp_server_accept_http(c) \/ PcbFreed(c) \/ PcbReused(c)
          \/ \E a \in 0 .. con[c].heads, b \in 0 .. con[c].pages : tcp_server_sent_http(c, a, b)
          \/ \E req \in Requests, h, p \in BOOLEAN : tcp_server_recv_http(c, req, h, p)
          \/ \E why \in {"peer", "poll"} : HangUp(c, why)
          \/ \E aborted \in BOOLEAN : tcp_server_err(c, aborted)

HttpSpec == HttpInit /\ [][HttpNext]_httpVars

-----------------------------------------------------------------------------
\* Closes that do not wait for the acknowledgements: lwIP is left with references
\* into a con_state that is freed.
Hasty(s) == s.end \in {"peer", "poll", "failed"}

\* tcp_write copies nothing.  Whatever lwIP may have to send again is still what
\* was written, in a con_state that is allocated, unless a further segment came
\* before all was acknowledged or the close was a hasty one.  A connection that
\* ends for a complete response has every byte acknowledged, and one that is open
\* owes what its counters say, however the bytes are acknowledged and whatever is
\* received, unless a second GET came too early.  The con_state of a connection
\* that is over is freed, unless lwIP aborted it.
HttpResponseWhole ==
    \A c \in Conns :
        /\ con[c].heads + con[c].pages > 0 /\ con[c].pcb \in {"open", "closing"} =>
               \/ con[c].mem = "live" /\ con[c].whole
               \/ con[c].again \/ Hasty(con[c])
        /\ con[c].end = "done" /\ ~con[c].twice => con[c].heads + con[c].pages = 0
        /\ con[c].pcb = "open" /\ ~con[c].twice =>
               con[c].heads + con[c].pages
                   = con[c].header_len + con[c].result_len - con[c].sent_len
        /\ con[c].pcb \in {"closing", "gone"} => con[c].mem = "freed" \/ con[c].end = "abort"

-----------------------------------------------------------------------------
AccessPointSpec == DhcpSpec /\ DnsSpec /\ HttpSpec

(* AccessPointServes: the access point leases no address to two clients, never answers
   a name with more than its buffer holds, and sends a page from buffers that are still
   its own, with the exceptions that HttpResponseWhole names (dhcpserver.c, dnsserver.c,
   picow_access_point.c). *)
AccessPointServes == LeaseExclusive /\ DnsReplyFits /\ HttpResponseWhole
=============================================================================
