----------------------------- MODULE ExampleProofs ----------------------------
(***************************************************************************)
(* Proofs about the network and USB examples.  The three servers of the    *)
(* access point - DHCP leases, DNS answers and web pages - are each        *)
(* proved from its own specification, for any number of clients,           *)
(* addresses, datagram lengths and page sizes; the TCP echo test for any   *)
(* buffer size and any number of rounds; the Wi-Fi and Bluetooth clients;  *)
(* the USB device for any packet lengths, and the HID host.                *)
(***************************************************************************)
EXTENDS MCExamples, ModularArithmetic, SequenceTheorems, WellFoundedInduction

-----------------------------------------------------------------------------
(* The DNS server. *)

\* The walk has found no end yet; behind the walk the name ends where it stopped,
\* or nowhere.
DnsWalk ==
    /\ dnsStep \in {"wait", "walk", "answer"}
    /\ qptr \in Nat /\ qend \in Nat /\ msg_len \in Nat
    /\ dnsStep \in {"walk", "answer"} => qptr >= HeaderSize
    /\ dnsStep = "walk" => qend = 0
    /\ dnsStep = "answer" => qend \in {0, qptr}

DnsInv == DnsWalk /\ DnsReplyFits

\* dns_server_process: no answer runs over the 300 bytes of dns_msg, and each is
\* written right behind the question, for every datagram and every name.
THEOREM AnswersFit == DnsSpec => []DnsReplyFits
<1>1. DnsInit => DnsInv
  BY DEF DnsInit, DnsInv, DnsWalk, DnsReplyFits, NoAnswer
<1>2. DnsInv /\ [DnsNext]_dnsVars => DnsInv'
  <2> SUFFICES ASSUME DnsInv, [DnsNext]_dnsVars
               PROVE  DnsInv'
    OBVIOUS
  <2> USE DEF DnsInv, DnsWalk, DnsReplyFits
  <2>0. ASSUME DnsIgnore
        PROVE  DnsInv'
    BY <2>0 DEF DnsIgnore, NoAnswer
  <2>1. ASSUME NEW len \in MsgLengths, NEW q \in BOOLEAN, Received(len, q)
        PROVE  DnsInv'
    BY <2>0, <2>1, DnsAssumption DEF Received, NoAnswer, HeaderSize, MAX_DNS_MSG_SIZE
  <2>2. ASSUME NEW b \in LabelBytes, Label(b)
        PROVE  DnsInv'
    <3>1. b \in 0 .. 255
      BY DnsAssumption
    <3>2. CASE b = 0
      BY <2>2, <3>2 DEF Label, HeaderSize
    <3>3. CASE b \in 1 .. 63
      <4>1. /\ dnsStep = "walk" /\ dnsStep' = "walk" /\ qptr' = qptr + 1 + b
            /\ UNCHANGED <<msg_len, qend, answer>>
        <5>1. b # 0 /\ ~(b > 63)
          BY <3>3
        <5>2. QED
          BY <2>2, <3>3, <5>1, Zenon DEF Label
      <4>2. b \in Nat /\ HeaderSize \in Nat
        BY <3>1 DEF HeaderSize
      <4>3. DnsWalk'
        BY <4>1, <4>2
      <4>4. DnsReplyFits'
        BY <4>1
      <4>5. QED
        BY <4>3, <4>4
    <3>4. CASE b > 63
      BY <2>0, <2>2, <3>4 DEF Label
    <3>5. QED
      BY <3>1, <3>2, <3>3, <3>4
  <2>3. CASE Truncated
    BY <2>3 DEF Truncated
  <2>4. CASE Answer
    BY <2>0, <2>4 DEF Answer, HeaderSize, MAX_DNS_MSG_SIZE, AnswerSize
  <2>5. CASE UNCHANGED dnsVars
    BY <2>5 DEF dnsVars
  <2>6. QED
    BY <2>1, <2>2, <2>3, <2>4, <2>5 DEF DnsNext
<1>3. QED
  BY <1>1, <1>2, PTL DEF DnsSpec, DnsInv

-----------------------------------------------------------------------------
(* The web server. *)

ConState == [pcb : {"none", "open", "closing", "gone", "stray"}, mem : {"none", "live", "freed"},
             sent_len : Nat, header_len : Nat, result_len : Nat, heads : Nat, pages : Nat,
             whole : BOOLEAN, again : BOOLEAN, twice : BOOLEAN,
             end : {"none", "done", "failed", "peer", "poll", "error", "abort"}]

\* What an open connection has and owes, and what is left of one that was closed.
Live(s) ==
    /\ s.end = "none" /\ s.mem = "live"
    /\ s.whole \/ s.again
    /\ s.twice \/ s.heads + s.pages = s.header_len + s.result_len - s.sent_len
LeftBehind(s) ==
    /\ s.mem = "freed" \/ s.end = "abort"
    /\ s.pcb = "closing" => s.end = "done" \/ Hasty(s)
Owes(s) ==
    /\ s.twice => s.again
    /\ s.pcb = "open" => Live(s)
    /\ s.pcb \in {"closing", "gone"} => LeftBehind(s)
    /\ s.end = "done" => s.twice \/ s.heads + s.pages = 0

HttpInv == /\ led \in BOOLEAN /\ con \in [Conns -> ConState]
           /\ \A c \in Conns : Owes(con[c])

LEMMA OneConnection ==
  ASSUME HttpInv, NEW c \in Conns, NEW s \in ConState, Owes(s), Becomes(c, s), led' \in BOOLEAN
  PROVE  HttpInv'
BY DEF HttpInv, Becomes

\* Any close leaves a freed con_state; the one for a complete response has been
\* acknowledged.
LEMMA OneCloses ==
  ASSUME HttpInv, NEW c \in Conns, NEW s \in ConState, s.twice => s.again,
         NEW why \in {"done", "failed", "peer", "poll"},
         why = "done" => s.twice \/ s.heads + s.pages = 0,
         tcp_close_client_connection(c, s, why), led' \in BOOLEAN
  PROVE  HttpInv'
<1>1. PICK pk \in {"closing", "gone"} :
          Becomes(c, [s EXCEPT !.pcb = pk, !.mem = "freed", !.end = why])
  BY DEF tcp_close_client_connection
<1> DEFINE u == [s EXCEPT !.pcb = pk, !.mem = "freed", !.end = why]
<1>2. /\ u \in ConState /\ u.pcb = pk /\ u.mem = "freed" /\ u.end = why
      /\ u.heads = s.heads /\ u.pages = s.pages /\ u.twice = s.twice /\ u.again = s.again
  BY DEF ConState
<1>3. Becomes(c, u)
  BY <1>1
<1> HIDE DEF u
<1>4. u.twice => u.again
  BY <1>2
<1>5. why = "done" => u.twice \/ u.heads + u.pages = 0
  BY <1>2
<1>6. Owes(u)
  BY <1>2, <1>4, <1>5 DEF Owes, Live, LeftBehind, Hasty
<1>7. QED
  BY <1>2, <1>3, <1>6, OneConnection

\* The bytes that were acknowledged are counted once.
LEMMA AckCounts ==
  ASSUME HttpInv, NEW c \in Conns, NEW a \in Nat, NEW b \in Nat, Acked(c, a, b)
  PROVE  /\ AfterAck(c, a, b) \in ConState /\ AfterAck(c, a, b).pcb = "open"
         /\ Live(AfterAck(c, a, b))
         /\ AfterAck(c, a, b).twice => AfterAck(c, a, b).again
<1> DEFINE s == con[c]
           u == AfterAck(c, a, b)
<1>1. /\ s \in ConState /\ s.pcb = "open" /\ Live(s) /\ (s.twice => s.again)
      /\ a <= s.heads /\ b <= s.pages
  BY DEF HttpInv, Owes, Acked
<1>2. /\ s.sent_len \in Nat /\ s.heads \in Nat /\ s.pages \in Nat
      /\ s.header_len \in Nat /\ s.result_len \in Nat
  BY <1>1 DEF ConState
<1>3. s.sent_len + a + b \in Nat /\ s.heads - a \in Nat /\ s.pages - b \in Nat
  BY <1>1, <1>2
<1>4. u = [s EXCEPT !.sent_len = s.sent_len + a + b, !.heads = s.heads - a, !.pages = s.pages - b]
  BY DEF AfterAck
<1>5. /\ u \in ConState /\ u.pcb = s.pcb /\ u.mem = s.mem /\ u.end = s.end
      /\ u.whole = s.whole /\ u.again = s.again /\ u.twice = s.twice
      /\ u.header_len = s.header_len /\ u.result_len = s.result_len
      /\ u.sent_len = s.sent_len + a + b /\ u.heads = s.heads - a /\ u.pages = s.pages - b
  BY <1>1, <1>3, <1>4 DEF ConState
<1> HIDE DEF u, s
<1>6. s.heads + s.pages = s.header_len + s.result_len - s.sent_len =>
          u.heads + u.pages = u.header_len + u.result_len - u.sent_len
  <2>1. /\ u.header_len = s.header_len /\ u.result_len = s.result_len
        /\ u.sent_len = s.sent_len + a + b /\ u.heads = s.heads - a /\ u.pages = s.pages - b
    BY <1>5, Zenon
  <2>2. \A w, x, y, z, v \in Nat : w + x = y + z - v =>
            (w - a) + (x - b) = y + z - (v + a + b)
    OBVIOUS
  <2>3. s.heads + s.pages = s.header_len + s.result_len - s.sent_len =>
            (s.heads - a) + (s.pages - b) = s.header_len + s.result_len - (s.sent_len + a + b)
    BY <1>2, <2>2
  <2>4. QED
    BY <2>1, <2>3
<1>7. Live(u) /\ (u.twice => u.again)
  BY <1>1, <1>5, <1>6, Zenon DEF Live
<1>8. QED
  BY <1>1, <1>5, <1>7 DEF u

\* A segment that is no GET touches the headers, a GET the counters too.
LEMMA SegmentComes ==
  ASSUME HttpInv, NEW c \in Conns, con[c].pcb = "open", NEW page \in BOOLEAN
  PROVE  LET s0 == Copied(con[c], page)
             s1 == Restarted(s0, page)
         IN  /\ s0 \in ConState /\ s0.pcb = "open" /\ Live(s0) /\ (s0.twice => s0.again)
             /\ s1 \in ConState /\ s1.pcb = "open" /\ (s1.twice => s1.again)
             /\ s1.end = "none" /\ s1.mem = "live" /\ (s1.whole \/ s1.again)
             /\ s1.sent_len = 0 /\ (s1.twice \/ s1.heads + s1.pages = 0)
             /\ s1.pages \in Nat /\ s1.heads \in Nat
<1> DEFINE s == con[c]
           s0 == Copied(s, page)
           s1 == Restarted(s0, page)
<1>1. s \in ConState /\ s.pcb = "open" /\ Live(s) /\ (s.twice => s.again)
  BY DEF HttpInv, Owes
<1>2. s.heads \in Nat /\ s.pages \in Nat
  BY <1>1 DEF ConState
<1>3. ~(s.heads + s.pages > 0) => s.heads = 0 /\ s.pages = 0 /\ s.heads + s.pages = 0
  BY <1>2
<1>4. /\ s0 \in ConState /\ s0.pcb = s.pcb /\ s0.mem = s.mem /\ s0.end = s.end
      /\ s0.header_len = s.header_len /\ s0.result_len = s.result_len
      /\ s0.sent_len = s.sent_len /\ s0.heads = s.heads /\ s0.pages = s.pages
      /\ s0.twice = s.twice
  BY <1>1 DEF ConState, Copied
<1>5. /\ s0.again <=> s.again \/ s.heads + s.pages > 0
      /\ s0.whole <=> s.whole /\ s.heads = 0 /\ (page => s.pages = 0)
  BY <1>1 DEF ConState, Copied
<1>6. /\ s1 \in ConState /\ s1.pcb = s0.pcb /\ s1.mem = s0.mem /\ s1.end = s0.end
      /\ s1.heads = s0.heads /\ s1.pages = s0.pages /\ s1.sent_len = 0
      /\ s1.whole = s0.whole /\ s1.again = s0.again
  BY <1>4, HttpAssumption DEF ConState, Restarted
<1>7. s1.twice <=> s0.twice \/ s0.heads + s0.pages > 0
  BY <1>4 DEF ConState, Restarted
<1> HIDE DEF s, s0, s1
<1>8. s0.whole \/ s0.again
  BY <1>1, <1>3, <1>5, Zenon DEF Live
<1>9. Live(s0) /\ (s0.twice => s0.again)
  BY <1>1, <1>4, <1>5, <1>8, Zenon DEF Live
<1>10. /\ s1.twice => s1.again
       /\ s1.twice \/ s1.heads + s1.pages = 0
  BY <1>3, <1>4, <1>5, <1>6, <1>7, <1>9, Zenon
<1>11. /\ s1.end = "none" /\ s1.mem = "live" /\ (s1.whole \/ s1.again)
       /\ s1.pages \in Nat /\ s1.heads \in Nat
  BY <1>2, <1>4, <1>6, <1>8, <1>9, Zenon DEF Live
<1>12. QED
  BY <1>1, <1>4, <1>6, <1>9, <1>10, <1>11, Zenon DEF s, s0, s1

\* tcp_server_recv: whatever the segment is and whichever write fails.
LEMMA SegmentKeeps ==
  ASSUME HttpInv, NEW c \in Conns, NEW req \in Requests, NEW h \in BOOLEAN, NEW pp \in BOOLEAN,
         tcp_server_recv_http(c, req, h, pp)
  PROVE  HttpInv'
<1> DEFINE page == req \notin {"post", "other"}
           s0 == Copied(con[c], page)
           s1 == Restarted(s0, page)
           s2 == [s1 EXCEPT !.heads = s1.heads + s1.header_len]
           s3 == [s2 EXCEPT !.pages = s2.pages + s1.result_len]
<1>1. /\ con[c].pcb = "open" /\ led' = test_server_content(req)
      /\ \/ Becomes(c, s0)
         \/ tcp_close_client_connection(c, s1, "failed")
         \/ tcp_close_client_connection(c, s2, "failed")
         \/ Becomes(c, s3)
  BY DEF tcp_server_recv_http
<1>2. led' \in BOOLEAN
  BY <1>1 DEF test_server_content, HttpInv
<1>3. page \in BOOLEAN
  OBVIOUS
<1>4. /\ s0 \in ConState /\ s0.pcb = "open" /\ Live(s0) /\ (s0.twice => s0.again)
      /\ s1 \in ConState /\ s1.pcb = "open" /\ (s1.twice => s1.again)
      /\ s1.end = "none" /\ s1.mem = "live" /\ (s1.whole \/ s1.again)
      /\ s1.sent_len = 0 /\ (s1.twice \/ s1.heads + s1.pages = 0)
      /\ s1.pages \in Nat /\ s1.heads \in Nat
  <2> HIDE DEF page
  <2>1. QED
    BY <1>1, <1>3, SegmentComes, Zenon
<1> HIDE DEF page, s0, s1
<1>5. s1.header_len \in Nat /\ s1.result_len \in Nat
  BY <1>4 DEF ConState
<1>6. /\ s2 \in ConState /\ s2.pcb = "open" /\ s2.twice = s1.twice /\ s2.again = s1.again
      /\ s2.whole = s1.whole /\ s2.end = "none" /\ s2.mem = "live" /\ s2.sent_len = 0
      /\ s2.heads = s1.heads + s1.header_len /\ s2.pages = s1.pages
      /\ s2.header_len = s1.header_len /\ s2.result_len = s1.result_len
  BY <1>4, <1>5 DEF ConState
<1> HIDE DEF s2
<1>7. s2.pages + s1.result_len \in Nat
  BY <1>4, <1>5, <1>6
<1>8. /\ s3 \in ConState /\ s3.pcb = "open" /\ s3.twice = s2.twice /\ s3.again = s2.again
      /\ s3.whole = s2.whole /\ s3.end = "none" /\ s3.mem = "live" /\ s3.sent_len = 0
      /\ s3.heads = s2.heads /\ s3.pages = s2.pages + s1.result_len
      /\ s3.header_len = s2.header_len /\ s3.result_len = s2.result_len
  BY <1>6, <1>7 DEF ConState
<1> HIDE DEF s3
<1>9. s1.heads + s1.pages = 0 =>
          s3.heads + s3.pages = s3.header_len + s3.result_len - s3.sent_len
  BY <1>4, <1>5, <1>6, <1>8
<1>10. Live(s3) /\ (s3.twice => s3.again)
  BY <1>4, <1>6, <1>8, <1>9, Zenon DEF Live
<1>11. CASE Becomes(c, s0)
  <2>1. Owes(s0)
    BY <1>4 DEF Owes, Live
  <2>2. QED
    BY <1>2, <1>4, <1>11, <2>1, OneConnection
<1>12. CASE tcp_close_client_connection(c, s1, "failed")
  BY <1>2, <1>4, <1>12, OneCloses
<1>13. CASE tcp_close_client_connection(c, s2, "failed")
  BY <1>2, <1>4, <1>6, <1>13, OneCloses
<1>14. CASE Becomes(c, s3)
  <2>1. Owes(s3)
    BY <1>8, <1>10 DEF Owes, Live
  <2>2. QED
    BY <1>2, <1>8, <1>14, <2>1, OneConnection
<1>15. QED
  BY <1>1, <1>11, <1>12, <1>13, <1>14

\* A connection whose pcb lwIP has taken back.
LEMMA TakenBack ==
  ASSUME HttpInv, NEW c \in Conns, NEW pk \in {"gone", "stray"}, NEW mk \in {"live", "freed"},
         NEW why \in {"error", "abort"}, pk = "gone" => why = "abort",
         Becomes(c, [con[c] EXCEPT !.pcb = pk, !.mem = mk, !.end = why]), led' \in BOOLEAN
  PROVE  HttpInv'
<1> DEFINE s == con[c]
           u == [s EXCEPT !.pcb = pk, !.mem = mk, !.end = why]
<1>1. s \in ConState /\ (s.twice => s.again)
  BY DEF HttpInv, Owes
<1>2. /\ u \in ConState /\ u.pcb = pk /\ u.end = why
      /\ u.twice = s.twice /\ u.again = s.again
  BY <1>1 DEF ConState
<1> HIDE DEF u, s
<1>3. u.twice => u.again
  BY <1>1, <1>2, Zenon
<1>4. Owes(u)
  BY <1>2, <1>3 DEF Owes, LeftBehind
<1>5. Becomes(c, u)
  BY DEF u, s
<1>6. QED
  BY <1>2, <1>4, <1>5, OneConnection

\* tcp_server_recv, tcp_server_sent and every close, for any segments on any number
\* of connections, any acknowledgements, lengths and failing writes: what lwIP may
\* send again is still what was written, unless a segment came before all of it was
\* acknowledged or the peer, the poll timer or a failed write closed; the server
\* ends no answered connection before its last byte is acknowledged, unless a
\* second GET came too early; and con_state is freed, unless lwIP aborted.
THEOREM PagesAreWhole == HttpSpec => []HttpResponseWhole
<1>1. HttpInit => HttpInv
  <2>1. NoState \in ConState /\ Owes(NoState)
    BY DEF NoState, ConState, Owes
  <2>2. QED
    BY <2>1 DEF HttpInit, HttpInv
<1>2. HttpInv /\ [HttpNext]_httpVars => HttpInv'
  <2> SUFFICES ASSUME HttpInv, [HttpNext]_httpVars
               PROVE  HttpInv'
    OBVIOUS
  <2>0. led \in BOOLEAN /\ \A c \in Conns : con[c] \in ConState /\ Owes(con[c])
    BY DEF HttpInv
  <2>om. NoState \in ConState /\ Owes(NoState)
    BY DEF NoState, ConState, Owes
  <2>1. CASE OpenHttp
    BY <2>1 DEF OpenHttp, HttpInv
  <2>2. ASSUME NEW c \in Conns, tcp_server_accept_http(c)
        PROVE  HttpInv'
    <3> DEFINE s == [NoState EXCEPT !.pcb = "open", !.mem = "live"]
    <3>0. /\ NoState.end = "none" /\ NoState.heads = 0 /\ NoState.pages = 0
          /\ NoState.header_len = 0 /\ NoState.result_len = 0 /\ NoState.sent_len = 0
          /\ NoState.whole /\ ~NoState.twice
      BY DEF NoState
    <3>4. /\ s \in ConState /\ s.pcb = "open" /\ s.mem = "live" /\ s.end = NoState.end
          /\ s.heads = NoState.heads /\ s.pages = NoState.pages
          /\ s.header_len = NoState.header_len /\ s.result_len = NoState.result_len
          /\ s.sent_len = NoState.sent_len /\ s.whole = NoState.whole /\ s.twice = NoState.twice
      BY <2>om DEF ConState
    <3> HIDE DEF s
    <3>1. s \in ConState /\ Owes(s)
      <4>1. s.heads + s.pages = s.header_len + s.result_len - s.sent_len
        BY <3>0, <3>4
      <4>2. Live(s) /\ ~s.twice
        BY <3>0, <3>4, <4>1, Zenon DEF Live
      <4>3. QED
        BY <3>0, <3>4, <4>2 DEF Owes
    <3>2. Becomes(c, s) /\ led' \in BOOLEAN
      BY <2>0, <2>2 DEF tcp_server_accept_http, s
    <3> HIDE DEF s
    <3>3. QED
      BY <3>1, <3>2, OneConnection
  <2>3. ASSUME NEW c \in Conns, PcbReused(c)
        PROVE  HttpInv'
    <3>1. Becomes(c, NoState) /\ led' \in BOOLEAN
      BY <2>0, <2>3 DEF PcbReused
    <3>2. QED
      BY <2>om, <3>1, OneConnection
  <2>4. ASSUME NEW c \in Conns, NEW a \in 0 .. con[c].heads, NEW b \in 0 .. con[c].pages,
               tcp_server_sent_http(c, a, b)
        PROVE  HttpInv'
    <3> DEFINE s == AfterAck(c, a, b)
    <3>1. a \in Nat /\ b \in Nat /\ Acked(c, a, b) /\ led' \in BOOLEAN
      BY <2>0, <2>4 DEF tcp_server_sent_http, ConState
    <3>2. s \in ConState /\ s.pcb = "open" /\ Live(s) /\ (s.twice => s.again)
      BY <3>1, AckCounts, Zenon
    <3>3. \/ /\ s.sent_len >= s.header_len + s.result_len
             /\ tcp_close_client_connection(c, s, "done")
          \/ Becomes(c, s)
      BY <2>4 DEF tcp_server_sent_http
    <3> HIDE DEF s
    <3>4. CASE /\ s.sent_len >= s.header_len + s.result_len
               /\ tcp_close_client_connection(c, s, "done")
      <4>1. /\ s.heads \in Nat /\ s.pages \in Nat /\ s.header_len \in Nat
            /\ s.result_len \in Nat /\ s.sent_len \in Nat
        BY <3>2 DEF ConState
      <4>2. s.heads + s.pages = s.header_len + s.result_len - s.sent_len => s.heads + s.pages = 0
        BY <3>4, <4>1
      <4>3. s.twice \/ s.heads + s.pages = 0
        BY <3>2, <4>2, Zenon DEF Live
      <4>4. QED
        BY <3>1, <3>2, <3>4, <4>3, OneCloses
    <3>5. CASE Becomes(c, s)
      <4>1. Owes(s)
        BY <3>2 DEF Owes, Live
      <4>2. QED
        BY <3>1, <3>2, <3>5, <4>1, OneConnection
    <3>6. QED
      BY <3>3, <3>4, <3>5
  <2>5. ASSUME NEW c \in Conns, NEW req \in Requests, NEW h \in BOOLEAN, NEW pp \in BOOLEAN,
               tcp_server_recv_http(c, req, h, pp)
        PROVE  HttpInv'
    BY <2>5, SegmentKeeps
  <2>6. ASSUME NEW c \in Conns, NEW why \in {"peer", "poll"}, HangUp(c, why)
        PROVE  HttpInv'
    <3> DEFINE s == con[c]
    <3>1. /\ s \in ConState /\ (s.twice => s.again)
          /\ tcp_close_client_connection(c, s, why) /\ led' \in BOOLEAN
      BY <2>0, <2>6 DEF HangUp, Owes
    <3> HIDE DEF s
    <3>2. QED
      BY <3>1, OneCloses
  <2>7. ASSUME NEW c \in Conns, NEW ab \in BOOLEAN, tcp_server_err(c, ab)
        PROVE  HttpInv'
    <3>1. con[c] \in ConState /\ con[c].pcb = "open" /\ con[c].mem = "live" /\ led' \in BOOLEAN
      <4>1. con[c].pcb = "open" /\ led' = led
        BY <2>7 DEF tcp_server_err
      <4>2. con[c] \in ConState /\ Owes(con[c]) /\ led \in BOOLEAN
        BY <2>0
      <4>3. QED
        BY <4>1, <4>2, Zenon DEF Owes, Live
    <3>2. CASE ab
      <4>1. [con[c] EXCEPT !.pcb = "gone", !.end = "abort"] =
                [con[c] EXCEPT !.pcb = "gone", !.mem = "live", !.end = "abort"]
        BY <3>1 DEF ConState
      <4>2. Becomes(c, [con[c] EXCEPT !.pcb = "gone", !.mem = "live", !.end = "abort"])
        BY <2>7, <3>2, <4>1 DEF tcp_server_err
      <4>3. QED
        BY <3>1, <4>2, TakenBack
    <3>3. CASE ~ab
      <4>1. Becomes(c, [con[c] EXCEPT !.pcb = "stray", !.mem = "freed", !.end = "error"])
        BY <2>7, <3>3 DEF tcp_server_err
      <4>2. QED
        BY <3>1, <4>1, TakenBack
    <3>4. QED
      BY <3>2, <3>3
  <2>8. ASSUME NEW c \in Conns, PcbFreed(c)
        PROVE  HttpInv'
    <3> DEFINE s == con[c]
               u == [s EXCEPT !.pcb = "gone"]
    <3>1. s \in ConState /\ s.pcb = "closing" /\ Owes(s)
      BY <2>0, <2>8 DEF PcbFreed
    <3>2. /\ u \in ConState /\ u.pcb = "gone" /\ u.mem = s.mem /\ u.end = s.end
          /\ u.twice = s.twice /\ u.again = s.again /\ u.heads = s.heads /\ u.pages = s.pages
      BY <3>1 DEF ConState
    <3>3. Becomes(c, u) /\ led' \in BOOLEAN
      BY <2>0, <2>8 DEF PcbFreed
    <3> HIDE DEF s, u
    <3>4. u.twice => u.again
      BY <3>1, <3>2, Zenon DEF Owes
    <3>5. u.end = "done" => u.twice \/ u.heads + u.pages = 0
      BY <3>1, <3>2, Zenon DEF Owes
    <3>6. Owes(u)
      BY <3>1, <3>2, <3>4, <3>5 DEF Owes, LeftBehind
    <3>7. QED
      BY <3>2, <3>3, <3>6, OneConnection
  <2>9. CASE UNCHANGED httpVars
    BY <2>9 DEF httpVars, HttpInv
  <2>10. QED
    BY <2>1, <2>2, <2>3, <2>4, <2>5, <2>6, <2>7, <2>8, <2>9 DEF HttpNext
<1>3. HttpInv => HttpResponseWhole
  BY DEF HttpInv, HttpResponseWhole, ConState, Owes, Live, LeftBehind
<1>4. QED
  BY <1>1, <1>2, <1>3, PTL DEF HttpSpec

-----------------------------------------------------------------------------
(* The DHCP server. *)

\* What the server's clock says is left of a stored expiry.
Left(e) == (e * Grain + Grain - 1 - ticks) % TickWrap

LeaseType == [mac : Macs \cup {NoMac}, expiry : Nat]

\* A lease that a client counts on stands in its slot under its name, and the
\* server's clock gives it at least as long as the client does and no more than
\* half a turn.
HeldIsLeased ==
    \A mc \in Macs, sl \in Slots :
        held[mc][sl] > 0 => /\ lease[sl].mac = mc
                          /\ held[mc][sl] <= Left(lease[sl].expiry)
                          /\ Left(lease[sl].expiry) < TickWrap \div 2

\* An offer for a slot that a client counts on is made to that client.
OfferToOwner ==
    \A mc \in Macs, sl \in Slots :
        held[mc][sl] > 0 /\ reply.type = "OFFER" /\ reply.yi = sl => reply.mac = mc

DhcpTypeOK ==
    /\ lease \in [Slots -> LeaseType] /\ ticks \in 0 .. TickWrap - 1
    /\ held \in [Macs -> [Slots -> 0 .. LeaseTicks]]
    /\ DOMAIN reply = {"type", "mac", "yi"}

DhcpInv == DhcpTypeOK /\ HeldIsLeased /\ OfferToOwner

LEMMA TurnOfClock == TickWrap \in Nat \ {0} /\ TickWrap >= 2 /\ LeaseTicks + Grain < TickWrap
<1>1. TickWrap \in Int
  BY DhcpAssumption DEF TickWrap
<1>2. TickWrap \div 2 > 0
  BY <1>1, DhcpAssumption
<1>3. QED
  BY <1>1, <1>2, DhcpAssumption

\* The first of a set of slots is one of them.
LEMMA FirstIsMember ==
  ASSUME NEW S \in SUBSET Slots, S # {}
  PROVE  First(S) \in S
<1>1. S \subseteq Nat
  BY DhcpAssumption DEF Slots
<1>2. PICK sl \in S : \A j \in S : ~(<<j, sl>> \in OpToRel(<, Nat))
  BY <1>1, NatLessThanWellFounded, WFMin
<1>3. \A j \in S : sl <= j
  <2>1. ASSUME NEW j \in S, j < sl
        PROVE  FALSE
    BY <1>1, <1>2, <2>1 DEF OpToRel
  <2>2. QED
    BY <1>1, <2>1
<1>4. QED
  BY <1>3 DEF First

\* The expiry that a request stores: filled up to its unit it leaves the whole
\* lease and less than a unit more, whether the sum wraps or not.
LEMMA StoredExpiry ==
  ASSUME NEW tk \in 0 .. TickWrap - 1,
         NEW e, e = ((tk + LeaseTicks) % TickWrap) \div Grain
  PROVE  /\ e \in Nat
         /\ LeaseTicks <= (e * Grain + Grain - 1 - tk) % TickWrap
         /\ (e * Grain + Grain - 1 - tk) % TickWrap < TickWrap \div 2
<1> DEFINE T == (tk + LeaseTicks) % TickWrap
           x == e * Grain + Grain - 1
<1>0. tk \in Int /\ 0 <= tk /\ tk < TickWrap /\ TickWrap \in Nat \ {0}
  BY TurnOfClock
<1>1. T \in Int /\ 0 <= T /\ T < TickWrap
  BY <1>0, DhcpAssumption, ModInRange
<1>2. T = tk + LeaseTicks \/ T = tk + LeaseTicks - TickWrap
  <2>1. CASE tk + LeaseTicks < TickWrap
    <3>1. tk + LeaseTicks \in 0 .. (TickWrap - 1)
      BY <1>0, <2>1, DhcpAssumption
    <3>2. QED
      BY <1>0, <3>1, SmallMod
  <2>2. CASE ~(tk + LeaseTicks < TickWrap)
    <3> DEFINE y == tk + LeaseTicks - TickWrap
    <3>1. y \in 0 .. (TickWrap - 1)
      BY <1>0, <2>2, DhcpAssumption, TurnOfClock
    <3>2. tk + LeaseTicks = (TickWrap * 1) + y /\ tk + LeaseTicks \in Int
      BY <1>0, DhcpAssumption
    <3>3. Remainder(TickWrap, tk + LeaseTicks, y)
      BY <3>1, <3>2 DEF Remainder
    <3>4. QED
      BY <1>0, <3>2, <3>3, ModIsRemainder, UniqueRemainder
  <2>3. QED
    BY <2>1, <2>2
<1>3. e \in Nat /\ T <= x /\ x <= T + Grain - 1
  <2> HIDE DEF T
  <2>1. e = T \div Grain
    BY DEF T
  <2>2. T = (Grain * e) + (T % Grain) /\ e \in Int /\ T % Grain \in 0 .. (Grain - 1)
    BY <1>1, <2>1, DhcpAssumption, DivMod
  <2>3. e >= 0
    BY <1>1, <2>1, DhcpAssumption
  <2>4. QED
    BY <2>2, <2>3, DhcpAssumption
<1> DEFINE d == LeaseTicks + (x - T)
<1>4. x \in Int
  BY <1>3, DhcpAssumption
<1> HIDE DEF T, x
<1>5. d \in Int /\ LeaseTicks <= d /\ d <= LeaseTicks + Grain - 1 /\ d < TickWrap \div 2
  BY <1>0, <1>1, <1>3, <1>4, DhcpAssumption
<1>6. d \in 0 .. (TickWrap - 1)
  BY <1>0, <1>5, DhcpAssumption, TurnOfClock
<1>7. x - tk = d \/ x - tk = d - TickWrap
  BY <1>0, <1>1, <1>2, <1>4, DhcpAssumption
<1>8. Remainder(TickWrap, x - tk, d)
  <2>1. d - TickWrap = (TickWrap * (-1)) + d /\ d = (TickWrap * 0) + d
    BY <1>0, <1>5
  <2>2. QED
    BY <1>6, <1>7, <2>1 DEF Remainder
<1> HIDE DEF d
<1>9. (x - tk) % TickWrap = d
  <2>1. x - tk \in Int
    BY <1>0, <1>4
  <2>2. QED
    BY <1>0, <1>8, <2>1, ModIsRemainder, UniqueRemainder, Zenon
<1>10. (e * Grain + Grain - 1 - tk) % TickWrap = d
  <2>1. e * Grain + Grain - 1 - tk = x - tk
    BY <1>0, <1>3, DhcpAssumption DEF x
  <2>2. QED
    BY <1>9, <2>1, Zenon
<1>11. QED
  BY <1>3, <1>5, <1>10

\* A tick takes one off what is left, as long as something is.
LEMMA OneTick ==
  ASSUME NEW e \in Nat, NEW tk \in 0 .. TickWrap - 1,
         NEW a, a = (e * Grain + Grain - 1 - tk) % TickWrap, a > 0
  PROVE  (e * Grain + Grain - 1 - ((tk + 1) % TickWrap)) % TickWrap = a - 1
<1> DEFINE x == e * Grain + Grain - 1
           u == (tk + 1) % TickWrap
<1>0. x \in Int /\ tk \in Int /\ TickWrap \in Nat \ {0} /\ 0 <= tk /\ tk < TickWrap
  BY DhcpAssumption, TurnOfClock
<1>1. Remainder(TickWrap, x - tk, a)
  <2>1. x - tk \in Int
    BY <1>0
  <2>2. e * Grain + Grain - 1 - tk = x - tk
    BY <1>0, DhcpAssumption
  <2> HIDE DEF x
  <2>3. QED
    BY <1>0, <2>1, <2>2, ModIsRemainder, Zenon
<1> HIDE DEF x
<1>2. PICK q \in Int : x - tk = (TickWrap * q) + a
  BY <1>1 DEF Remainder
<1>3. a \in Int /\ a - 1 \in 0 .. (TickWrap - 1)
  BY <1>0, <1>1 DEF Remainder
<1>4. u = tk + 1 \/ (u = 0 /\ tk + 1 = TickWrap)
  <2>1. CASE tk + 1 < TickWrap
    <3>1. tk + 1 \in 0 .. (TickWrap - 1)
      BY <1>0, <2>1
    <3>2. QED
      BY <1>0, <3>1, SmallMod
  <2>2. CASE tk + 1 = TickWrap
    <3>1. 0 \in 0 .. (TickWrap - 1) /\ TickWrap = (TickWrap * 1) + 0
      BY <1>0
    <3>2. Remainder(TickWrap, TickWrap, 0)
      BY <3>1 DEF Remainder
    <3>3. TickWrap % TickWrap = 0
      BY <1>0, <3>2, ModIsRemainder, UniqueRemainder
    <3>4. QED
      BY <2>2, <3>3
  <2>3. QED
    BY <1>0, <2>1, <2>2
<1> HIDE DEF u
<1>5. x - u = (TickWrap * q) + (a - 1) \/ x - u = (TickWrap * (q + 1)) + (a - 1)
  <2>1. CASE u = tk + 1
    BY <1>0, <1>2, <1>3, <2>1
  <2>2. CASE u = 0 /\ tk + 1 = TickWrap
    <3> DEFINE pp == TickWrap * q
    <3>1. pp \in Int /\ TickWrap * (q + 1) = pp + TickWrap
      BY <1>0
    <3>2. x - tk = pp + a
      BY <1>2
    <3> HIDE DEF pp
    <3>3. x - u = (pp + TickWrap) + (a - 1)
      BY <1>0, <1>3, <2>2, <3>1, <3>2
    <3>4. QED
      BY <3>1, <3>3
  <2>3. QED
    BY <1>4, <2>1, <2>2
<1>6. Remainder(TickWrap, x - u, a - 1)
  BY <1>3, <1>5 DEF Remainder
<1>7. x - u \in Int
  BY <1>0, <1>4
<1>8. (x - u) % TickWrap = a - 1
  BY <1>0, <1>6, <1>7, ModIsRemainder, UniqueRemainder
<1>9. e * Grain + Grain - 1 - u = x - u
  BY <1>0, <1>4, DhcpAssumption DEF x
<1>10. QED
  BY <1>8, <1>9, Zenon DEF u

LEMMA LeftTyped ==
  ASSUME DhcpTypeOK, NEW e \in Nat
  PROVE  Left(e) \in Int /\ TickWrap \div 2 \in Int
<1>1. e * Grain + Grain - 1 - ticks \in Int
  BY DhcpAssumption DEF DhcpTypeOK
<1>2. TickWrap \in Nat \ {0}
  BY TurnOfClock
<1>3. Left(e) \in 0 .. (TickWrap - 1)
  BY <1>1, <1>2, ModInRange, Zenon DEF Left
<1>4. QED
  BY <1>2, <1>3

\* A slot that a client counts on is not one that the search hands out.
LEMMA HeldNotReusable ==
  ASSUME DhcpTypeOK, HeldIsLeased, NEW mc \in Macs, NEW sl \in Slots, held[mc][sl] > 0
  PROVE  sl \notin Reusable
<1>1. lease[sl].mac = mc /\ Left(lease[sl].expiry) < TickWrap \div 2
  BY DEF HeldIsLeased
<1>2. lease[sl].mac # NoMac
  BY <1>1, DhcpAssumption
<1>3. lease[sl].expiry \in Nat
  BY DEF DhcpTypeOK, LeaseType
<1>4. Left(lease[sl].expiry) \in Int /\ TickWrap \div 2 \in Int
  BY <1>3, LeftTyped
<1>5. ~Expired(lease[sl].expiry)
  BY <1>1, <1>4 DEF Expired, Left
<1>6. QED
  BY <1>2, <1>5 DEF Reusable


\* The search frees no slot that a client counts on, and offers one to its own
\* client only.
LEMMA DiscoverKeeps ==
  ASSUME DhcpInv, NEW mac \in Macs, Discover(mac)
  PROVE  DhcpInv'
<1> DEFINE own    == Matches(mac)
           before == IF own = {} THEN Reusable ELSE {sl \in Reusable : sl < First(own)}
           freed  == IF before = {} THEN {} ELSE {First(before)}
           yi     == First(IF own # {} THEN own ELSE freed)
<1>0. DhcpTypeOK /\ HeldIsLeased /\ OfferToOwner
  BY DEF DhcpInv
<1>1. own \in SUBSET Slots /\ before \in SUBSET Slots /\ before \subseteq Reusable
  BY DEF Matches, Reusable
<1>2. freed \subseteq Reusable /\ freed \in SUBSET Slots
  <2>1. CASE before = {}
    BY <2>1
  <2>2. CASE before # {}
    <3>1. First(before) \in before
      BY <1>1, <2>2, FirstIsMember, Zenon
    <3> HIDE DEF before
    <3>2. QED
      BY <1>1, <2>2, <3>1
  <2>3. QED
    BY <2>1, <2>2
<1>3. own \cup freed # {} => yi \in own \cup freed /\ (own # {} => yi \in own)
  <2>1. CASE own # {}
    BY <1>1, <2>1, FirstIsMember
  <2>2. CASE own = {}
    BY <1>2, <2>2, FirstIsMember
  <2>3. QED
    BY <2>1, <2>2
<1>4. /\ lease' = [sl \in Slots |-> IF sl \in freed THEN [lease[sl] EXCEPT !.mac = NoMac]
                                                  ELSE lease[sl]]
      /\ reply' = IF own \cup freed = {} THEN reply
                  ELSE [type |-> "OFFER", mac |-> mac, yi |-> yi]
      /\ UNCHANGED <<ticks, held>>
  BY DEF Discover
<1>5. \A sl \in own : lease[sl].mac = mac
  BY DEF Matches
<1> HIDE DEF own, before, freed, yi
<1>6. \A mc \in Macs, sl \in Slots : held[mc][sl] > 0 => sl \notin freed /\ lease'[sl] = lease[sl]
  BY <1>0, <1>2, <1>4, HeldNotReusable
<1>7. DhcpTypeOK'
  <2>1. \A sl \in Slots : lease[sl] \in LeaseType
    BY <1>0 DEF DhcpTypeOK
  <2>2. lease' \in [Slots -> LeaseType]
    BY <1>4, <2>1 DEF LeaseType
  <2>3. QED
    BY <1>0, <1>4, <2>2 DEF DhcpTypeOK
<1>8. HeldIsLeased'
  BY <1>0, <1>4, <1>6 DEF HeldIsLeased, Left
<1>9. OfferToOwner'
  <2> SUFFICES ASSUME NEW mc \in Macs, NEW sl \in Slots, held[mc][sl] > 0,
                      reply'.type = "OFFER", reply'.yi = sl
               PROVE  reply'.mac = mc
    BY <1>4 DEF OfferToOwner
  <2>1. CASE own \cup freed = {}
    BY <1>0, <1>4, <2>1 DEF OfferToOwner
  <2>2. CASE own \cup freed # {}
    <3>1. reply' = [type |-> "OFFER", mac |-> mac, yi |-> yi]
      BY <1>4, <2>2
    <3>2. sl \in own \cup freed
      BY <1>3, <2>2, <3>1
    <3>3. sl \in own
      BY <1>6, <3>2
    <3>4. lease[sl].mac = mac /\ lease[sl].mac = mc
      BY <1>0, <1>5, <3>3 DEF HeldIsLeased
    <3>5. QED
      BY <3>1, <3>4
  <2>3. QED
    BY <2>1, <2>2
<1>10. QED
  BY <1>7, <1>8, <1>9 DEF DhcpInv

\* A request writes the slot of its client or a free one, with a whole lease.
LEMMA RequestKeeps ==
  ASSUME DhcpInv, NEW mac \in Macs, NEW yi, NEW heard \in BOOLEAN, Request(mac, yi, heard)
  PROVE  DhcpInv'
<1> DEFINE e == ((ticks + LeaseTicks) % TickWrap) \div Grain
           new == [mac |-> mac, expiry |-> e]
<1>0. DhcpTypeOK /\ HeldIsLeased /\ OfferToOwner
  BY DEF DhcpInv
<1>1. /\ yi \in Slots /\ lease[yi].mac \in {mac, NoMac}
      /\ lease' = [lease EXCEPT ![yi] = new]
      /\ reply' = [type |-> "ACK", mac |-> mac, yi |-> yi]
      /\ held' = IF heard THEN [held EXCEPT ![mac][yi] = LeaseTicks] ELSE held
      /\ ticks' = ticks
  BY DEF Request
<1>2. ticks \in 0 .. TickWrap - 1
  BY <1>0 DEF DhcpTypeOK
<1>3. e \in Nat /\ LeaseTicks <= Left(e) /\ Left(e) < TickWrap \div 2
  BY <1>2, StoredExpiry DEF Left
<1> HIDE DEF e
<1>4. new \in LeaseType /\ new.mac = mac /\ new.expiry = e
  BY <1>3 DEF LeaseType
<1> HIDE DEF new
<1>5. LeaseTicks \in Nat
  BY DhcpAssumption
<1>6. DhcpTypeOK'
  <2>1. lease' \in [Slots -> LeaseType]
    BY <1>0, <1>1, <1>4 DEF DhcpTypeOK
  <2>2. held' \in [Macs -> [Slots -> 0 .. LeaseTicks]]
    BY <1>0, <1>1, <1>5 DEF DhcpTypeOK
  <2>3. DOMAIN reply' = {"type", "mac", "yi"}
    BY <1>1
  <2>4. QED
    BY <1>1, <1>2, <2>1, <2>2, <2>3 DEF DhcpTypeOK
<1>7. \A mc \in Macs, sl \in Slots :
        held'[mc][sl] = (IF heard /\ mc = mac /\ sl = yi THEN LeaseTicks ELSE held[mc][sl])
  BY <1>0, <1>1 DEF DhcpTypeOK
<1>8. \A sl \in Slots : lease'[sl] = (IF sl = yi THEN new ELSE lease[sl])
  BY <1>0, <1>1 DEF DhcpTypeOK
<1>9. HeldIsLeased'
  <2> SUFFICES ASSUME NEW mc \in Macs, NEW sl \in Slots, held'[mc][sl] > 0
               PROVE  /\ lease'[sl].mac = mc
                      /\ held'[mc][sl] <= Left(lease'[sl].expiry)
                      /\ Left(lease'[sl].expiry) < TickWrap \div 2
    BY <1>1 DEF HeldIsLeased, Left
  <2>1. CASE sl # yi
    <3>1. held'[mc][sl] = held[mc][sl] /\ lease'[sl] = lease[sl]
      BY <1>7, <1>8, <2>1
    <3>2. QED
      BY <1>0, <3>1 DEF HeldIsLeased
  <2>2. CASE sl = yi
    <3>1. lease'[sl].mac = mac /\ lease'[sl].expiry = e
      BY <1>4, <1>8, <2>2
    <3>2. CASE heard /\ mc = mac
      <4>1. held'[mc][sl] = LeaseTicks
        BY <1>7, <2>2, <3>2
      <4>2. QED
        BY <1>3, <3>1, <3>2, <4>1
    <3>3. CASE ~(heard /\ mc = mac)
      <4>1. held'[mc][sl] = held[mc][sl]
        BY <1>7, <3>3
      <4>2. lease[sl].mac = mc /\ held[mc][sl] <= Left(lease[sl].expiry)
        BY <1>0, <4>1 DEF HeldIsLeased
      <4>3. mc = mac
        BY <1>1, <2>2, <4>2, DhcpAssumption
      <4>4. held[mc][sl] <= LeaseTicks
        BY <1>0 DEF DhcpTypeOK
      <4>5. QED
        <5>1. held[mc][sl] \in Nat /\ Left(e) \in Int
          BY <1>0, <1>3, <1>5, LeftTyped DEF DhcpTypeOK
        <5>2. held[mc][sl] <= Left(e)
          BY <1>3, <1>5, <4>4, <5>1
        <5>3. QED
          BY <1>3, <3>1, <4>1, <4>3, <5>2
    <3>4. QED
      BY <3>2, <3>3
  <2>3. QED
    BY <2>1, <2>2
<1>10. OfferToOwner'
  BY <1>1 DEF OfferToOwner
<1>11. QED
  BY <1>6, <1>9, <1>10 DEF DhcpInv

\* A tick takes one off every lease, on both sides.
LEMMA TickKeeps ==
  ASSUME DhcpInv, DhcpTick
  PROVE  DhcpInv'
<1>0. DhcpTypeOK /\ HeldIsLeased /\ OfferToOwner
  BY DEF DhcpInv
<1>1. /\ ticks' = (ticks + 1) % TickWrap
      /\ held' = [mc \in Macs |-> [sl \in Slots |-> IF held[mc][sl] = 0 THEN 0 ELSE held[mc][sl] - 1]]
      /\ UNCHANGED <<lease, reply>>
  BY DEF DhcpTick
<1> DEFINE less(mc, sl) == IF held[mc][sl] = 0 THEN 0 ELSE held[mc][sl] - 1
<1>2. \A mc \in Macs, sl \in Slots : held[mc][sl] \in Nat /\ less(mc, sl) \in 0 .. LeaseTicks
  <2> SUFFICES ASSUME NEW mc \in Macs, NEW sl \in Slots
               PROVE  held[mc][sl] \in Nat /\ less(mc, sl) \in 0 .. LeaseTicks
    OBVIOUS
  <2>1. held[mc][sl] \in 0 .. LeaseTicks
    BY <1>0 DEF DhcpTypeOK
  <2>2. QED
    BY <2>1, DhcpAssumption
<1>a. held' = [mc \in Macs |-> [sl \in Slots |-> less(mc, sl)]]
  BY <1>1
<1> HIDE DEF less
<1>b. \A mc \in Macs, sl \in Slots : held'[mc][sl] = less(mc, sl)
  BY <1>a
<1>c. held' \in [Macs -> [Slots -> 0 .. LeaseTicks]]
  BY <1>2, <1>a
<1>3. \A mc \in Macs, sl \in Slots :
        held'[mc][sl] = (IF held[mc][sl] = 0 THEN 0 ELSE held[mc][sl] - 1)
  BY <1>b DEF less
<1>4. ticks \in 0 .. TickWrap - 1 /\ ticks' \in 0 .. TickWrap - 1
  <2>1. ticks \in 0 .. TickWrap - 1 /\ TickWrap \in Nat \ {0}
    BY <1>0, TurnOfClock DEF DhcpTypeOK
  <2>2. ticks + 1 \in Int
    BY <2>1
  <2>3. QED
    BY <1>1, <2>1, <2>2, ModInRange, Zenon
<1>5. DhcpTypeOK'
  BY <1>0, <1>1, <1>4, <1>c DEF DhcpTypeOK
<1>6. HeldIsLeased'
  <2> SUFFICES ASSUME NEW mc \in Macs, NEW sl \in Slots, held'[mc][sl] > 0
               PROVE  /\ lease[sl].mac = mc
                      /\ held'[mc][sl] <= Left(lease[sl].expiry)'
                      /\ Left(lease[sl].expiry)' < TickWrap \div 2
    BY <1>1 DEF HeldIsLeased, Left
  <2>1. held[mc][sl] \in Nat /\ held[mc][sl] > 0 /\ held'[mc][sl] = held[mc][sl] - 1
    BY <1>2, <1>3
  <2> DEFINE e == lease[sl].expiry
             a == Left(e)
  <2>2. lease[sl].mac = mc /\ held[mc][sl] <= a /\ a < TickWrap \div 2
    BY <1>0, <2>1 DEF HeldIsLeased
  <2>3. e \in Nat
    BY <1>0 DEF DhcpTypeOK, LeaseType
  <2>4. a \in Int
    BY <1>0, <2>3, LeftTyped
  <2>5. a > 0
    BY <2>1, <2>2, <2>4
  <2>6. Left(e)' = a - 1
    <3>1. a = (e * Grain + Grain - 1 - ticks) % TickWrap
      BY DEF Left
    <3>2. (e * Grain + Grain - 1 - ((ticks + 1) % TickWrap)) % TickWrap = a - 1
      BY <1>4, <2>3, <2>5, <3>1, OneTick
    <3>3. Left(e)' = (e * Grain + Grain - 1 - ((ticks + 1) % TickWrap)) % TickWrap
      BY <1>1 DEF Left
    <3>4. QED
      BY <3>2, <3>3
  <2>7. TickWrap \div 2 \in Int
    BY TurnOfClock
  <2> HIDE DEF a
  <2>8. QED
    BY <2>1, <2>2, <2>4, <2>6, <2>7
<1>7. OfferToOwner'
  BY <1>0, <1>1, <1>2, <1>3 DEF OfferToOwner
<1>8. QED
  BY <1>5, <1>6, <1>7 DEF DhcpInv

\* dhcp_server_process: an address is never in use by two clients, nor offered to a
\* second one while the first counts on it, over lost answers, repeated requests and
\* every wrap of the tick counter and of the stored expiry, for every number of
\* clients and addresses and every lease shorter than half a turn of the clock.
THEOREM LeasesExclusive == DhcpSpec => []LeaseExclusive
<1>1. DhcpInit => DhcpInv
  <2> SUFFICES ASSUME DhcpInit
               PROVE  DhcpInv
    OBVIOUS
  <2>1. DhcpTypeOK
    BY DhcpAssumption, TurnOfClock DEF DhcpInit, DhcpTypeOK, LeaseType, NoReply
  <2>2. \A mc \in Macs, sl \in Slots : ~(held[mc][sl] > 0)
    BY DEF DhcpInit
  <2>3. QED
    BY <2>1, <2>2 DEF DhcpInv, HeldIsLeased, OfferToOwner
<1>2. DhcpInv /\ [DhcpNext]_dhcpVars => DhcpInv'
  <2> SUFFICES ASSUME DhcpInv, [DhcpNext]_dhcpVars
               PROVE  DhcpInv'
    OBVIOUS
  <2>1. ASSUME NEW mac \in Macs, Discover(mac)
        PROVE  DhcpInv'
    BY <2>1, DiscoverKeeps
  <2>2. ASSUME NEW mac \in Macs, NEW yi, NEW heard \in BOOLEAN, Request(mac, yi, heard)
        PROVE  DhcpInv'
    BY <2>2, RequestKeeps
  <2>3. CASE DhcpTick
    BY <2>3, TickKeeps
  <2>4. CASE UNCHANGED dhcpVars
    BY <2>4 DEF dhcpVars, DhcpInv, DhcpTypeOK, HeldIsLeased, OfferToOwner, Left
  <2>5. QED
    BY <2>1, <2>2, <2>3, <2>4 DEF DhcpNext, dhcp_server_process, IgnoreRequest
<1>3. DhcpInv => LeaseExclusive
  <2> SUFFICES ASSUME DhcpInv, NEW mc \in Macs, NEW sl \in Slots, held[mc][sl] > 0
               PROVE  /\ \A om \in Macs \ {mc} : held[om][sl] = 0
                      /\ lease[sl].mac = mc
                      /\ (reply.type = "OFFER" /\ reply.yi = sl => reply.mac = mc)
    BY DEF LeaseExclusive
  <2>1. lease[sl].mac = mc
    BY DEF DhcpInv, HeldIsLeased
  <2>2. \A om \in Macs \ {mc} : held[om][sl] \in Nat /\ ~(held[om][sl] > 0)
    BY <2>1 DEF DhcpInv, DhcpTypeOK, HeldIsLeased
  <2>3. QED
    BY <2>1, <2>2 DEF DhcpInv, OfferToOwner
<1>4. QED
  BY <1>1, <1>2, <1>3, PTL DEF DhcpSpec


-----------------------------------------------------------------------------
\* picow_access_point: what the three servers promise holds for the program.
THEOREM AccessPointIsSound == AccessPointSpec => []AccessPointServes
BY LeasesExclusive, AnswersFit, PagesAreWhole, PTL DEF AccessPointSpec, AccessPointServes

-----------------------------------------------------------------------------
(* The TCP echo server and client. *)

\* The first `off` bytes of round k.
Begun(k, off) == [e \in 1 .. off |-> <<k, e>>]
\* The `cnt` bytes of round k behind the first `off`, and all that follow those
\* `off`, each with the acknowledgement that its segment has.
Part(k, off, cnt) == [e \in 1 .. cnt |-> <<k, off + e>>]
Stream(k, off, ack) == [e \in 1 .. BUF_SIZE - off |-> [v |-> <<k, off + e>>, ack |-> ack]]
Octets == Nat \X Nat
Carried == [v : Octets, ack : Nat]

LEMMA Sizes ==
  BUF_SIZE \in Int /\ BUF_SIZE > 0 /\ TEST_ITERATIONS \in Int /\ TEST_ITERATIONS > 0
BY EchoAssumption

LEMMA RoundStarts ==
  /\ \A k \in Nat : k * BUF_SIZE \in Nat /\ (k + 1) * BUF_SIZE = k * BUF_SIZE + BUF_SIZE
  /\ \A k, cnt \in Nat : k < cnt => k * BUF_SIZE + BUF_SIZE <= cnt * BUF_SIZE
  /\ 0 * BUF_SIZE = 0
<1>1. BUF_SIZE \in Nat /\ BUF_SIZE > 0
  BY EchoAssumption
<1>2. \A k \in Nat : k * BUF_SIZE \in Nat /\ (k + 1) * BUF_SIZE = k * BUF_SIZE + BUF_SIZE
  BY <1>1
<1>3. ASSUME NEW k \in Nat, NEW cnt \in Nat, k < cnt PROVE k * BUF_SIZE + BUF_SIZE <= cnt * BUF_SIZE
  <2>1. cnt * BUF_SIZE = (k + 1) * BUF_SIZE + (cnt - (k + 1)) * BUF_SIZE
    BY <1>1
  <2>2. cnt - (k + 1) \in Nat
    BY <1>3
  <2>3. (cnt - (k + 1)) * BUF_SIZE >= 0
    BY <1>1, <2>2
  <2>4. cnt * BUF_SIZE \in Int /\ (cnt - (k + 1)) * BUF_SIZE \in Int
    BY <1>1, <2>2
  <2>5. QED
    BY <1>1, <1>2, <2>1, <2>3, <2>4
<1>4. 0 * BUF_SIZE = 0
  BY <1>1
<1>5. QED
  BY <1>2, <1>3, <1>4

LEMMA BegunIsSeq ==
  ASSUME NEW k \in Nat, NEW off \in Nat
  PROVE  Begun(k, off) \in Seq(Octets) /\ Len(Begun(k, off)) = off
BY DEF Begun, Octets

LEMMA PartIsSeq ==
  ASSUME NEW k \in Nat, NEW off \in Nat, NEW cnt \in Nat
  PROVE  Part(k, off, cnt) \in Seq(Octets) /\ Len(Part(k, off, cnt)) = cnt
BY DEF Part, Octets

LEMMA StreamIsSeq ==
  ASSUME NEW k \in Nat, NEW off \in Nat, NEW a \in Nat, off <= BUF_SIZE
  PROVE  /\ Stream(k, off, a) \in Seq(Carried) /\ Len(Stream(k, off, a)) = BUF_SIZE - off
         /\ \A e \in 1 .. BUF_SIZE - off : Stream(k, off, a)[e] = [v |-> <<k, off + e>>, ack |-> a]
<1> DEFINE l == BUF_SIZE - off
           g(e) == [v |-> <<k, off + e>>, ack |-> a]
<1>1. l \in Nat
  BY Sizes
<1>2. ASSUME NEW e \in 1 .. l PROVE g(e) \in Carried
  <2>1. off + e \in Nat
    BY <1>1, <1>2
  <2>2. <<k, off + e>> \in Octets
    BY <2>1 DEF Octets
  <2>3. QED
    BY <2>2 DEF Carried
<1>3. Stream(k, off, a) = [e \in 1 .. l |-> g(e)]
  BY DEF Stream
<1> HIDE DEF l, g
<1>4. [e \in 1 .. l |-> g(e)] \in Seq(Carried) /\ Len([e \in 1 .. l |-> g(e)]) = l
  BY <1>1, <1>2
<1>5. \A e \in 1 .. l : Stream(k, off, a)[e] = g(e)
  BY <1>3
<1>6. QED
  BY <1>3, <1>4, <1>5 DEF l, g

\* Fill takes all of a part that fits.
LEMMA FillRound ==
  ASSUME NEW k \in Nat, NEW off \in Nat, NEW cnt \in Nat, off + cnt <= BUF_SIZE
  PROVE  Fill(Begun(k, off), Part(k, off, cnt)) = Begun(k, off + cnt)
<1> DEFINE H == Begun(k, off)
           P == Part(k, off, cnt)
<1>1. H \in Seq(Octets) /\ Len(H) = off /\ \A e \in 1 .. off : H[e] = <<k, e>>
  BY BegunIsSeq DEF Begun
<1>2. P \in Seq(Octets) /\ Len(P) = cnt /\ \A e \in 1 .. cnt : P[e] = <<k, off + e>>
  <2>1. \A e \in 1 .. cnt : P[e] = <<k, off + e>>
    BY Zenon DEF Part
  <2>2. QED
    BY <2>1, PartIsSeq, Zenon
<1> HIDE DEF H, P
<1>3. SubSeq(P, 1, cnt) = P
  <2>1. \A e \in 1 .. cnt : P[e] \in Octets
    BY <1>2
  <2>2. /\ SubSeq(P, 1, cnt) \in Seq(Octets)
        /\ Len(SubSeq(P, 1, cnt)) = IF 1 <= cnt THEN cnt - 1 + 1 ELSE 0
        /\ \A e \in 1 .. cnt - 1 + 1 : SubSeq(P, 1, cnt)[e] = P[1 + e - 1]
    BY <2>1, SubSeqProperties
  <2>3. Len(SubSeq(P, 1, cnt)) = Len(P)
    BY <1>2, <2>2
  <2>4. \A e \in 1 .. Len(P) : SubSeq(P, 1, cnt)[e] = P[e]
    BY <1>2, <2>2
  <2>5. QED
    BY <1>2, <2>2, <2>3, <2>4, SeqEqual
<1>4. Fill(H, P) = H \o P
  <2>1. ~(Len(P) > BUF_SIZE - Len(H))
    BY <1>1, <1>2, Sizes
  <2>2. QED
    BY <1>2, <1>3, <2>1 DEF Fill
<1>5. /\ H \o P \in Seq(Octets) /\ Len(H \o P) = Len(H) + Len(P)
      /\ \A e \in 1 .. Len(H) + Len(P) : (H \o P)[e] = IF e <= Len(H) THEN H[e] ELSE P[e - Len(H)]
  BY <1>1, <1>2, ConcatProperties
<1>6. ASSUME NEW e \in 1 .. off + cnt PROVE (H \o P)[e] = Begun(k, off + cnt)[e]
  <2>1. (H \o P)[e] = IF e <= off THEN H[e] ELSE P[e - off]
    BY <1>1, <1>2, <1>5
  <2>2. CASE e <= off
    BY <1>1, <2>1, <2>2 DEF Begun
  <2>3. CASE e > off
    <3>1. P[e - off] = <<k, off + (e - off)>>
      BY <1>2, <2>3
    <3>2. QED
      BY <2>1, <2>3, <3>1 DEF Begun
  <2>4. e <= off \/ e > off
    OBVIOUS
  <2>5. QED
    BY <2>2, <2>3, <2>4
<1>7. Begun(k, off + cnt) \in Seq(Octets) /\ Len(Begun(k, off + cnt)) = off + cnt
  BY BegunIsSeq
<1>8. H \o P = Begun(k, off + cnt)
  <2>1. Len(H \o P) = off + cnt
    BY <1>1, <1>2, <1>5
  <2>2. QED
    BY <1>5, <1>6, <1>7, <2>1, SeqEqual
<1>9. QED
  BY <1>4, <1>8 DEF H, P

LEMMA StreamTyped ==
  ASSUME NEW k \in Nat, NEW off \in Nat, NEW a \in Nat, off <= BUF_SIZE,
         NEW s, s = Stream(k, off, a)
  PROVE  /\ s \in Seq(Carried) /\ Len(s) = BUF_SIZE - off
         /\ \A e \in 1 .. BUF_SIZE - off : s[e] = [v |-> <<k, off + e>>, ack |-> a]
<1>1. SUFFICES /\ Stream(k, off, a) \in Seq(Carried) /\ Len(Stream(k, off, a)) = BUF_SIZE - off
               /\ \A e \in 1 .. BUF_SIZE - off :
                      Stream(k, off, a)[e] = [v |-> <<k, off + e>>, ack |-> a]
  BY Zenon
<1>2. QED
  BY StreamIsSeq

\* What a segment of `cnt` bytes carries, and what it leaves.
Carries(s, k, off, a, cnt) ==
  /\ off + cnt <= BUF_SIZE
  /\ [e \in 1 .. cnt |-> s[e].v] = Part(k, off, cnt)
  /\ SubSeq(s, cnt + 1, Len(s)) = Stream(k, off + cnt, a)
  /\ cnt > 0 => s[cnt].ack = a

LEMMA SegmentOf ==
  ASSUME NEW k \in Nat, NEW off \in Nat, NEW a \in Nat, NEW cnt \in Nat, off <= BUF_SIZE,
         NEW s, s = Stream(k, off, a), cnt <= Len(s)
  PROVE  Carries(s, k, off, a, cnt)
<1>1. s \in Seq(Carried) /\ Len(s) = BUF_SIZE - off
  BY StreamTyped
<1>2. \A e \in 1 .. BUF_SIZE - off : s[e] = [v |-> <<k, off + e>>, ack |-> a]
  BY StreamTyped
<1>3. off + cnt <= BUF_SIZE
  BY <1>1, Sizes
<1>4. \A e \in 1 .. cnt : e \in 1 .. BUF_SIZE - off
  BY <1>3, Sizes
<1>5. [e \in 1 .. cnt |-> s[e].v] = Part(k, off, cnt)
  <2>1. ASSUME NEW e \in 1 .. cnt PROVE s[e].v = <<k, off + e>>
    <3>1. s[e] = [v |-> <<k, off + e>>, ack |-> a]
      BY <1>2, <1>4, Zenon
    <3>2. QED
      BY <3>1
  <2>2. QED
    BY <2>1, Zenon DEF Part
<1>6. cnt > 0 => s[cnt].ack = a
  <2>1. SUFFICES ASSUME cnt > 0 PROVE s[cnt].ack = a
    OBVIOUS
  <2>2. cnt \in 1 .. BUF_SIZE - off
    BY <1>4, <2>1
  <2>3. s[cnt] = [v |-> <<k, off + cnt>>, ack |-> a]
    BY <1>2, <2>2, Zenon
  <2>4. QED
    BY <2>3
<1>7. SubSeq(s, cnt + 1, Len(s)) = Stream(k, off + cnt, a)
  <2> DEFINE l == BUF_SIZE - off
             r == SubSeq(s, cnt + 1, l)
             nx == Stream(k, off + cnt, a)
  <2>1. l \in Nat /\ cnt <= l /\ \A e \in cnt + 1 .. l : s[e] \in Carried
    <3>1. l \in Nat /\ cnt <= l
      BY <1>3, Sizes
    <3>2. \A e \in cnt + 1 .. l : e \in 1 .. Len(s)
      BY <1>1
    <3>3. QED
      BY <1>1, <3>1, <3>2
  <2>2. /\ r \in Seq(Carried)
        /\ Len(r) = IF cnt + 1 <= l THEN l - (cnt + 1) + 1 ELSE 0
        /\ \A e \in 1 .. l - (cnt + 1) + 1 : r[e] = s[(cnt + 1) + e - 1]
    <3> HIDE DEF l
    <3>1. QED
      BY <2>1, SubSeqProperties
  <2>3. nx \in Seq(Carried) /\ Len(nx) = BUF_SIZE - (off + cnt)
    BY <1>3, StreamIsSeq
  <2>4. Len(r) = Len(nx)
    <3> HIDE DEF r, nx
    <3>1. QED
      BY <2>1, <2>2, <2>3, Sizes
  <2>5. ASSUME NEW e \in 1 .. Len(nx) PROVE r[e] = nx[e]
    <3>1. e \in Nat /\ e \in 1 .. l - cnt /\ e \in 1 .. BUF_SIZE - (off + cnt)
      BY <2>1, <2>3, Sizes
    <3>2. r[e] = s[(cnt + 1) + e - 1]
      <4> HIDE DEF r, l
      <4>1. e \in 1 .. l - (cnt + 1) + 1
        BY <2>1, <3>1
      <4>2. QED
        BY <2>2, <4>1
    <3>3. (cnt + 1) + e - 1 = cnt + e /\ cnt + e \in 1 .. BUF_SIZE - off
      BY <2>1, <3>1, Sizes
    <3>4. s[cnt + e] = [v |-> <<k, off + (cnt + e)>>, ack |-> a]
      BY <1>2, <3>3
    <3>5. nx[e] = [v |-> <<k, (off + cnt) + e>>, ack |-> a]
      BY <3>1 DEF Stream
    <3>6. off + (cnt + e) = (off + cnt) + e
      BY <3>1
    <3> HIDE DEF r, nx
    <3>7. QED
      BY <3>2, <3>3, <3>4, <3>5, <3>6
  <2> HIDE DEF l, r, nx
  <2>6. r = nx
    BY <2>2, <2>3, <2>4, <2>5, SeqEqual
  <2>7. QED
    BY <1>1, <2>6 DEF l, r, nx
<1>8. QED
  BY <1>3, <1>5, <1>6, <1>7, Zenon DEF Carries

LEMMA StreamEnds ==
  ASSUME NEW k, NEW a
  PROVE  Stream(k, BUF_SIZE, a) = <<>>
<1>1. 1 .. BUF_SIZE - BUF_SIZE = {}
  BY Sizes
<1>2. QED
  BY <1>1 DEF Stream

\* A whole buffer goes out.
LEMMA WholeBuffer ==
  ASSUME NEW k \in Nat, NEW side, NEW a \in Nat, got'[side] = a
  PROVE  /\ Written(Begun(k, BUF_SIZE), side) = Stream(k, 0, a)
         /\ <<>> \o Written(Begun(k, BUF_SIZE), side) = Stream(k, 0, a)
<1>1. Len(Begun(k, BUF_SIZE)) = BUF_SIZE /\ BUF_SIZE - 0 = BUF_SIZE
  BY BegunIsSeq, EchoAssumption
<1>2. \A e \in 1 .. BUF_SIZE : Begun(k, BUF_SIZE)[e] = <<k, 0 + e>>
  BY EchoAssumption DEF Begun
<1>3. Written(Begun(k, BUF_SIZE), side) = Stream(k, 0, a)
  BY <1>1, <1>2 DEF Written, Stream
<1>4. Stream(k, 0, a) \in Seq(Carried)
  BY StreamIsSeq, EchoAssumption
<1>5. QED
  BY <1>3, <1>4, ConcatEmptySeq

-----------------------------------------------------------------------------
\* Bytes that were written before round k.
RoundStart(k) == k * BUF_SIZE

LEMMA RoundStartIs ==
  /\ \A k \in Nat : RoundStart(k) \in Nat /\ RoundStart(k + 1) = RoundStart(k) + BUF_SIZE
  /\ \A k, cnt \in Nat : k < cnt => RoundStart(k) + BUF_SIZE <= RoundStart(cnt)
  /\ RoundStart(0) = 0
BY RoundStarts, Zenon DEF RoundStart

\* A byte belongs to one round.
LEMMA OneRound ==
  ASSUME NEW k \in Nat, NEW q \in Nat, NEW off \in Nat, off < BUF_SIZE,
         RoundStart(k) = RoundStart(q) + off
  PROVE  k = q /\ off = 0
<1>1. RoundStart(k) \in Nat /\ RoundStart(q) \in Nat
  BY RoundStartIs, Zenon
<1>2. ~(k < q)
  <2>1. k < q => RoundStart(k) + BUF_SIZE <= RoundStart(q)
    BY RoundStartIs, Zenon
  <2>2. QED
    BY <1>1, <2>1, Sizes
<1>3. ~(q < k)
  <2>1. q < k => RoundStart(q) + BUF_SIZE <= RoundStart(k)
    BY RoundStartIs, Zenon
  <2>2. QED
    BY <1>1, <2>1, Sizes
<1>4. k = q
  BY <1>2, <1>3
<1>5. QED
  BY <1>1, <1>4

Outcomes == {None, 0, -1}
Servers == [open : BOOLEAN, listening : BOOLEAN, complete : BOOLEAN, result : Outcomes,
            sent_len : Nat, run_count : 0 .. TEST_ITERATIONS,
            buffer_sent : Seq(Octets), buffer_recv : Seq(Octets)]
Clients == [open : BOOLEAN, connected : BOOLEAN, complete : BOOLEAN, result : Outcomes,
            sent_len : Nat, run_count : 0 .. TEST_ITERATIONS, buffer : Seq(Octets)]

EchoTyped ==
    /\ srv \in Servers /\ cli \in Clients /\ fault \in BOOLEAN
    /\ got \in [srv : Nat, cli : Nat] /\ acked \in [srv : Nat, cli : Nat]

\* What the server keeps in a round, having received r bytes in all and the
\* acknowledgement of a: before its buffer is acknowledged nothing of it can come
\* back, and from then on it collects the round's own bytes.
ServerRound(s, r, a) ==
    LET b == RoundStart(s.run_count)
    IN  /\ s.run_count < TEST_ITERATIONS
        /\ a = b + s.sent_len /\ s.sent_len <= BUF_SIZE
        /\ s.buffer_sent = Begun(s.run_count, BUF_SIZE)
        /\ s.sent_len < BUF_SIZE => r = b
        /\ s.sent_len = BUF_SIZE => s.buffer_recv = Begun(s.run_count, r - b)

\* And the client, whose round ends with the acknowledgement of what it wrote.
ClientRound(c, r, a) ==
    LET b == RoundStart(c.run_count)
    IN  /\ c.run_count < TEST_ITERATIONS
        /\ a = b + c.sent_len /\ c.sent_len < BUF_SIZE
        /\ b <= r /\ r <= b + BUF_SIZE
        /\ c.buffer = Begun(c.run_count, r - b)

\* Where the bytes of the server's round are: nothing is under way; its buffer is
\* on the way to the client; the client has it and could not write it back; it is
\* on the way back.
Base == RoundStart(srv.run_count)
RoundsLeft == srv.run_count < TEST_ITERATIONS
NoneUnderWay == toCli = <<>> /\ toSrv = <<>> /\ got.cli = Base /\ got.srv = Base /\ ~srv.open
Down == /\ RoundsLeft /\ toSrv = <<>> /\ got.srv = Base
        /\ Base <= got.cli /\ got.cli < Base + BUF_SIZE
        /\ toCli = Stream(srv.run_count, got.cli - Base, Base)
Hold == /\ RoundsLeft /\ toSrv = <<>> /\ toCli = <<>> /\ got.srv = Base
        /\ got.cli = Base + BUF_SIZE /\ ~cli.open
Up == /\ RoundsLeft /\ toCli = <<>> /\ got.cli = Base + BUF_SIZE
      /\ Base <= got.srv /\ got.srv < Base + BUF_SIZE
      /\ toSrv = Stream(srv.run_count, got.srv - Base, Base + BUF_SIZE)
Phase == NoneUnderWay \/ Down \/ Hold \/ Up

SrvInv ==
    /\ srv.open => cli.connected /\ ServerRound(srv, got.srv, acked.srv)
    /\ srv.complete <=> srv.result # None
    /\ srv.open \/ srv.listening => ~srv.complete
    /\ srv.result = 0 <=> srv.run_count = TEST_ITERATIONS
    /\ ~srv.open /\ ~srv.complete =>
           /\ srv.run_count = 0 /\ srv.sent_len = 0 /\ srv.buffer_recv = <<>> /\ acked.srv = 0
           /\ toCli = <<>> /\ toSrv = <<>> /\ got.cli = 0 /\ got.srv = 0
CliInv ==
    /\ cli.open => ClientRound(cli, got.cli, acked.cli)
    /\ cli.complete <=> cli.result # None
    /\ cli.open => ~cli.complete
    /\ ~cli.open /\ ~cli.complete => ~cli.connected
    /\ ~cli.connected => /\ cli.run_count = 0 /\ cli.sent_len = 0 /\ cli.buffer = <<>>
                         /\ acked.cli = 0 /\ got.cli = 0
Acks == acked.cli <= got.srv /\ acked.srv <= got.cli

EchoInv == EchoTyped /\ Phase /\ SrvInv /\ CliInv /\ Acks /\ EchoSound

LEMMA PhaseBounds ==
  ASSUME EchoTyped, Phase
  PROVE  /\ srv.run_count \in Nat /\ cli.run_count \in Nat /\ Base \in Nat
         /\ got.srv \in Nat /\ got.cli \in Nat /\ acked.srv \in Nat /\ acked.cli \in Nat
         /\ Base <= got.srv /\ got.srv <= got.cli /\ got.cli <= Base + BUF_SIZE
<1>1. srv.run_count \in Nat /\ cli.run_count \in Nat
  BY Sizes DEF EchoTyped, Servers, Clients
<1>2. Base \in Nat
  BY <1>1, RoundStartIs, Zenon DEF Base
<1>3. got.srv \in Nat /\ got.cli \in Nat /\ acked.srv \in Nat /\ acked.cli \in Nat
  BY DEF EchoTyped
<1>4. Base <= got.srv /\ got.srv <= got.cli /\ got.cli <= Base + BUF_SIZE
  BY <1>2, <1>3, Sizes DEF Phase, NoneUnderWay, Down, Hold, Up
<1>5. QED
  BY <1>1, <1>2, <1>3, <1>4

\* The server's sent handler alone keeps the round's invariant.
LEMMA ServerSent ==
  ASSUME NEW s \in Servers, s.open, NEW r \in Nat, NEW x \in Nat, NEW a \in Nat, x <= a,
         ServerRound(s, r, x), a <= RoundStart(s.run_count) + BUF_SIZE,
         NEW nx, nx = IF a > x THEN tcp_server_sent(s, a - x) ELSE s
  PROVE  /\ nx \in Servers /\ nx.open /\ nx.run_count = s.run_count
         /\ nx.listening = s.listening /\ nx.complete = s.complete /\ nx.result = s.result
         /\ ServerRound(nx, r, a)
<1> DEFINE b == RoundStart(s.run_count)
<1>1. s.run_count \in Nat /\ b \in Nat /\ s.sent_len \in Nat
  <2>1. s.run_count \in Nat /\ s.sent_len \in Nat
    BY Sizes DEF Servers
  <2>2. QED
    BY <2>1, RoundStartIs, Zenon
<1>2. CASE a > x
  <2>1. nx = [s EXCEPT !.sent_len = @ + (a - x),
                      !.buffer_recv = IF s.sent_len + (a - x) >= BUF_SIZE THEN <<>> ELSE @]
    BY <1>2, Zenon DEF tcp_server_sent
  <2>2. a - x \in Nat /\ s.sent_len + (a - x) \in Nat /\ <<>> \in Seq(Octets)
    BY <1>1, <1>2
  <2>3. /\ nx \in Servers /\ nx.open /\ nx.run_count = s.run_count
        /\ nx.listening = s.listening /\ nx.complete = s.complete /\ nx.result = s.result
        /\ nx.sent_len = s.sent_len + (a - x) /\ nx.buffer_sent = s.buffer_sent
        /\ nx.buffer_recv = IF s.sent_len + (a - x) >= BUF_SIZE THEN <<>> ELSE s.buffer_recv
    BY <2>1, <2>2 DEF Servers
  <2>4. /\ s.run_count < TEST_ITERATIONS /\ x = b + s.sent_len /\ s.sent_len <= BUF_SIZE
        /\ s.buffer_sent = Begun(s.run_count, BUF_SIZE)
        /\ s.sent_len < BUF_SIZE => r = b
    BY DEF ServerRound
  <2>5. a = b + nx.sent_len /\ nx.sent_len <= BUF_SIZE /\ s.sent_len < BUF_SIZE /\ r = b
    <3>1. nx.sent_len = s.sent_len + (a - x) /\ a <= b + BUF_SIZE /\ x = b + s.sent_len
      BY <2>3, <2>4
    <3>2. a = b + nx.sent_len
      <4> HIDE DEF b
      <4>1. QED
        BY <1>1, <1>2, <3>1
    <3>3. nx.sent_len <= BUF_SIZE /\ s.sent_len < BUF_SIZE
      <4> HIDE DEF b
      <4>1. QED
        BY <1>1, <1>2, <3>1, Sizes
    <3>4. QED
      BY <2>4, <3>2, <3>3
  <2>6. nx.sent_len = BUF_SIZE => nx.buffer_recv = Begun(nx.run_count, r - b)
    <3>1. Begun(nx.run_count, 0) = <<>>
      BY DEF Begun
    <3>2. QED
      BY <1>1, <2>3, <2>5, <3>1, Sizes
  <2>7. QED
    BY <2>3, <2>4, <2>5, <2>6 DEF ServerRound
<1>3. CASE ~(a > x)
  BY <1>3
<1>4. QED
  BY <1>2, <1>3

\* The client's sent handler ends its round when all it wrote is acknowledged: it
\* goes on to the next one, or reports success after the last.
LEMMA ClientSent ==
  ASSUME NEW c \in Clients, c.open, NEW r \in Nat, NEW x \in Nat, NEW a \in Nat, x <= a, a <= r,
         ClientRound(c, r, x),
         NEW nx, nx = IF a > x THEN tcp_client_sent(c, a - x) ELSE c
  PROVE  /\ nx \in Clients /\ nx.connected = c.connected
         /\ \/ /\ nx.open /\ nx.complete = c.complete /\ nx.result = c.result
               /\ ClientRound(nx, r, a)
            \/ /\ ~nx.open /\ nx.complete /\ nx.result = 0
               /\ a = RoundStart(TEST_ITERATIONS) /\ r = a
<1> DEFINE q == c.run_count
           b == RoundStart(q)
           cnt == c.sent_len + (a - x)
<1>1. q \in Nat /\ c.sent_len \in Nat /\ q < TEST_ITERATIONS
  BY Sizes DEF Clients, ClientRound
<1>2. b \in Nat /\ RoundStart(q + 1) = b + BUF_SIZE
  BY <1>1, RoundStartIs, Zenon
<1>3. /\ x = b + c.sent_len /\ c.sent_len < BUF_SIZE
      /\ b <= r /\ r <= b + BUF_SIZE
      /\ c.buffer = Begun(q, r - b)
  BY DEF ClientRound
<1>4. cnt \in Nat /\ a = b + cnt
  <2> HIDE DEF b
  <2>1. QED
    BY <1>1, <1>2, <1>3
<1>5. CASE ~(a > x)
  <2>1. nx = c /\ a = x
    BY <1>5
  <2>2. QED
    BY <2>1
<1>6. CASE a > x /\ cnt < BUF_SIZE
  <2>1. nx = [c EXCEPT !.sent_len = cnt]
    BY <1>6, Zenon DEF tcp_client_sent
  <2>2. /\ nx \in Clients /\ nx.connected = c.connected /\ nx.open /\ nx.complete = c.complete
        /\ nx.result = c.result /\ nx.run_count = q /\ nx.sent_len = cnt /\ nx.buffer = c.buffer
    <3> HIDE DEF cnt
    <3>1. QED
      BY <1>4, <2>1 DEF Clients
  <2>3. ClientRound(nx, r, a)
    <3> HIDE DEF cnt
    <3>1. QED
      BY <1>1, <1>3, <1>4, <1>6, <2>2 DEF ClientRound
  <2>4. QED
    BY <2>2, <2>3
<1>7. CASE a > x /\ ~(cnt < BUF_SIZE)
  <2>1. a = b + BUF_SIZE /\ r = a
    <3> HIDE DEF b, cnt
    <3>1. QED
      BY <1>2, <1>3, <1>4, <1>7, Sizes
  <2>2. CASE q + 1 >= TEST_ITERATIONS
    <3>1. nx = tcp_result([c EXCEPT !.sent_len = cnt, !.run_count = @ + 1], 0)
      <4>1. [c EXCEPT !.sent_len = cnt, !.run_count = @ + 1].run_count = q + 1
        BY DEF Clients
      <4>2. QED
        BY <1>7, <2>2, <4>1, Zenon DEF tcp_client_sent
    <3>2. nx = [c EXCEPT !.sent_len = cnt, !.run_count = q + 1,
                        !.complete = TRUE, !.result = 0, !.open = FALSE]
      BY <3>1 DEF tcp_result, Clients
    <3>3. q + 1 \in 0 .. TEST_ITERATIONS /\ q + 1 = TEST_ITERATIONS
      BY <1>1, <2>2, Sizes
    <3>4. nx \in Clients /\ nx.connected = c.connected /\ ~nx.open /\ nx.complete /\ nx.result = 0
      <4> HIDE DEF cnt, q
      <4>1. QED
        BY <1>4, <3>2, <3>3 DEF Clients, Outcomes
    <3>5. a = RoundStart(TEST_ITERATIONS)
      BY <1>2, <2>1, <3>3
    <3>6. QED
      BY <2>1, <3>4, <3>5
  <2>3. CASE ~(q + 1 >= TEST_ITERATIONS)
    <3>1. nx = [[c EXCEPT !.sent_len = cnt, !.run_count = @ + 1] EXCEPT !.buffer = <<>>, !.sent_len = 0]
      <4>1. [c EXCEPT !.sent_len = cnt, !.run_count = @ + 1].run_count = q + 1
        BY DEF Clients
      <4>2. QED
        BY <1>7, <2>3, <4>1, Zenon DEF tcp_client_sent
    <3>2. nx = [c EXCEPT !.sent_len = 0, !.run_count = q + 1, !.buffer = <<>>]
      BY <3>1 DEF Clients
    <3>3. q + 1 \in 0 .. TEST_ITERATIONS /\ q + 1 < TEST_ITERATIONS /\ <<>> \in Seq(Octets)
      BY <1>1, <2>3, Sizes
    <3>4. /\ nx \in Clients /\ nx.connected = c.connected /\ nx.open /\ nx.complete = c.complete
          /\ nx.result = c.result /\ nx.run_count = q + 1 /\ nx.sent_len = 0 /\ nx.buffer = <<>>
      <4>1. c \in Clients /\ c.open
        OBVIOUS
      <4>2. /\ nx.connected = c.connected /\ nx.open /\ nx.complete = c.complete
            /\ nx.result = c.result /\ nx.run_count = q + 1 /\ nx.sent_len = 0 /\ nx.buffer = <<>>
        <5> HIDE DEF q, b, cnt
        <5>1. QED
          BY <3>2, <4>1 DEF Clients
      <4>3. nx \in Clients
        <5> HIDE DEF q, b, cnt
        <5>1. 0 \in Nat
          OBVIOUS
        <5>2. QED
          BY <3>2, <3>3, <4>1, <5>1 DEF Clients
      <4>4. QED
        BY <4>2, <4>3
    <3>5. Begun(q + 1, 0) = <<>>
      BY DEF Begun
    <3>6. r - RoundStart(q + 1) = 0 /\ RoundStart(q + 1) \in Nat
      <4> HIDE DEF b
      <4>1. QED
        BY <1>2, <2>1, Sizes
    <3>7. ClientRound(nx, r, a)
      <4> DEFINE z == RoundStart(q + 1)
      <4>1. a = z + nx.sent_len /\ nx.sent_len < BUF_SIZE /\ z <= r /\ r <= z + BUF_SIZE
        <5> HIDE DEF z
        <5>1. z = a /\ r = a /\ z \in Nat
          BY <1>2, <2>1, <3>6 DEF z
        <5>2. QED
          BY <3>4, <5>1, Sizes
      <4>2. nx.run_count < TEST_ITERATIONS
        BY <3>3, <3>4
      <4>3. nx.buffer = Begun(nx.run_count, r - z)
        BY <3>4, <3>5, <3>6
      <4>4. QED
        BY <3>4, <4>1, <4>2, <4>3, Zenon DEF ClientRound
    <3>8. QED
      BY <3>4, <3>7
  <2>4. QED
    BY <2>2, <2>3
<1>8. QED
  BY <1>5, <1>6, <1>7

\* The server has received `cnt` bytes more of the round.
ServerAfter(s, nx, r, cnt, ok) ==
  LET k == s.run_count
      b == RoundStart(k)
  IN  \/ /\ r + cnt < b + BUF_SIZE /\ nx.run_count = k /\ nx.open
         /\ nx.listening = s.listening /\ nx.complete = s.complete /\ nx.result = s.result
         /\ ServerRound(nx, r + cnt, b + BUF_SIZE)
      \/ /\ r + cnt = b + BUF_SIZE /\ nx.run_count = k + 1 /\ k + 1 = TEST_ITERATIONS
         /\ ~nx.open /\ ~nx.listening /\ nx.complete /\ nx.result = 0
      \/ /\ r + cnt = b + BUF_SIZE /\ nx.run_count = k + 1 /\ k + 1 < TEST_ITERATIONS
         /\ ok /\ nx.open
         /\ nx.listening = s.listening /\ nx.complete = s.complete /\ nx.result = s.result
         /\ nx.sent_len = 0 /\ nx.buffer_sent = Begun(k + 1, BUF_SIZE)
      \/ /\ r + cnt = b + BUF_SIZE /\ nx.run_count = k + 1 /\ k + 1 < TEST_ITERATIONS
         /\ ~ok /\ ~nx.open /\ ~nx.listening /\ nx.complete /\ nx.result = -1

LEMMA ServerReceives ==
  ASSUME NEW s \in Servers, s.open, NEW r \in Nat, NEW cnt \in Nat, NEW ok \in BOOLEAN, NEW off \in Nat,
         ServerRound(s, r, RoundStart(s.run_count) + BUF_SIZE),
         r = RoundStart(s.run_count) + off, off + cnt <= BUF_SIZE,
         NEW nx, nx = tcp_server_recv(s, Part(s.run_count, off, cnt), ok)
  PROVE  nx \in Servers /\ ServerAfter(s, nx, r, cnt, ok)
<1> DEFINE k == s.run_count
           b == RoundStart(k)
           f == Begun(k, off + cnt)
           pre == [s EXCEPT !.buffer_recv = f]
<1>1. k \in Nat /\ s.sent_len \in Nat /\ k < TEST_ITERATIONS
  BY Sizes DEF Servers, ServerRound
<1>2. b \in Nat /\ RoundStart(k + 1) = b + BUF_SIZE
  BY <1>1, RoundStartIs, Zenon
<1>3. s.sent_len = BUF_SIZE /\ s.buffer_sent = Begun(k, BUF_SIZE) /\ r - b = off
  <2>1. b + BUF_SIZE = b + s.sent_len /\ s.buffer_sent = Begun(k, BUF_SIZE)
    BY DEF ServerRound
  <2> HIDE DEF b
  <2>2. QED
    BY <1>1, <1>2, <2>1, Sizes DEF b
<1>4. s.buffer_recv = Begun(k, off)
  BY <1>3 DEF ServerRound
<1>5. Fill(s.buffer_recv, Part(k, off, cnt)) = f
  BY <1>1, <1>4, FillRound
<1>6. f \in Seq(Octets) /\ Len(f) = off + cnt
  <2>1. off + cnt \in Nat
    OBVIOUS
  <2>2. QED
    BY <1>1, <2>1, BegunIsSeq, Zenon
<1> HIDE DEF f
<1>7. /\ pre \in Servers /\ pre.open /\ pre.listening = s.listening /\ pre.complete = s.complete
      /\ pre.result = s.result /\ pre.sent_len = BUF_SIZE /\ pre.run_count = k
      /\ pre.buffer_sent = Begun(k, BUF_SIZE) /\ pre.buffer_recv = f
  BY <1>3, <1>6 DEF Servers
<1>8. CASE off + cnt < BUF_SIZE
  <2>1. nx = pre
    BY <1>5, <1>6, <1>7, <1>8, SMT DEF tcp_server_recv
  <2>2. ServerRound(nx, r + cnt, b + BUF_SIZE)
    <3>1. (r + cnt) - b = off + cnt
      <4> HIDE DEF b
      <4>1. QED
        BY <1>2 DEF b
    <3>2. QED
      BY <1>1, <1>7, <2>1, <3>1, Sizes DEF ServerRound, f
  <2>3. r + cnt < b + BUF_SIZE
    BY <1>2, <1>8, Sizes
  <2>4. QED
    BY <1>7, <2>1, <2>2, <2>3 DEF ServerAfter
<1>9. CASE off + cnt = BUF_SIZE
  <2> DEFINE u == [pre EXCEPT !.run_count = @ + 1]
  <2>1. f = Begun(k, BUF_SIZE) /\ r + cnt = b + BUF_SIZE
    BY <1>2, <1>9 DEF f
  <2>2. ~(Len(pre.buffer_recv) < BUF_SIZE)
    BY <1>6, <1>7, <1>9, Sizes
  <2>3. ~(pre.buffer_recv # pre.buffer_sent /\ Len(pre.buffer_recv) = BUF_SIZE)
    BY <1>7, <2>1
  <2>4. nx = IF u.run_count >= TEST_ITERATIONS THEN tcp_server_result(u, 0)
                                              ELSE tcp_server_send_data(u, ok)
    BY <1>5, <1>7, <2>2, <2>3, SMT DEF tcp_server_recv
  <2>5. k + 1 \in 0 .. TEST_ITERATIONS
    BY <1>1, Sizes
  <2>6. /\ u \in Servers /\ u.open /\ u.listening = s.listening /\ u.complete = s.complete
        /\ u.result = s.result /\ u.run_count = k + 1
    <3>1. u = [pre EXCEPT !.run_count = k + 1]
      BY <1>7
    <3> HIDE DEF pre, k, u
    <3>2. QED
      BY <1>7, <2>5, <3>1 DEF Servers
  <2> HIDE DEF u
  <2>7. CASE k + 1 >= TEST_ITERATIONS
    <3>1. nx = [u EXCEPT !.complete = TRUE, !.result = 0, !.open = FALSE, !.listening = FALSE]
      BY <2>4, <2>6, <2>7, Zenon DEF tcp_server_result
    <3>2. /\ nx \in Servers /\ ~nx.open /\ ~nx.listening /\ nx.complete /\ nx.result = 0
          /\ nx.run_count = k + 1
      BY <2>6, <3>1 DEF Servers, Outcomes
    <3>3. k + 1 = TEST_ITERATIONS
      BY <1>1, <2>7, Sizes
    <3>4. QED
      BY <2>1, <3>2, <3>3 DEF ServerAfter
  <2>8. CASE ~(k + 1 >= TEST_ITERATIONS)
    <3> DEFINE w == [u EXCEPT !.buffer_sent = Begun(k + 1, BUF_SIZE), !.sent_len = 0]
    <3>1. nx = IF ok THEN w ELSE tcp_server_result(w, -1)
      BY <2>4, <2>6, <2>8, Zenon DEF tcp_server_send_data, Begun
    <3>2. Begun(k + 1, BUF_SIZE) \in Seq(Octets)
      <4>1. k + 1 \in Nat /\ BUF_SIZE \in Nat
        BY <1>1, Sizes
      <4>2. QED
        BY <4>1, BegunIsSeq, Zenon
    <3>3. /\ w \in Servers /\ w.open /\ w.listening = s.listening /\ w.complete = s.complete
          /\ w.result = s.result /\ w.run_count = k + 1 /\ w.sent_len = 0
          /\ w.buffer_sent = Begun(k + 1, BUF_SIZE)
      BY <2>6, <3>2 DEF Servers
    <3> HIDE DEF w
    <3>4. k + 1 < TEST_ITERATIONS
      BY <1>1, <2>8, Sizes
    <3>5. CASE ok
      BY <2>1, <3>1, <3>3, <3>4, <3>5 DEF ServerAfter
    <3>6. CASE ~ok
      <4>1. nx = [w EXCEPT !.complete = TRUE, !.result = -1, !.open = FALSE, !.listening = FALSE]
        BY <3>1, <3>6, Zenon DEF tcp_server_result
      <4>2. /\ nx \in Servers /\ ~nx.open /\ ~nx.listening /\ nx.complete /\ nx.result = -1
            /\ nx.run_count = k + 1
        BY <3>3, <4>1 DEF Servers, Outcomes
      <4>3. QED
        BY <2>1, <3>4, <3>6, <4>2 DEF ServerAfter
    <3>7. QED
      BY <3>5, <3>6
  <2>9. QED
    BY <2>7, <2>8
<1>10. QED
  BY <1>8, <1>9, Sizes

\* The client has received `cnt` bytes more of the round.
LEMMA ClientReceives ==
  ASSUME NEW c \in Clients, c.open, NEW cnt \in Nat, NEW ok \in BOOLEAN, NEW off \in Nat,
         c.buffer = Begun(c.run_count, off), off + cnt <= BUF_SIZE,
         NEW d, d = tcp_client_recv(c, Part(c.run_count, off, cnt), ok)
  PROVE  /\ d \in Clients /\ d.connected = c.connected
         /\ \/ /\ off + cnt < BUF_SIZE \/ ok
               /\ d.open /\ d.complete = c.complete /\ d.result = c.result
               /\ d.run_count = c.run_count /\ d.sent_len = c.sent_len
               /\ d.buffer = Begun(c.run_count, off + cnt) /\ Len(d.buffer) = off + cnt
            \/ off + cnt = BUF_SIZE /\ ~ok /\ ~d.open /\ d.complete /\ d.result = -1
<1> DEFINE q == c.run_count
           f == Begun(q, off + cnt)
           e == [c EXCEPT !.buffer = f]
<1>1. q \in Nat
  BY Sizes DEF Clients
<1>2. Fill(c.buffer, Part(q, off, cnt)) = f
  <2>1. Fill(Begun(q, off), Part(q, off, cnt)) = Begun(q, off + cnt)
    BY <1>1, FillRound, Zenon
  <2>2. QED
    BY <2>1, Zenon
<1>3. f \in Seq(Octets) /\ Len(f) = off + cnt
  <2>1. off + cnt \in Nat
    OBVIOUS
  <2>2. QED
    BY <1>1, <2>1, BegunIsSeq, Zenon
<1>4. d = IF Len(e.buffer) = BUF_SIZE /\ ~ok THEN tcp_result(e, -1) ELSE e
  BY <1>2, Zenon DEF tcp_client_recv
<1> HIDE DEF f
<1>5. /\ e \in Clients /\ e.connected = c.connected /\ e.open /\ e.complete = c.complete
      /\ e.result = c.result /\ e.run_count = q /\ e.sent_len = c.sent_len /\ e.buffer = f
  BY <1>3 DEF Clients
<1> HIDE DEF e
<1>6. CASE off + cnt = BUF_SIZE /\ ~ok
  <2>1. d = [e EXCEPT !.complete = TRUE, !.result = -1, !.open = FALSE]
    BY <1>3, <1>4, <1>5, <1>6, Zenon DEF tcp_result
  <2>2. d \in Clients /\ d.connected = c.connected /\ ~d.open /\ d.complete /\ d.result = -1
    BY <1>5, <2>1 DEF Clients, Outcomes
  <2>3. QED
    BY <1>6, <2>2
<1>7. CASE ~(off + cnt = BUF_SIZE /\ ~ok)
  <2>1. d = e
    BY <1>3, <1>4, <1>5, <1>7, Zenon
  <2>2. off + cnt < BUF_SIZE \/ ok
    BY <1>7, Sizes
  <2>3. QED
    BY <1>3, <1>5, <2>1, <2>2 DEF f
<1>8. QED
  BY <1>6, <1>7

LEMMA ServerResultIs ==
  ASSUME NEW s \in Servers, NEW o \in Outcomes, NEW nx, nx = tcp_server_result(s, o)
  PROVE  /\ nx \in Servers /\ ~nx.open /\ ~nx.listening /\ nx.complete /\ nx.result = o
         /\ nx.run_count = s.run_count /\ nx.sent_len = s.sent_len
BY DEF tcp_server_result, Servers

LEMMA ClientResultIs ==
  ASSUME NEW c \in Clients, NEW o \in Outcomes, NEW nx, nx = tcp_result(c, o)
  PROVE  /\ nx \in Clients /\ ~nx.open /\ nx.complete /\ nx.result = o
         /\ nx.connected = c.connected /\ nx.run_count = c.run_count /\ nx.sent_len = c.sent_len
         /\ nx.buffer = c.buffer
BY DEF tcp_result, Clients

\* The server gives up while it is not yet complete: a failure has happened.
LEMMA ServerStops ==
  ASSUME EchoInv, ~srv.complete, NEW s \in Servers, s.run_count = srv.run_count,
         srv' = tcp_server_result(s, -1), UNCHANGED <<cli, toCli, toSrv, got>>,
         acked' \in [srv : Nat, cli : Nat], acked'.cli = acked.cli, acked'.srv <= got.cli,
         fault' = TRUE
  PROVE  EchoInv'
<1>1. /\ srv' \in Servers /\ ~srv'.open /\ ~srv'.listening /\ srv'.complete /\ srv'.result = -1
      /\ srv'.run_count = srv.run_count
  BY ServerResultIs DEF Outcomes
<1>2. EchoTyped'
  BY <1>1 DEF EchoInv, EchoTyped
<1>3. Phase'
  BY <1>1 DEF EchoInv, Phase, NoneUnderWay, Down, Hold, Up, RoundsLeft, Base
<1>4. srv.result = None /\ srv.run_count # TEST_ITERATIONS
  BY DEF EchoInv, SrvInv, None
<1>5. SrvInv'
  BY <1>1, <1>4 DEF SrvInv, None
<1>6. CliInv'
  BY DEF EchoInv, CliInv
<1>7. Acks'
  BY DEF EchoInv, Acks
<1>8. EchoSound'
  <2>1. cli.result # 0
    BY <1>4 DEF EchoInv, EchoSound, None
  <2>2. QED
    BY <2>1 DEF EchoSound
<1>9. QED
  BY <1>2, <1>3, <1>5, <1>6, <1>7, <1>8 DEF EchoInv

LEMMA ClientStops ==
  ASSUME EchoInv, NEW c \in Clients, c.connected = cli.connected,
         ~c.connected => c.run_count = 0 /\ c.sent_len = 0 /\ c.buffer = <<>> /\ acked'.cli = 0,
         cli' = tcp_result(c, -1), UNCHANGED <<srv, toCli, toSrv, got>>,
         acked' \in [srv : Nat, cli : Nat], acked'.srv = acked.srv, acked'.cli <= got.srv,
         fault' = TRUE
  PROVE  EchoInv'
<1>1. /\ cli' \in Clients /\ ~cli'.open /\ cli'.complete /\ cli'.result = -1
      /\ cli'.connected = c.connected /\ cli'.run_count = c.run_count
      /\ cli'.sent_len = c.sent_len /\ cli'.buffer = c.buffer
  BY ClientResultIs DEF Outcomes
<1>2. EchoTyped'
  BY <1>1 DEF EchoInv, EchoTyped
<1>3. Phase'
  BY <1>1 DEF EchoInv, Phase, NoneUnderWay, Down, Hold, Up, RoundsLeft, Base
<1>4. SrvInv'
  BY <1>1 DEF EchoInv, SrvInv
<1>5. CliInv'
  BY <1>1 DEF EchoInv, CliInv, None
<1>6. Acks'
  BY DEF EchoInv, Acks
<1>7. EchoSound'
  BY <1>1 DEF EchoSound
<1>8. QED
  BY <1>2, <1>3, <1>4, <1>5, <1>6, <1>7 DEF EchoInv

LEMMA AckedTyped ==
  ASSUME EchoInv
  PROVE  /\ acked \in [srv : Nat, cli : Nat] /\ acked.srv <= got.cli /\ acked.cli <= got.srv
         /\ srv \in Servers /\ cli \in Clients
BY DEF EchoInv, EchoTyped, Acks

LEMMA OpenServerKeeps ==
  ASSUME EchoInv, NEW ok \in BOOLEAN, OpenServer(ok)
  PROVE  EchoInv'
<1>1. CASE ok
  <2>1. /\ srv' = [srv EXCEPT !.listening = TRUE] /\ ~srv.complete /\ fault' = fault
        /\ UNCHANGED <<cli, toCli, toSrv, got, acked>>
    BY <1>1 DEF OpenServer, EchoInv, EchoTyped
  <2>2. /\ srv' \in Servers /\ srv'.open = srv.open /\ srv'.complete = srv.complete
        /\ srv'.result = srv.result /\ srv'.sent_len = srv.sent_len
        /\ srv'.run_count = srv.run_count /\ srv'.buffer_sent = srv.buffer_sent
        /\ srv'.buffer_recv = srv.buffer_recv
    BY <2>1, AckedTyped DEF Servers
  <2>3. EchoTyped'
    BY <2>1, <2>2 DEF EchoInv, EchoTyped
  <2>4. Phase'
    BY <2>1, <2>2 DEF EchoInv, Phase, NoneUnderWay, Down, Hold, Up, RoundsLeft, Base
  <2>5. SrvInv'
    BY <2>1, <2>2 DEF EchoInv, SrvInv, ServerRound
  <2>6. CliInv'
    BY <2>1 DEF EchoInv, CliInv
  <2>7. Acks'
    BY <2>1 DEF EchoInv, Acks
  <2>8. EchoSound'
    BY <2>1, <2>2 DEF EchoInv, EchoSound
  <2>9. QED
    BY <2>3, <2>4, <2>5, <2>6, <2>7, <2>8 DEF EchoInv
<1>2. CASE ~ok
  <2>1. /\ srv' = tcp_server_result(srv, -1) /\ ~srv.complete /\ fault' = TRUE
        /\ UNCHANGED <<cli, toCli, toSrv, got, acked>>
    BY <1>2 DEF OpenServer
  <2>2. QED
    BY <2>1, AckedTyped, ServerStops
<1>3. QED
  BY <1>1, <1>2

LEMMA FreshClient ==
  ASSUME EchoInv, ~cli.connected
  PROVE  cli.run_count = 0 /\ cli.sent_len = 0 /\ cli.buffer = <<>> /\ acked.cli = 0 /\ got.cli = 0
BY DEF EchoInv, CliInv

LEMMA OpenClientKeeps ==
  ASSUME EchoInv, NEW ok \in BOOLEAN, OpenClient(ok)
  PROVE  EchoInv'
<1>1. CASE ok
  <2>1. /\ cli' = [cli EXCEPT !.open = TRUE] /\ ~cli.complete /\ ~cli.open /\ fault' = fault
        /\ UNCHANGED <<srv, toCli, toSrv, got, acked>>
    BY <1>1 DEF OpenClient, EchoInv, EchoTyped
  <2>2. ~cli.connected
    BY <2>1 DEF EchoInv, CliInv
  <2>3. /\ cli' \in Clients /\ cli'.open /\ cli'.complete = cli.complete /\ ~cli'.connected
        /\ cli'.result = cli.result /\ cli'.sent_len = 0 /\ cli'.run_count = 0
        /\ cli'.buffer = <<>> /\ acked'.cli = 0 /\ got'.cli = 0
    BY <2>1, <2>2, AckedTyped, FreshClient DEF Clients
  <2>4. EchoTyped'
    BY <2>1, <2>3 DEF EchoInv, EchoTyped
  <2>5. Phase'
    <3>1. ~Hold
      BY <2>1, <2>3, PhaseBounds, Sizes DEF Hold, EchoInv
    <3>2. QED
      BY <2>1, <3>1 DEF EchoInv, Phase, NoneUnderWay, Down, Up, RoundsLeft, Base
  <2>6. SrvInv'
    BY <2>1, <2>2, <2>3 DEF EchoInv, SrvInv
  <2>7. CliInv'
    <3>1. Begun(0, 0) = <<>>
      BY DEF Begun
    <3>2. RoundStart(0) = 0
      BY RoundStartIs
    <3>3. ClientRound(cli, got.cli, acked.cli)'
      BY <2>3, <3>1, <3>2, Sizes DEF ClientRound
    <3>4. QED
      BY <2>1, <2>3, <3>3 DEF EchoInv, CliInv
  <2>8. Acks'
    BY <2>1 DEF EchoInv, Acks
  <2>9. EchoSound'
    BY <2>1, <2>3 DEF EchoInv, EchoSound
  <2>10. QED
    BY <2>4, <2>5, <2>6, <2>7, <2>8, <2>9 DEF EchoInv
<1>2. CASE ~ok
  <2>1. /\ cli' = tcp_result(cli, -1) /\ fault' = TRUE
        /\ UNCHANGED <<srv, toCli, toSrv, got, acked>>
    BY <1>2 DEF OpenClient
  <2>2. QED
    BY <2>1, AckedTyped, FreshClient, ClientStops
<1>3. QED
  BY <1>1, <1>2

LEMMA ConnectedKeeps ==
  ASSUME EchoInv, NEW err \in BOOLEAN, tcp_client_connected(err)
  PROVE  EchoInv'
<1>1. CASE ~err
  <2>1. /\ cli' = [cli EXCEPT !.connected = TRUE] /\ cli.open /\ ~cli.connected /\ fault' = fault
        /\ UNCHANGED <<srv, toCli, toSrv, got, acked>>
    BY <1>1 DEF tcp_client_connected, EchoInv, EchoTyped
  <2>2. /\ cli' \in Clients /\ cli'.open /\ cli'.complete = cli.complete /\ cli'.connected
        /\ cli'.result = cli.result /\ cli'.sent_len = cli.sent_len
        /\ cli'.run_count = cli.run_count /\ cli'.buffer = cli.buffer
    BY <2>1, AckedTyped DEF Clients
  <2>3. EchoTyped'
    BY <2>1, <2>2 DEF EchoInv, EchoTyped
  <2>4. Phase'
    BY <2>1, <2>2 DEF EchoInv, Phase, NoneUnderWay, Down, Hold, Up, RoundsLeft, Base
  <2>5. SrvInv'
    BY <2>1, <2>2 DEF EchoInv, SrvInv
  <2>6. CliInv'
    BY <2>1, <2>2 DEF EchoInv, CliInv, ClientRound
  <2>7. Acks'
    BY <2>1 DEF EchoInv, Acks
  <2>8. EchoSound'
    BY <2>1, <2>2 DEF EchoInv, EchoSound
  <2>9. QED
    BY <2>3, <2>4, <2>5, <2>6, <2>7, <2>8 DEF EchoInv
<1>2. CASE err
  <2>1. /\ cli' = tcp_result(cli, -1) /\ fault' = TRUE
        /\ UNCHANGED <<srv, toCli, toSrv, got, acked>>
    BY <1>2 DEF tcp_client_connected
  <2>2. QED
    BY <2>1, AckedTyped, FreshClient, ClientStops
<1>3. QED
  BY <1>1, <1>2

LEMMA FailuresKeep ==
  ASSUME EchoInv, ServerFails \/ ClientFails
  PROVE  EchoInv'
<1>1. CASE ServerFails
  <2>1. /\ srv' = tcp_server_result(srv, -1) /\ srv.open /\ fault' = TRUE
        /\ UNCHANGED <<cli, toCli, toSrv, got, acked>>
    BY <1>1 DEF ServerFails
  <2>2. ~srv.complete
    BY <2>1 DEF EchoInv, SrvInv
  <2>3. QED
    BY <2>1, <2>2, AckedTyped, ServerStops
<1>2. CASE ClientFails
  <2>1. /\ cli' = tcp_result(cli, -1) /\ fault' = TRUE
        /\ UNCHANGED <<srv, toCli, toSrv, got, acked>>
    BY <1>2 DEF ClientFails
  <2>2. QED
    BY <2>1, AckedTyped, FreshClient, ClientStops
<1>3. QED
  BY <1>1, <1>2

LEMMA AcceptKeeps ==
  ASSUME EchoInv, NEW err \in BOOLEAN, NEW ok \in BOOLEAN, tcp_server_accept(err, ok)
  PROVE  EchoInv'
<1> DEFINE nx == [srv EXCEPT !.open = TRUE, !.sent_len = 0,
                            !.buffer_sent = Begun(srv.run_count, BUF_SIZE)]
<1>1. /\ srv.listening /\ ~srv.open /\ cli.connected /\ UNCHANGED <<cli, toSrv, got, acked>>
      /\ ~srv.complete /\ srv.run_count = 0 /\ srv.sent_len = 0 /\ srv.buffer_recv = <<>>
      /\ acked.srv = 0 /\ toCli = <<>> /\ toSrv = <<>> /\ got.cli = 0 /\ got.srv = 0
  BY DEF tcp_server_accept, EchoInv, SrvInv
<1>2. Begun(0, BUF_SIZE) \in Seq(Octets)
  BY BegunIsSeq, Sizes
<1>3. /\ nx \in Servers /\ nx.open /\ nx.listening /\ ~nx.complete /\ nx.result = srv.result
      /\ nx.run_count = 0 /\ nx.sent_len = 0 /\ nx.buffer_sent = Begun(0, BUF_SIZE)
  BY <1>1, <1>2, AckedTyped DEF Servers
<1>4. tcp_server_send_data([srv EXCEPT !.open = TRUE], ok) =
        IF ok THEN nx ELSE tcp_server_result(nx, -1)
  <2>1. [srv EXCEPT !.open = TRUE].run_count = srv.run_count
    BY AckedTyped DEF Servers
  <2>2. [[srv EXCEPT !.open = TRUE] EXCEPT !.buffer_sent = Begun(srv.run_count, BUF_SIZE),
                                           !.sent_len = 0] = nx
    BY AckedTyped DEF Servers
  <2> DEFINE o == [srv EXCEPT !.open = TRUE]
  <2> HIDE DEF o
  <2>3. tcp_server_send_data(o, ok) =
          IF ok THEN [o EXCEPT !.buffer_sent = Begun(o.run_count, BUF_SIZE), !.sent_len = 0]
                ELSE tcp_server_result([o EXCEPT !.buffer_sent = Begun(o.run_count, BUF_SIZE),
                                                 !.sent_len = 0], -1)
    BY Zenon DEF tcp_server_send_data, Begun
  <2>4. [o EXCEPT !.buffer_sent = Begun(o.run_count, BUF_SIZE), !.sent_len = 0] = nx
    BY <2>1, <2>2, Zenon DEF o
  <2> HIDE DEF nx
  <2>5. QED
    BY <2>3, <2>4, Zenon DEF o
<1> HIDE DEF nx
<1>5. CASE err
  <2>1. srv' = tcp_server_result(srv, -1) /\ UNCHANGED toCli /\ fault' = TRUE
    BY <1>5 DEF tcp_server_accept
  <2>2. QED
    BY <1>1, <2>1, AckedTyped, ServerStops
<1>6. CASE ~err /\ ~ok
  <2>1. srv' = tcp_server_result(nx, -1) /\ UNCHANGED toCli /\ fault' = TRUE
    BY <1>4, <1>6 DEF tcp_server_accept
  <2>2. QED
    BY <1>1, <1>3, <2>1, AckedTyped, ServerStops
<1>7. CASE ~err /\ ok
  <2>1. /\ srv' = nx /\ toCli' = Written(srv'.buffer_sent, "srv") /\ fault' = fault
    BY <1>4, <1>7 DEF tcp_server_accept, EchoInv, EchoTyped
  <2>2. toCli' = Stream(0, 0, 0)
    <3>1. got'["srv"] = 0
      BY <1>1
    <3>2. 0 \in Nat
      OBVIOUS
    <3>3. QED
      BY <1>3, <2>1, <3>1, <3>2, WholeBuffer, Zenon
  <2>3. RoundStart(0) = 0
    BY RoundStartIs
  <2>4. EchoTyped'
    BY <1>1, <1>3, <2>1 DEF EchoInv, EchoTyped
  <2>5. Phase'
    BY <1>1, <1>3, <2>1, <2>2, <2>3, Sizes DEF Phase, Down, RoundsLeft, Base
  <2>6. SrvInv'
    <3>1. ServerRound(srv, got.srv, acked.srv)'
      BY <1>1, <1>3, <2>1, <2>3, Sizes DEF ServerRound
    <3>2. srv.result = None
      BY <1>1 DEF EchoInv, SrvInv
    <3>3. QED
      BY <1>1, <1>3, <2>1, <3>1, <3>2, Sizes DEF SrvInv, None
  <2>7. CliInv'
    BY <1>1 DEF EchoInv, CliInv
  <2>8. Acks'
    BY <1>1 DEF EchoInv, Acks
  <2>9. EchoSound'
    BY <1>1, <1>3, <2>1 DEF EchoInv, EchoSound
  <2>10. QED
    BY <2>4, <2>5, <2>6, <2>7, <2>8, <2>9 DEF EchoInv
<1>8. QED
  BY <1>5, <1>6, <1>7

LEMMA ServerSeesEndKeeps ==
  ASSUME EchoInv, ServerSeesEnd
  PROVE  EchoInv'
<1> DEFINE s == IF got.cli > acked.srv THEN tcp_server_sent(srv, got.cli - acked.srv) ELSE srv
<1>1. /\ srv.open /\ cli.complete /\ srv' = tcp_server_result(s, -1)
      /\ acked' = [acked EXCEPT !.srv = got.cli] /\ UNCHANGED <<cli, toCli, toSrv, got, fault>>
  BY DEF ServerSeesEnd
<1>2. ~srv.complete /\ srv.result = None
  BY <1>1 DEF EchoInv, SrvInv
<1>3. fault' = TRUE
  BY <1>1, <1>2 DEF EchoInv, EchoTyped, EchoSound, CliInv, None
<1>4. s \in Servers /\ s.run_count = srv.run_count
  <2>1. ServerRound(srv, got.srv, acked.srv) /\ acked.srv <= got.cli
    BY <1>1 DEF EchoInv, SrvInv, Acks
  <2>2. got.cli <= RoundStart(srv.run_count) + BUF_SIZE
    BY PhaseBounds DEF EchoInv, Base
  <2>3. got.srv \in Nat /\ got.cli \in Nat /\ acked.srv \in Nat
    BY PhaseBounds DEF EchoInv
  <2>4. QED
    BY <1>1, <2>1, <2>2, <2>3, AckedTyped, ServerSent
<1> HIDE DEF s
<1>5. acked' \in [srv : Nat, cli : Nat] /\ acked'.cli = acked.cli /\ acked'.srv <= got.cli
  BY <1>1, PhaseBounds, AckedTyped DEF EchoInv
<1>6. QED
  BY <1>1, <1>2, <1>3, <1>4, <1>5, ServerStops

\* The client reports success, or would have to give up, only when it has the last
\* round's bytes back: then the server is done.
LEMMA LastByteBack ==
  ASSUME EchoInv, got.srv >= RoundStart(TEST_ITERATIONS)
  PROVE  NoneUnderWay /\ srv.result = 0 /\ srv.complete /\ ~srv.open
<1>1. RoundStart(TEST_ITERATIONS) \in Nat /\ TEST_ITERATIONS \in Nat
  BY RoundStartIs, EchoAssumption
<1>2. ~RoundsLeft
  <2>1. SUFFICES ASSUME RoundsLeft PROVE FALSE
    OBVIOUS
  <2>2. Base + BUF_SIZE <= RoundStart(TEST_ITERATIONS)
    <3>1. srv.run_count \in Nat /\ srv.run_count < TEST_ITERATIONS
      BY <2>1, PhaseBounds DEF RoundsLeft, EchoInv
    <3>2. QED
      BY <1>1, <3>1, RoundStartIs, Zenon DEF Base
  <2>3. got.srv < Base + BUF_SIZE
    BY <2>1, PhaseBounds, Sizes DEF EchoInv, Phase, NoneUnderWay, Down, Hold, Up
  <2>4. QED
    BY <1>1, <2>2, <2>3, PhaseBounds, Sizes DEF EchoInv
<1>3. NoneUnderWay
  BY <1>2 DEF EchoInv, Phase, Down, Hold, Up
<1>4. srv.run_count = TEST_ITERATIONS
  BY <1>2, Sizes DEF EchoInv, EchoTyped, Servers, RoundsLeft
<1>5. srv.result = 0 /\ srv.complete
  BY <1>4 DEF EchoInv, SrvInv, None
<1>6. QED
  BY <1>3, <1>5 DEF NoneUnderWay

\* And a server that has succeeded has received them all.
LEMMA DoneServerHasAll ==
  ASSUME EchoInv, srv.result = 0
  PROVE  NoneUnderWay /\ got.srv = RoundStart(TEST_ITERATIONS) /\ got.cli = got.srv
<1>1. srv.run_count = TEST_ITERATIONS
  BY DEF EchoInv, SrvInv
<1>2. ~RoundsLeft
  BY <1>1, Sizes DEF RoundsLeft
<1>3. QED
  BY <1>1, <1>2 DEF EchoInv, Phase, NoneUnderWay, Down, Hold, Up, Base

LEMMA Untouched ==
  ASSUME NEW k \in Nat, NEW off \in Nat, NEW a \in Nat, off <= BUF_SIZE,
         NEW s, s = Stream(k, off, a)
  PROVE  SubSeq(s, 1, Len(s)) = s
<1>1. s \in Seq(Carried) /\ Len(s) = BUF_SIZE - off
  BY StreamTyped
<1>2. 0 \in Nat /\ 0 <= Len(s) /\ 0 + 1 = 1 /\ off + 0 = off
  BY <1>1, Sizes
<1>3. Carries(s, k, off, a, 0)
  BY <1>2, SegmentOf, Zenon
<1>4. SubSeq(s, 0 + 1, Len(s)) = Stream(k, off + 0, a)
  BY <1>3, Zenon DEF Carries
<1>5. QED
  BY <1>2, <1>4, Zenon

LEMMA SegmentToServer ==
  ASSUME EchoInv, NEW cnt \in Nat, NEW a \in Nat, cnt > 0, cnt <= Len(toSrv),
         a >= toSrv[cnt].ack, a <= got.cli,
         NEW off, off = got.srv - Base
  PROVE  /\ Up /\ a = Base + BUF_SIZE /\ off \in Nat /\ off + cnt <= BUF_SIZE
         /\ [e \in 1 .. cnt |-> toSrv[e].v] = Part(srv.run_count, off, cnt)
         /\ SubSeq(toSrv, cnt + 1, Len(toSrv)) = Stream(srv.run_count, off + cnt, Base + BUF_SIZE)
<1>1. Up
  BY DEF EchoInv, Phase, NoneUnderWay, Down, Hold
<1>2. /\ off \in Nat /\ off <= BUF_SIZE /\ Base + BUF_SIZE \in Nat /\ srv.run_count \in Nat
      /\ toSrv = Stream(srv.run_count, off, Base + BUF_SIZE) /\ got.cli = Base + BUF_SIZE
  <2>1. Base \in Nat /\ srv.run_count \in Nat /\ got.srv \in Nat
    BY PhaseBounds, Zenon DEF EchoInv
  <2>2. /\ toSrv = Stream(srv.run_count, off, Base + BUF_SIZE) /\ got.cli = Base + BUF_SIZE
        /\ Base <= got.srv /\ got.srv < Base + BUF_SIZE
    BY <1>1, Zenon DEF Up
  <2>3. off \in Nat /\ off <= BUF_SIZE /\ Base + BUF_SIZE \in Nat
    BY <2>1, <2>2, Sizes
  <2>4. QED
    BY <2>1, <2>2, <2>3, Zenon
<1>3. /\ off + cnt <= BUF_SIZE
      /\ [e \in 1 .. cnt |-> toSrv[e].v] = Part(srv.run_count, off, cnt)
      /\ SubSeq(toSrv, cnt + 1, Len(toSrv)) = Stream(srv.run_count, off + cnt, Base + BUF_SIZE)
      /\ cnt > 0 => toSrv[cnt].ack = Base + BUF_SIZE
  <2>1. Carries(toSrv, srv.run_count, off, Base + BUF_SIZE, cnt)
    BY <1>2, SegmentOf
  <2>2. QED
    BY <2>1, Zenon DEF Carries
<1>4. a = Base + BUF_SIZE
  BY <1>2, <1>3
<1>5. QED
  BY <1>1, <1>2, <1>3, <1>4

LEMMA SegmentToClient ==
  ASSUME EchoInv, NEW cnt \in Nat, NEW a \in Nat, cnt > 0, cnt <= Len(toCli),
         a >= toCli[cnt].ack, a <= got.srv,
         NEW off, off = got.cli - Base
  PROVE  /\ Down /\ a = Base /\ off \in Nat /\ off + cnt <= BUF_SIZE
         /\ [e \in 1 .. cnt |-> toCli[e].v] = Part(srv.run_count, off, cnt)
         /\ SubSeq(toCli, cnt + 1, Len(toCli)) = Stream(srv.run_count, off + cnt, Base)
<1>1. Down
  BY DEF EchoInv, Phase, NoneUnderWay, Up, Hold
<1>2. /\ off \in Nat /\ off <= BUF_SIZE /\ Base \in Nat /\ srv.run_count \in Nat
      /\ toCli = Stream(srv.run_count, off, Base) /\ got.srv = Base
  <2>1. Base \in Nat /\ srv.run_count \in Nat /\ got.cli \in Nat
    BY PhaseBounds, Zenon DEF EchoInv
  <2>2. /\ toCli = Stream(srv.run_count, off, Base) /\ got.srv = Base
        /\ Base <= got.cli /\ got.cli < Base + BUF_SIZE
    BY <1>1, Zenon DEF Down
  <2>3. off \in Nat /\ off <= BUF_SIZE
    BY <2>1, <2>2, Sizes
  <2>4. QED
    BY <2>1, <2>2, <2>3, Zenon
<1>3. /\ off + cnt <= BUF_SIZE
      /\ [e \in 1 .. cnt |-> toCli[e].v] = Part(srv.run_count, off, cnt)
      /\ SubSeq(toCli, cnt + 1, Len(toCli)) = Stream(srv.run_count, off + cnt, Base)
      /\ cnt > 0 => toCli[cnt].ack = Base
  <2>1. Carries(toCli, srv.run_count, off, Base, cnt)
    BY <1>2, SegmentOf
  <2>2. QED
    BY <2>1, Zenon DEF Carries
<1>4. a = Base
  BY <1>2, <1>3
<1>5. QED
  BY <1>1, <1>2, <1>3, <1>4

LEMMA ToServerKeeps ==
  ASSUME EchoInv, NEW cnt \in Nat, NEW a \in Nat, NEW ok \in BOOLEAN, ToServer(cnt, a, ok)
  PROVE  EchoInv'
<1> DEFINE data == [e \in 1 .. cnt |-> toSrv[e].v]
           s1 == IF a > acked.srv THEN tcp_server_sent(srv, a - acked.srv) ELSE srv
           s2 == IF cnt > 0 /\ s1.open THEN tcp_server_recv(s1, data, ok) ELSE s1
           wrote == cnt > 0 /\ s2.open /\ s2.run_count > s1.run_count
           k == srv.run_count
           b == RoundStart(k)
           off == got.srv - Base
<1>1. /\ srv.open /\ cli.connected /\ cnt <= Len(toSrv) /\ a \in acked.srv .. got.cli
      /\ cnt > 0 => a >= toSrv[cnt].ack
      /\ srv' = s2 /\ got' = [got EXCEPT !.srv = @ + cnt] /\ acked' = [acked EXCEPT !.srv = a]
      /\ toSrv' = SubSeq(toSrv, cnt + 1, Len(toSrv))
      /\ toCli' = IF wrote THEN toCli \o Written(s2.buffer_sent, "srv") ELSE toCli
      /\ fault' = (fault \/ ~ok) /\ UNCHANGED cli
  BY Zenon DEF ToServer
<1> HIDE DEF data, s2, wrote
<1>2. /\ k \in Nat /\ b \in Nat /\ b = Base
      /\ got.srv \in Nat /\ got.cli \in Nat /\ acked.srv \in Nat /\ acked.cli \in Nat
      /\ Base <= got.srv /\ got.srv <= got.cli /\ got.cli <= Base + BUF_SIZE
  BY PhaseBounds DEF EchoInv, Base
<1>3. /\ s1 \in Servers /\ s1.open /\ s1.run_count = k
      /\ s1.listening = srv.listening /\ s1.complete = srv.complete /\ s1.result = srv.result
      /\ ServerRound(s1, got.srv, a)
  <2>1. ServerRound(srv, got.srv, acked.srv)
    BY <1>1 DEF EchoInv, SrvInv
  <2>2. acked.srv <= a /\ a <= RoundStart(srv.run_count) + BUF_SIZE
    <3> HIDE DEF b, k
    <3>1. a \in acked.srv .. got.cli
      BY <1>1, Zenon
    <3>2. acked.srv <= a /\ a <= b + BUF_SIZE
      BY <1>2, <3>1, Sizes
    <3>3. QED
      BY <3>2, Zenon DEF b, k
  <2>3. srv.open /\ srv \in Servers
    BY <1>1, AckedTyped
  <2>4. got.srv \in Nat /\ acked.srv \in Nat
    BY <1>2, Zenon
  <2>5. s1 = IF a > acked.srv THEN tcp_server_sent(srv, a - acked.srv) ELSE srv
    OBVIOUS
  <2> HIDE DEF s1
  <2>6. QED
    BY <2>1, <2>2, <2>3, <2>4, <2>5, ServerSent
<1> HIDE DEF s1
<1>4. /\ got'.srv = got.srv + cnt /\ got'.cli = got.cli /\ acked'.srv = a /\ acked'.cli = acked.cli
      /\ got' \in [srv : Nat, cli : Nat] /\ acked' \in [srv : Nat, cli : Nat]
      /\ fault' \in BOOLEAN /\ a <= got.cli
  <2>1. got \in [srv : Nat, cli : Nat] /\ acked \in [srv : Nat, cli : Nat] /\ fault \in BOOLEAN
    BY Zenon DEF EchoInv, EchoTyped
  <2>2. /\ got' = [got EXCEPT !.srv = got.srv + cnt] /\ acked' = [acked EXCEPT !.srv = a]
        /\ fault' = (fault \/ ~ok) /\ a \in acked.srv .. got.cli
    BY <1>1, Zenon
  <2>3. got'.srv = got.srv + cnt /\ got'.cli = got.cli /\ got' \in [srv : Nat, cli : Nat]
    BY <2>1, <2>2
  <2>4. acked'.srv = a /\ acked'.cli = acked.cli /\ acked' \in [srv : Nat, cli : Nat]
    BY <2>1, <2>2
  <2>5. fault' \in BOOLEAN
    BY <2>1, <2>2, Zenon
  <2>6. a <= got.cli
    BY <2>1, <2>2
  <2>7. QED
    BY <2>3, <2>4, <2>5, <2>6, Zenon
<1>5. /\ ~srv.complete /\ srv.result = None /\ cli.result # 0
      /\ ~fault' => cli.result \in {None, 0}
  <2>1. srv.open /\ (~fault' => ~fault)
    BY <1>1
  <2>2. ~srv.complete /\ srv.result = None
    BY <2>1 DEF EchoInv, SrvInv
  <2>3. cli.result # 0 /\ (~fault => cli.result \in {None, 0})
    BY <2>2 DEF EchoInv, EchoSound, None
  <2>4. QED
    BY <2>1, <2>2, <2>3
<1>6. CliInv' /\ Acks'
  <2>1. cli' = cli
    BY <1>1
  <2>2. CliInv'
    BY <1>4, <2>1 DEF EchoInv, CliInv
  <2>3. acked.cli <= got.srv
    BY DEF EchoInv, Acks
  <2>4. Acks'
    BY <1>2, <1>4, <2>3 DEF Acks
  <2>5. QED
    BY <2>2, <2>4
<1>7. CASE cnt = 0
  <2>1. srv' = s1 /\ toCli' = toCli
    BY <1>1, <1>7 DEF s2, wrote
  <2>2. toSrv' = toSrv
    <3>1. SubSeq(toSrv, 1, Len(toSrv)) = toSrv
      <4>1. CASE toSrv = <<>>
        BY <4>1
      <4>2. CASE toSrv # <<>>
        <5>1. /\ off \in Nat /\ off <= BUF_SIZE /\ Base + BUF_SIZE \in Nat
              /\ toSrv = Stream(k, off, Base + BUF_SIZE)
          <6>1. Up
            BY <4>2, Zenon DEF EchoInv, Phase, NoneUnderWay, Down, Hold
          <6>2. /\ toSrv = Stream(k, off, Base + BUF_SIZE)
                /\ Base <= got.srv /\ got.srv < Base + BUF_SIZE
            BY <6>1, Zenon DEF Up
          <6>3. off \in Nat /\ off <= BUF_SIZE /\ Base + BUF_SIZE \in Nat
            <7> HIDE DEF b
            <7>1. QED
              BY <1>2, <6>2, Sizes
          <6>4. QED
            BY <6>2, <6>3, Zenon
        <5>2. k \in Nat
          BY <1>2, Zenon
        <5> HIDE DEF off, k
        <5>3. QED
          BY <5>1, <5>2, Untouched, Zenon
      <4>3. QED
        BY <4>1, <4>2
    <3>2. QED
      BY <1>1, <1>7, <3>1
  <2>3. got'.srv = got.srv
    BY <1>2, <1>4, <1>7
  <2>4. EchoTyped'
    BY <1>1, <1>3, <1>4, <2>1 DEF EchoInv, EchoTyped
  <2>5. Phase'
    BY <1>1, <1>3, <1>4, <2>1, <2>2, <2>3 DEF EchoInv, Phase, NoneUnderWay, Down, Hold, Up, RoundsLeft, Base
  <2>6. SrvInv'
    BY <1>1, <1>3, <1>4, <2>1, <2>3 DEF EchoInv, SrvInv
  <2>7. EchoSound'
    BY <1>1, <1>3, <1>5, <2>1 DEF EchoSound
  <2>8. QED
    BY <1>6, <2>4, <2>5, <2>6, <2>7 DEF EchoInv
<1>8. CASE cnt > 0
  <2>1. /\ Up /\ a = Base + BUF_SIZE /\ off \in Nat /\ off + cnt <= BUF_SIZE
        /\ data = Part(k, off, cnt) /\ toSrv' = Stream(k, off + cnt, Base + BUF_SIZE)
    <3>1. cnt <= Len(toSrv) /\ a >= toSrv[cnt].ack /\ a <= got.cli
      BY <1>1, <1>4, <1>8, Zenon
    <3>2. /\ Up /\ a = Base + BUF_SIZE /\ off \in Nat /\ off + cnt <= BUF_SIZE
          /\ [e \in 1 .. cnt |-> toSrv[e].v] = Part(k, off, cnt)
          /\ SubSeq(toSrv, cnt + 1, Len(toSrv)) = Stream(k, off + cnt, Base + BUF_SIZE)
      BY <1>8, <3>1, SegmentToServer, Zenon
    <3>3. toSrv' = SubSeq(toSrv, cnt + 1, Len(toSrv))
      BY <1>1, Zenon
    <3>4. QED
      BY <3>2, <3>3, Zenon DEF data
  <2>2. got.srv = b + off
    BY <1>2
  <2>3. s2 = tcp_server_recv(s1, Part(k, off, cnt), ok)
    BY <1>3, <1>8, <2>1, Zenon DEF s2
  <2>4. s2 \in Servers /\ ServerAfter(s1, s2, got.srv, cnt, ok)
    <3> HIDE DEF off, b, k
    <3>1. ServerRound(s1, got.srv, RoundStart(s1.run_count) + BUF_SIZE)
      BY <1>2, <1>3, <2>1 DEF b
    <3>2. got.srv = RoundStart(s1.run_count) + off
      BY <1>3, <2>2 DEF b
    <3>3. s2 = tcp_server_recv(s1, Part(s1.run_count, off, cnt), ok)
      BY <1>3, <2>3
    <3>4. got.srv \in Nat /\ off \in Nat /\ off + cnt <= BUF_SIZE /\ s1 \in Servers /\ s1.open
      BY <1>2, <1>3, <2>1, Zenon
    <3>5. QED
      BY <3>1, <3>2, <3>3, <3>4, ServerReceives, Zenon
  <2>5. EchoTyped'
    BY <1>1, <1>4, <2>4 DEF EchoInv, EchoTyped
  <2>6. RoundStart(k + 1) = b + BUF_SIZE /\ k + 1 \in Nat
    <3>1. k + 1 \in Nat
      BY <1>2
    <3>2. QED
      BY <1>2, <3>1, RoundStartIs, Zenon
  <2>7. k < TEST_ITERATIONS /\ toCli = <<>> /\ got.cli = b + BUF_SIZE
    BY <1>2, <2>1 DEF Up, RoundsLeft
  <2>8. got'.srv = b + off + cnt
    BY <1>2, <1>4, <2>2
  <2>9. CASE /\ got.srv + cnt < b + BUF_SIZE /\ s2.run_count = k /\ s2.open
             /\ s2.listening = srv.listening /\ s2.complete = srv.complete /\ s2.result = srv.result
             /\ ServerRound(s2, got.srv + cnt, b + BUF_SIZE)
    <3>1. ~wrote
      BY <1>2, <1>3, <2>9 DEF wrote
    <3>2. toCli' = <<>> /\ srv' = s2
      BY <1>1, <2>7, <3>1
    <3>3. Up'
      <4>1. got'.srv - b = off + cnt /\ got'.srv < b + BUF_SIZE /\ b <= got'.srv
        <5> HIDE DEF b, off
        <5>1. QED
          BY <1>2, <1>4, <2>1, <2>8, <2>9
      <4>2. Base' = b
        BY <2>9, <3>2 DEF Base
      <4>3. QED
        BY <1>2, <1>4, <2>1, <2>7, <2>9, <3>2, <4>1, <4>2 DEF Up, RoundsLeft
    <3>4. SrvInv'
      BY <1>1, <1>2, <1>4, <2>1, <2>9, <3>2 DEF EchoInv, SrvInv
    <3>5. EchoSound'
      BY <1>1, <1>5, <2>9, <3>2 DEF EchoSound
    <3>6. QED
      BY <1>6, <2>5, <3>3, <3>4, <3>5 DEF EchoInv, Phase
  <2>10. CASE /\ got.srv + cnt = b + BUF_SIZE /\ s2.run_count = k + 1
              /\ ~s2.open /\ ~s2.listening /\ s2.complete
              /\ \/ k + 1 = TEST_ITERATIONS /\ s2.result = 0
                 \/ k + 1 < TEST_ITERATIONS /\ ~ok /\ s2.result = -1
    <3>1. toCli' = <<>> /\ srv' = s2
      BY <1>1, <2>7, <2>10 DEF wrote
    <3>2. toSrv' = <<>>
      <4>1. off + cnt = BUF_SIZE
        <5> HIDE DEF b, off
        <5>1. QED
          BY <1>2, <2>1, <2>2, <2>10, Sizes
      <4>2. QED
        BY <2>1, <4>1, StreamEnds
    <3>3. NoneUnderWay'
      <4>1. Base' = b + BUF_SIZE /\ ~srv'.open
        BY <2>6, <2>10, <3>1 DEF Base
      <4>2. got'.cli = b + BUF_SIZE /\ got'.srv = b + BUF_SIZE
        <5> HIDE DEF b, k
        <5>1. QED
          BY <1>2, <1>4, <2>7, <2>10
      <4>3. QED
        BY <3>1, <3>2, <4>1, <4>2, Zenon DEF NoneUnderWay
    <3>4. SrvInv'
      <4>1. ~srv'.open /\ ~srv'.listening /\ srv'.complete
        BY <2>10, <3>1, Zenon
      <4>2. srv'.result # None
        BY <2>10, <3>1 DEF None
      <4>3. srv'.result = 0 <=> srv'.run_count = TEST_ITERATIONS
        BY <2>6, <2>10, <3>1, Sizes
      <4>4. QED
        BY <4>1, <4>2, <4>3, Zenon DEF SrvInv
    <3>5. EchoSound'
      BY <1>1, <1>5, <2>10, <3>1 DEF EchoSound
    <3>6. QED
      BY <1>6, <2>5, <3>3, <3>4, <3>5 DEF EchoInv, Phase
  <2>11. CASE /\ got.srv + cnt = b + BUF_SIZE /\ s2.run_count = k + 1 /\ k + 1 < TEST_ITERATIONS
              /\ ok /\ s2.open
              /\ s2.listening = srv.listening /\ s2.complete = srv.complete /\ s2.result = srv.result
              /\ s2.sent_len = 0 /\ s2.buffer_sent = Begun(k + 1, BUF_SIZE)
    <3>1. wrote /\ srv' = s2
      BY <1>1, <1>2, <1>3, <1>8, <2>11 DEF wrote
    <3>2. toSrv' = <<>>
      <4>1. off + cnt = BUF_SIZE
        <5> HIDE DEF b, off
        <5>1. QED
          BY <1>2, <2>1, <2>2, <2>11, Sizes
      <4>2. QED
        BY <2>1, <4>1, StreamEnds
    <3>3. Base' = b + BUF_SIZE /\ got'.srv = b + BUF_SIZE /\ b + BUF_SIZE \in Nat
      BY <1>2, <1>4, <2>6, <2>11, <3>1, Sizes DEF Base
    <3>4. toCli' = Stream(k + 1, 0, b + BUF_SIZE)
      <4>1. toCli' = <<>> \o Written(Begun(k + 1, BUF_SIZE), "srv")
        BY <1>1, <2>7, <2>11, <3>1
      <4>2. got'["srv"] = b + BUF_SIZE
        BY <3>3
      <4> HIDE DEF k, b
      <4>3. QED
        BY <2>6, <3>3, <4>1, <4>2, WholeBuffer, Zenon
    <3>5. Down'
      BY <1>4, <2>7, <2>11, <3>1, <3>2, <3>3, <3>4, Sizes DEF Down, RoundsLeft
    <3>6. ServerRound(srv, got.srv, acked.srv)'
      BY <1>2, <1>4, <2>1, <2>6, <2>11, <3>1, <3>3, Sizes DEF ServerRound
    <3>7. SrvInv'
      BY <1>1, <1>5, <2>6, <2>11, <3>1, <3>6, Sizes DEF EchoInv, SrvInv, None
    <3>8. EchoSound'
      BY <1>1, <1>5, <2>11, <3>1 DEF EchoSound
    <3>9. QED
      BY <1>6, <2>5, <3>5, <3>7, <3>8 DEF EchoInv, Phase
  <2>12. QED
    <3> HIDE DEF b, k, off
    <3>1. QED
      BY <1>3, <2>4, <2>9, <2>10, <2>11 DEF ServerAfter, b, k
<1>9. QED
  BY <1>7, <1>8

\* What the client's sent handler makes of an acknowledgement up to byte a.
LEMMA ClientAcked ==
  ASSUME EchoInv, cli.open, NEW a \in Nat, acked.cli <= a, a <= got.srv,
         NEW nx, nx = IF a > acked.cli THEN tcp_client_sent(cli, a - acked.cli) ELSE cli
  PROVE  /\ nx \in Clients /\ nx.connected = cli.connected
         /\ \/ /\ nx.open /\ nx.complete = cli.complete /\ nx.result = cli.result
               /\ ClientRound(nx, got.cli, a)
            \/ /\ ~nx.open /\ nx.complete /\ nx.result = 0
               /\ NoneUnderWay /\ srv.result = 0
<1>1. /\ got.srv \in Nat /\ got.cli \in Nat /\ acked.cli \in Nat /\ got.srv <= got.cli
  BY PhaseBounds DEF EchoInv
<1>2. a <= got.cli
  BY <1>1
<1>3. ClientRound(cli, got.cli, acked.cli)
  BY DEF EchoInv, CliInv
<1>4. /\ nx \in Clients /\ nx.connected = cli.connected
      /\ \/ /\ nx.open /\ nx.complete = cli.complete /\ nx.result = cli.result
            /\ ClientRound(nx, got.cli, a)
         \/ /\ ~nx.open /\ nx.complete /\ nx.result = 0
            /\ a = RoundStart(TEST_ITERATIONS) /\ got.cli = a
  BY <1>1, <1>2, <1>3, AckedTyped, ClientSent
<1>5. CASE a = RoundStart(TEST_ITERATIONS)
  <2>1. got.srv >= RoundStart(TEST_ITERATIONS)
    BY <1>1, <1>5
  <2>2. NoneUnderWay /\ srv.result = 0
    BY <2>1, LastByteBack
  <2>3. QED
    BY <1>4, <2>2
<1>6. CASE a # RoundStart(TEST_ITERATIONS)
  BY <1>4, <1>6
<1>7. QED
  BY <1>5, <1>6

LEMMA ToClientKeeps ==
  ASSUME EchoInv, NEW cnt \in Nat, NEW a \in Nat, NEW ok \in BOOLEAN, ToClient(cnt, a, ok)
  PROVE  EchoInv'
<1> DEFINE data == [e \in 1 .. cnt |-> toCli[e].v]
           c1 == IF a > acked.cli THEN tcp_client_sent(cli, a - acked.cli) ELSE cli
           c2 == IF cnt > 0 /\ c1.open THEN tcp_client_recv(c1, data, ok) ELSE c1
           wrote == cnt > 0 /\ c2.open /\ Len(c2.buffer) = BUF_SIZE
           k == srv.run_count
           b == RoundStart(k)
           off == got.cli - Base
<1>1. /\ cli.open /\ cli.connected /\ cnt <= Len(toCli) /\ a \in acked.cli .. got.srv
      /\ cnt > 0 => a >= toCli[cnt].ack
      /\ cli' = c2 /\ got' = [got EXCEPT !.cli = @ + cnt] /\ acked' = [acked EXCEPT !.cli = a]
      /\ toCli' = SubSeq(toCli, cnt + 1, Len(toCli))
      /\ toSrv' = IF wrote THEN toSrv \o Written(c2.buffer, "cli") ELSE toSrv
      /\ fault' = (fault \/ ~ok) /\ UNCHANGED srv
  BY Zenon DEF ToClient
<1> HIDE DEF data, c2, wrote
<1>2. /\ k \in Nat /\ b \in Nat /\ b = Base
      /\ got.srv \in Nat /\ got.cli \in Nat /\ acked.srv \in Nat /\ acked.cli \in Nat
      /\ Base <= got.srv /\ got.srv <= got.cli /\ got.cli <= Base + BUF_SIZE
  BY PhaseBounds DEF EchoInv, Base
<1>3. acked.cli <= a /\ a <= got.srv
  BY <1>1, <1>2
<1>4. /\ c1 \in Clients /\ c1.connected
      /\ \/ /\ c1.open /\ c1.complete = cli.complete /\ c1.result = cli.result
            /\ ClientRound(c1, got.cli, a)
         \/ /\ ~c1.open /\ c1.complete /\ c1.result = 0
            /\ NoneUnderWay /\ srv.result = 0
  BY <1>1, <1>3, ClientAcked
<1> HIDE DEF c1
<1>5. /\ got'.cli = got.cli + cnt /\ got'.srv = got.srv /\ acked'.cli = a /\ acked'.srv = acked.srv
      /\ got' \in [srv : Nat, cli : Nat] /\ acked' \in [srv : Nat, cli : Nat]
      /\ fault' \in BOOLEAN
  <2>1. got \in [srv : Nat, cli : Nat] /\ acked \in [srv : Nat, cli : Nat] /\ fault \in BOOLEAN
    BY Zenon DEF EchoInv, EchoTyped
  <2>2. /\ got' = [got EXCEPT !.cli = got.cli + cnt] /\ acked' = [acked EXCEPT !.cli = a]
        /\ fault' = (fault \/ ~ok)
    BY <1>1, Zenon
  <2>3. got'.cli = got.cli + cnt /\ got'.srv = got.srv /\ got' \in [srv : Nat, cli : Nat]
    BY <2>1, <2>2
  <2>4. acked'.cli = a /\ acked'.srv = acked.srv /\ acked' \in [srv : Nat, cli : Nat]
    BY <2>1, <2>2
  <2>5. fault' \in BOOLEAN
    BY <2>1, <2>2, Zenon
  <2>6. QED
    BY <2>3, <2>4, <2>5, Zenon
<1>6. /\ srv' = srv /\ ~cli.complete /\ cli.result = None
      /\ ~fault' => ok /\ srv.result \in {None, 0}
  <2>1. srv' = srv /\ cli.open /\ (~fault' => ~fault /\ ok)
    BY <1>1
  <2>2. ~cli.complete /\ cli.result = None
    BY <2>1 DEF EchoInv, CliInv
  <2>3. ~fault => srv.result \in {None, 0}
    BY DEF EchoInv, EchoSound
  <2>4. QED
    BY <2>1, <2>2, <2>3
<1>7. Acks'
  <2>1. acked.srv <= got.cli
    BY DEF EchoInv, Acks
  <2>2. QED
    BY <1>2, <1>3, <1>5, <2>1 DEF Acks
<1>8. CASE cnt = 0
  <2>1. cli' = c1 /\ toSrv' = toSrv
    BY <1>1, <1>8 DEF c2, wrote
  <2>2. toCli' = toCli
    <3>1. SubSeq(toCli, 1, Len(toCli)) = toCli
      <4>1. CASE toCli = <<>>
        BY <4>1
      <4>2. CASE toCli # <<>>
        <5>1. off \in Nat /\ off <= BUF_SIZE /\ Base \in Nat /\ toCli = Stream(k, off, Base)
          <6>1. Down
            BY <4>2, Zenon DEF EchoInv, Phase, NoneUnderWay, Up, Hold
          <6>2. toCli = Stream(k, off, Base) /\ Base <= got.cli /\ got.cli < Base + BUF_SIZE
            BY <6>1, Zenon DEF Down
          <6>3. off \in Nat /\ off <= BUF_SIZE /\ Base \in Nat
            <7> HIDE DEF b
            <7>1. QED
              BY <1>2, <6>2, Sizes
          <6>4. QED
            BY <6>2, <6>3, Zenon
        <5>2. k \in Nat
          BY <1>2, Zenon
        <5> HIDE DEF off, k
        <5>3. QED
          BY <5>1, <5>2, Untouched, Zenon
      <4>3. QED
        BY <4>1, <4>2
    <3>2. QED
      BY <1>1, <1>8, <3>1
  <2>3. got'.cli = got.cli
    BY <1>2, <1>5, <1>8
  <2>4. EchoTyped'
    BY <1>4, <1>5, <1>6, <2>1 DEF EchoInv, EchoTyped
  <2>5. Phase'
    <3>1. ~Hold
      BY <1>1 DEF Hold
    <3>2. QED
      BY <1>5, <1>6, <2>1, <2>2, <2>3, <3>1 DEF EchoInv, Phase, NoneUnderWay, Down, Up, RoundsLeft, Base
  <2>6. SrvInv'
    BY <1>1, <1>4, <1>5, <1>6, <2>1, <2>2, <2>3 DEF EchoInv, SrvInv
  <2>7. CliInv'
    BY <1>4, <1>5, <1>6, <2>1, <2>3 DEF CliInv, None
  <2>8. EchoSound'
    BY <1>4, <1>6, <2>1 DEF EchoSound, None
  <2>9. QED
    BY <1>7, <2>4, <2>5, <2>6, <2>7, <2>8 DEF EchoInv
<1>9. CASE cnt > 0
  <2>1. /\ Down /\ a = Base /\ off \in Nat /\ off + cnt <= BUF_SIZE
        /\ data = Part(k, off, cnt) /\ toCli' = Stream(k, off + cnt, Base)
    BY <1>1, <1>3, <1>9, SegmentToClient DEF data
  <2>2. toCli # <<>>
    BY <1>1, <1>9
  <2>3. /\ c1.open /\ c1.complete = cli.complete /\ c1.result = cli.result
        /\ ClientRound(c1, got.cli, a)
    BY <1>4, <2>2 DEF NoneUnderWay
  <2>4. c1.run_count = k /\ c1.sent_len = 0 /\ c1.buffer = Begun(k, off)
    <3>1. c1.run_count \in Nat /\ c1.sent_len \in Nat
      BY <1>4, Sizes DEF Clients
    <3>2. /\ a = RoundStart(c1.run_count) + c1.sent_len /\ c1.sent_len < BUF_SIZE
          /\ c1.buffer = Begun(c1.run_count, got.cli - RoundStart(c1.run_count))
      BY <2>3 DEF ClientRound
    <3>3. RoundStart(k) = RoundStart(c1.run_count) + c1.sent_len
      BY <1>2, <2>1, <3>2
    <3>4. k = c1.run_count /\ c1.sent_len = 0
      <4> HIDE DEF k
      <4>1. QED
        BY <1>2, <3>1, <3>2, <3>3, OneRound
    <3>5. QED
      BY <1>2, <3>2, <3>4
  <2>5. c2 = tcp_client_recv(c1, Part(c1.run_count, off, cnt), ok)
    BY <1>9, <2>1, <2>3, <2>4, Zenon DEF c2
  <2>6. /\ c2 \in Clients /\ c2.connected
        /\ \/ /\ off + cnt < BUF_SIZE \/ ok
              /\ c2.open /\ c2.complete = cli.complete /\ c2.result = cli.result
              /\ c2.run_count = k /\ c2.sent_len = 0
              /\ c2.buffer = Begun(k, off + cnt) /\ Len(c2.buffer) = off + cnt
           \/ off + cnt = BUF_SIZE /\ ~ok /\ ~c2.open /\ c2.complete /\ c2.result = -1
    <3> HIDE DEF off, b
    <3>1. c1.buffer = Begun(c1.run_count, off)
      BY <2>4
    <3>2. QED
      BY <1>4, <2>1, <2>3, <2>4, <2>5, <3>1, ClientReceives
  <2>7. EchoTyped'
    BY <1>1, <1>5, <1>6, <2>6 DEF EchoInv, EchoTyped
  <2>8. k < TEST_ITERATIONS /\ toSrv = <<>> /\ got.srv = b /\ got.cli = b + off /\ Base' = b
    BY <1>2, <1>6, <2>1 DEF Down, RoundsLeft, Base
  <2>9. got'.cli = b + off + cnt /\ got'.cli - b = off + cnt /\ b <= got'.cli /\ got'.cli <= b + BUF_SIZE
    <3> HIDE DEF b, off
    <3>1. QED
      BY <1>2, <1>5, <2>1, <2>8, Sizes
  <2>10. SrvInv'
    <3>1. srv.open \/ srv.complete
      BY <2>2 DEF EchoInv, SrvInv
    <3>2. QED
      BY <1>1, <1>5, <1>6, <2>6, <3>1 DEF EchoInv, SrvInv
  <2>11. CASE /\ off + cnt < BUF_SIZE \/ ok
              /\ c2.open /\ c2.complete = cli.complete /\ c2.result = cli.result
              /\ c2.run_count = k /\ c2.sent_len = 0
              /\ c2.buffer = Begun(k, off + cnt) /\ Len(c2.buffer) = off + cnt
    <3>1. cli' = c2
      BY <1>1
    <3>2. ClientRound(cli, got.cli, acked.cli)'
      <4>1. a = b + 0 /\ 0 < BUF_SIZE
        BY <1>2, <2>1, Sizes
      <4> HIDE DEF off
      <4>2. QED
        BY <1>5, <2>8, <2>9, <2>11, <3>1, <4>1 DEF ClientRound
    <3>3. CliInv'
      BY <1>6, <2>6, <2>11, <3>1, <3>2 DEF CliInv, None
    <3>4. EchoSound'
      BY <1>6, <2>11, <3>1 DEF EchoSound, None
    <3>5. CASE off + cnt < BUF_SIZE
      <4>1. toSrv' = <<>>
        <5>1. Len(c2.buffer) # BUF_SIZE
          BY <2>1, <2>11, <3>5, Sizes
        <5>2. QED
          BY <1>1, <2>8, <5>1 DEF wrote
      <4>2. got'.cli < b + BUF_SIZE
        <5> HIDE DEF b, off
        <5>1. QED
          BY <1>2, <2>1, <2>9, <3>5, Sizes
      <4>3. Down'
        BY <1>2, <1>5, <1>6, <2>1, <2>8, <2>9, <4>1, <4>2 DEF Down, RoundsLeft
      <4>4. QED
        BY <1>7, <2>7, <2>10, <3>3, <3>4, <4>3 DEF EchoInv, Phase
    <3>6. CASE off + cnt = BUF_SIZE
      <4>1. wrote
        BY <1>9, <2>11, <3>6 DEF wrote
      <4>2. toCli' = <<>>
        BY <2>1, <3>6, StreamEnds
      <4>3. got'.cli = b + BUF_SIZE /\ b + BUF_SIZE \in Nat /\ b - b = 0 /\ b < b + BUF_SIZE
        <5> HIDE DEF b, off
        <5>1. QED
          BY <1>2, <2>1, <2>9, <3>6, Sizes
      <4>4. toSrv' = Stream(k, 0, b + BUF_SIZE)
        <5>1. toSrv' = <<>> \o Written(Begun(k, BUF_SIZE), "cli")
          BY <1>1, <2>8, <2>11, <3>6, <4>1
        <5>2. got'["cli"] = b + BUF_SIZE
          BY <4>3
        <5> HIDE DEF k, b
        <5>3. QED
          BY <1>2, <4>3, <5>1, <5>2, WholeBuffer
      <4>5. Up'
        BY <1>2, <1>5, <1>6, <2>8, <4>2, <4>3, <4>4 DEF Up, RoundsLeft
      <4>6. QED
        BY <1>7, <2>7, <2>10, <3>3, <3>4, <4>5 DEF EchoInv, Phase
    <3>7. QED
      BY <2>1, <3>5, <3>6, Sizes
  <2>12. CASE off + cnt = BUF_SIZE /\ ~ok /\ ~c2.open /\ c2.complete /\ c2.result = -1
    <3>1. cli' = c2 /\ toSrv' = <<>>
      BY <1>1, <2>8, <2>12 DEF wrote
    <3>2. toCli' = <<>>
      BY <2>1, <2>12, StreamEnds
    <3>3. Hold'
      <4>1. got'.cli = b + BUF_SIZE
        <5> HIDE DEF b, off
        <5>1. QED
          BY <1>2, <2>1, <2>9, <2>12, Sizes
      <4>2. QED
        BY <1>5, <1>6, <2>8, <2>12, <3>1, <3>2, <4>1 DEF Hold, RoundsLeft
    <3>4. CliInv'
      BY <2>6, <2>12, <3>1 DEF CliInv, None
    <3>5. EchoSound'
      BY <1>6, <2>12, <3>1 DEF EchoSound
    <3>6. QED
      BY <1>7, <2>7, <2>10, <3>3, <3>4, <3>5 DEF EchoInv, Phase
  <2>13. QED
    BY <2>6, <2>11, <2>12
<1>10. QED
  BY <1>8, <1>9

LEMMA ClientSeesEndKeeps ==
  ASSUME EchoInv, ClientSeesEnd
  PROVE  EchoInv'
<1> DEFINE c == IF got.srv > acked.cli THEN tcp_client_sent(cli, got.srv - acked.cli) ELSE cli
<1>1. /\ cli.open /\ cli.connected /\ srv.complete /\ toCli = <<>>
      /\ cli' = IF c.open THEN tcp_result(c, -1) ELSE c
      /\ acked' = [acked EXCEPT !.cli = got.srv] /\ UNCHANGED <<srv, toCli, toSrv, got, fault>>
  BY DEF ClientSeesEnd
<1>2. got.srv \in Nat /\ got.cli \in Nat /\ acked.cli \in Nat /\ acked.cli <= got.srv
  BY PhaseBounds, AckedTyped DEF EchoInv
<1>3. /\ c \in Clients /\ c.connected
      /\ \/ c.open /\ ClientRound(c, got.cli, got.srv)
         \/ /\ ~c.open /\ c.complete /\ c.result = 0
            /\ NoneUnderWay /\ srv.result = 0
  <2>1. got.srv <= got.srv
    BY <1>2
  <2>2. QED
    BY <1>1, <1>2, <2>1, ClientAcked
<1> HIDE DEF c
<1>4. /\ acked' \in [srv : Nat, cli : Nat] /\ acked'.srv = acked.srv /\ acked'.cli = got.srv
  BY <1>1, <1>2, AckedTyped
<1>5. CASE c.open /\ ClientRound(c, got.cli, got.srv)
  <2>1. srv.result # 0
    <3>1. SUFFICES ASSUME srv.result = 0 PROVE FALSE
      OBVIOUS
    <3>2. got.srv = RoundStart(TEST_ITERATIONS)
      BY <3>1, DoneServerHasAll
    <3>3. /\ c.run_count < TEST_ITERATIONS /\ c.sent_len < BUF_SIZE
          /\ got.srv = RoundStart(c.run_count) + c.sent_len
      BY <1>5 DEF ClientRound
    <3>4. c.run_count \in Nat /\ c.sent_len \in Nat /\ TEST_ITERATIONS \in Nat
      BY <1>3, EchoAssumption DEF Clients
    <3>5. TEST_ITERATIONS = c.run_count
      BY <3>2, <3>3, <3>4, OneRound
    <3>6. QED
      BY <3>3, <3>4, <3>5
  <2>2. fault' = TRUE
    <3>1. srv.result # None
      BY <1>1 DEF EchoInv, SrvInv
    <3>2. fault
      BY <2>1, <3>1 DEF EchoInv, EchoSound
    <3>3. QED
      BY <1>1, <3>2 DEF EchoInv, EchoTyped
  <2>3. cli' = tcp_result(c, -1) /\ acked'.cli <= got.srv
    BY <1>1, <1>2, <1>4, <1>5
  <2>4. QED
    BY <1>1, <1>3, <1>4, <2>2, <2>3, ClientStops
<1>6. CASE ~c.open /\ c.complete /\ c.result = 0 /\ NoneUnderWay /\ srv.result = 0
  <2>1. cli' = c
    BY <1>1, <1>6
  <2>2. EchoTyped'
    BY <1>1, <1>3, <1>4, <2>1 DEF EchoInv, EchoTyped
  <2>3. Phase'
    BY <1>1, <1>6 DEF Phase, NoneUnderWay, Base
  <2>4. SrvInv'
    BY <1>1, <1>3, <1>4, <2>1 DEF EchoInv, SrvInv
  <2>5. CliInv'
    BY <1>3, <1>6, <2>1 DEF CliInv, None
  <2>6. Acks'
    <3>1. acked.srv <= got.cli
      BY DEF EchoInv, Acks
    <3>2. QED
      BY <1>1, <1>2, <1>4, <3>1 DEF Acks
  <2>7. EchoSound'
    BY <1>1, <1>6, <2>1 DEF EchoSound, None
  <2>8. QED
    BY <2>2, <2>3, <2>4, <2>5, <2>6, <2>7 DEF EchoInv
<1>7. QED
  BY <1>3, <1>5, <1>6

LEMMA EchoStarts ==
  ASSUME EchoInit
  PROVE  EchoInv
<1>1. <<>> \in Seq(Octets) /\ RoundStart(0) = 0
  BY RoundStartIs
<1>2. EchoTyped
  <2>1. 0 \in 0 .. TEST_ITERATIONS /\ None \in Outcomes
    BY Sizes DEF Outcomes
  <2>2. srv \in Servers
    BY <1>1, <2>1 DEF EchoInit, Servers
  <2>3. cli \in Clients
    BY <1>1, <2>1 DEF EchoInit, Clients
  <2>4. QED
    BY <2>2, <2>3 DEF EchoInit, EchoTyped
<1>3. Phase
  BY <1>1 DEF EchoInit, Phase, NoneUnderWay, Base
<1>4. SrvInv
  BY Sizes DEF EchoInit, SrvInv, None
<1>5. CliInv
  BY DEF EchoInit, CliInv, None
<1>6. Acks /\ EchoSound
  BY DEF EchoInit, Acks, EchoSound, None
<1>7. QED
  BY <1>2, <1>3, <1>4, <1>5, <1>6 DEF EchoInv

LEMMA EchoSteps ==
  ASSUME EchoInv, [EchoNext]_echoVars
  PROVE  EchoInv'
<1>1. ASSUME NEW ok \in BOOLEAN, OpenServer(ok) \/ OpenClient(ok) \/ tcp_client_connected(ok)
      PROVE  EchoInv'
  BY <1>1, OpenServerKeeps, OpenClientKeeps, ConnectedKeeps
<1>2. ASSUME NEW err \in BOOLEAN, NEW ok \in BOOLEAN, tcp_server_accept(err, ok)
      PROVE  EchoInv'
  BY <1>2, AcceptKeeps
<1>3. ASSUME NEW cnt \in 0 .. BUF_SIZE, NEW a \in 0 .. BUF_SIZE * TEST_ITERATIONS, NEW ok \in BOOLEAN,
             ToServer(cnt, a, ok) \/ ToClient(cnt, a, ok)
      PROVE  EchoInv'
  <2>1. cnt \in Nat /\ a \in Nat
    OBVIOUS
  <2>2. QED
    BY <1>3, <2>1, ToServerKeeps, ToClientKeeps
<1>4. CASE ServerSeesEnd \/ ClientSeesEnd \/ ServerFails \/ ClientFails
  BY <1>4, ServerSeesEndKeeps, ClientSeesEndKeeps, FailuresKeep, Zenon
<1>5. CASE UNCHANGED echoVars
  BY <1>5 DEF echoVars, EchoInv, EchoTyped, Phase, NoneUnderWay, Down, Hold, Up, RoundsLeft, Base,
              SrvInv, CliInv, Acks, EchoSound
<1>6. QED
  BY <1>1, <1>2, <1>3, <1>4, <1>5, Zenon DEF EchoNext

\* Whatever the buffer size and the number of rounds, and however the connection
\* cuts the streams into segments and delays acknowledgements: without a fault no
\* side of the echo test reports a failure, and the client succeeds only after the
\* server has.
THEOREM EchoIsSound == EchoSpec => []EchoSound
<1>1. EchoInit => EchoInv
  BY EchoStarts
<1>2. EchoInv /\ [EchoNext]_echoVars => EchoInv'
  BY EchoSteps
<1>3. EchoInv => EchoSound
  BY DEF EchoInv
<1>4. QED
  BY <1>1, <1>2, <1>3, PTL DEF EchoSpec

-----------------------------------------------------------------------------
(* The NTP client, the TLS client and the scanner for networks. *)

NtpStates == [pc : {"loop", "ERR_OK", "ERR_INPROGRESS", "ERR_MEM"}, due : BOOLEAN,
              dns_request_sent : BOOLEAN, alarm : BOOLEAN, dns : Int, asked : BOOLEAN,
              early : BOOLEAN]
TlsStates == [main : {"start", "wait", "left", "astray"}, complete : BOOLEAN, dns : BOOLEAN,
              request : BOOLEAN, failed : BOOLEAN,
              pcb : {"none", "made", "connecting", "connected"}]
ScanStates == [due : BOOLEAN, scan_in_progress : BOOLEAN, active : BOOLEAN]
WifiTyped == ntp \in NtpStates /\ tls \in TlsStates /\ scan \in ScanStates

\* The alarm is set before the question goes out and stays set, unless an answer
\* comes between the two; nothing calls the TLS client back before it is opened.
Armed(nst) == (nst.pc # "loop" \/ nst.dns_request_sent) => nst.alarm \/ nst.early
Minded(tst) == tst.main = "wait" /\ ~tst.complete =>
                   tst.dns \/ tst.pcb \in {"connecting", "connected"} \/ tst.failed
NtpInv == Armed(ntp) /\ (ntp.early => wifi = "ntp_background")
TlsInv == (tls.main = "start" => ~tls.dns /\ tls.pcb = "none") /\ Minded(tls)
ScanInv == scan.active => scan.scan_in_progress
WifiInv == WifiTyped /\ NtpInv /\ TlsInv /\ ScanInv

\* What the two ends of a request do to the NTP client's state.
LEMMA NtpEnds ==
  ASSUME NEW upd \in NtpStates
  PROVE  /\ ntp_result(upd) \in NtpStates /\ ntp_request(upd) \in NtpStates
         /\ ntp_result(upd).pc = upd.pc /\ ~ntp_result(upd).dns_request_sent
         /\ ntp_request(upd).pc = upd.pc /\ ntp_request(upd).alarm = upd.alarm
         /\ ntp_request(upd).dns_request_sent = upd.dns_request_sent
         /\ ntp_request(upd).early = upd.early /\ ntp_result(upd).early = upd.early
<1>1. ntp_request(upd) \in NtpStates
  BY DEF NtpStates, ntp_request
<1>2. /\ ntp_request(upd).pc = upd.pc /\ ntp_request(upd).alarm = upd.alarm
      /\ ntp_request(upd).dns_request_sent = upd.dns_request_sent
      /\ ntp_request(upd).early = upd.early
  BY DEF NtpStates, ntp_request
<1>3. ntp_result(upd) \in NtpStates
  BY DEF NtpStates, ntp_result
<1>4. /\ ntp_result(upd).pc = upd.pc /\ ~ntp_result(upd).dns_request_sent
      /\ ntp_result(upd).early = upd.early
  BY DEF NtpStates, ntp_result
<1>5. QED
  BY <1>1, <1>2, <1>3, <1>4, Zenon

\* An answer that comes to the main loop's back is early, any other ends the wait.
LEMMA EarlyEnds ==
  ASSUME NEW upd \in NtpStates
  PROVE  /\ Early(ntp_result(upd)) \in NtpStates
         /\ Armed(Early(ntp_result(upd)))
         /\ Early(ntp_result(upd)).early <=> upd.early \/ upd.pc # "loop"
<1> DEFINE reset == ntp_result(upd)
<1>1. reset \in NtpStates /\ reset.pc = upd.pc /\ ~reset.dns_request_sent /\ reset.early = upd.early
  BY NtpEnds, Zenon
<1> HIDE DEF reset
<1> DEFINE e == Early(reset)
<1>2. e \in NtpStates /\ e.pc = reset.pc /\ ~e.dns_request_sent
  BY <1>1 DEF NtpStates, Early
<1>3. e.early = (reset.early \/ reset.pc # "loop")
  BY <1>1 DEF NtpStates, Early
<1> HIDE DEF e
<1>4. e.early <=> upd.early \/ upd.pc # "loop"
  BY <1>1, <1>3, Zenon
<1>5. Armed(e)
  BY <1>1, <1>2, <1>4, Zenon DEF Armed
<1>6. QED
  BY <1>2, <1>4, <1>5, Zenon DEF e, reset

\* A step of one client leaves the invariant of the others alone.
LEMMA NtpStep ==
  ASSUME WifiInv, NEW upd \in NtpStates, Ntp(upd), Armed(upd), upd.early => wifi = "ntp_background"
  PROVE  WifiInv'
BY Zenon DEF WifiInv, WifiTyped, NtpInv, TlsInv, ScanInv, Ntp

LEMMA TlsStep ==
  ASSUME WifiInv, NEW upd \in TlsStates, Tls(upd),
         upd.main = "start" => ~upd.dns /\ upd.pcb = "none", Minded(upd)
  PROVE  WifiInv'
BY Zenon DEF WifiInv, WifiTyped, NtpInv, TlsInv, ScanInv, Tls

LEMMA NtpKeeps ==
  ASSUME WifiInv,
         \/ NtpTime \/ NtpAsked \/ ntp_failed_handler \/ ntp_recv
         \/ \E err \in {"ERR_OK", "ERR_INPROGRESS", "ERR_MEM"} : NtpAsks(err)
         \/ \E a \in BOOLEAN : ntp_dns_found(a)
  PROVE  WifiInv'
<1>0. ntp \in NtpStates /\ Armed(ntp) /\ (ntp.early => wifi = "ntp_background")
  BY Zenon DEF WifiInv, WifiTyped, NtpInv
<1>1. CASE NtpTime
  <2> DEFINE upd == [ntp EXCEPT !.due = TRUE]
  <2>1. Ntp(upd)
    BY <1>1, Zenon DEF NtpTime
  <2>2. /\ upd \in NtpStates /\ upd.pc = ntp.pc /\ upd.dns_request_sent = ntp.dns_request_sent
        /\ upd.alarm = ntp.alarm /\ upd.early = ntp.early
    BY <1>0 DEF NtpStates
  <2> HIDE DEF upd
  <2>3. Armed(upd) /\ (upd.early => wifi = "ntp_background")
    BY <1>0, <2>2, Zenon DEF Armed
  <2>4. QED
    BY <2>1, <2>2, <2>3, NtpStep, Zenon
<1>2. CASE NtpAsked
  <2> DEFINE upd == [ntp EXCEPT !.pc = "loop", !.dns_request_sent = TRUE]
  <2>1. /\ ntp.alarm \/ ntp.early
        /\ Ntp(upd) \/ Ntp(ntp_request(upd)) \/ Ntp(ntp_result(upd))
    BY <1>0, <1>2, Zenon DEF NtpAsked, Armed
  <2>2. upd \in NtpStates /\ upd.pc = "loop" /\ upd.alarm = ntp.alarm /\ upd.early = ntp.early
    BY <1>0 DEF NtpStates
  <2> HIDE DEF upd
  <2>3. CASE Ntp(upd)
    <3>1. Armed(upd) /\ (upd.early => wifi = "ntp_background")
      BY <1>0, <2>1, <2>2, Zenon DEF Armed
    <3>2. QED
      BY <2>2, <2>3, <3>1, NtpStep, Zenon
  <2>4. CASE Ntp(ntp_request(upd))
    <3> DEFINE e == ntp_request(upd)
    <3>1. e \in NtpStates /\ e.alarm = ntp.alarm /\ e.early = ntp.early /\ Ntp(e)
      BY <2>2, <2>4, NtpEnds, Zenon
    <3> HIDE DEF e
    <3>2. Armed(e) /\ (e.early => wifi = "ntp_background")
      BY <1>0, <2>1, <3>1, Zenon DEF Armed
    <3>3. QED
      BY <3>1, <3>2, NtpStep, Zenon
  <2>5. CASE Ntp(ntp_result(upd))
    <3> DEFINE e == ntp_result(upd)
    <3>1. /\ e \in NtpStates /\ e.pc = "loop" /\ ~e.dns_request_sent
          /\ e.early = ntp.early /\ Ntp(e)
      BY <2>2, <2>5, NtpEnds, Zenon
    <3> HIDE DEF e
    <3>2. Armed(e) /\ (e.early => wifi = "ntp_background")
      BY <1>0, <3>1, Zenon DEF Armed
    <3>3. QED
      BY <3>1, <3>2, NtpStep, Zenon
  <2>6. QED
    BY <2>1, <2>3, <2>4, <2>5, Zenon
<1>3. CASE ntp_failed_handler
  <2> DEFINE e == ntp_result(ntp)
  <2>1. ntp.pc = "loop" /\ Ntp(e)
    BY <1>3, Zenon DEF ntp_failed_handler
  <2>2. e \in NtpStates /\ e.pc = "loop" /\ ~e.dns_request_sent /\ e.early = ntp.early
    BY <1>0, <2>1, NtpEnds, Zenon
  <2> HIDE DEF e
  <2>3. Armed(e) /\ (e.early => wifi = "ntp_background")
    BY <1>0, <2>2, Zenon DEF Armed
  <2>4. QED
    BY <2>1, <2>2, <2>3, NtpStep, Zenon
<1>4. CASE ntp_recv
  <2> DEFINE e == Early(ntp_result(ntp))
  <2>1. (wifi = "ntp_background" \/ ntp.pc = "loop") /\ Ntp(e)
    BY <1>4, Zenon DEF ntp_recv, InHandler
  <2>2. e \in NtpStates /\ Armed(e) /\ (e.early <=> ntp.early \/ ntp.pc # "loop")
    BY <1>0, EarlyEnds, Zenon
  <2> HIDE DEF e
  <2>3. QED
    BY <1>0, <2>1, <2>2, NtpStep, Zenon
<1>5. ASSUME NEW err \in {"ERR_OK", "ERR_INPROGRESS", "ERR_MEM"}, NtpAsks(err)
      PROVE  WifiInv'
  <2> DEFINE q == IF err = "ERR_INPROGRESS" THEN ntp.dns + 1 ELSE ntp.dns
             upd == [ntp EXCEPT !.pc = err, !.alarm = TRUE, !.early = FALSE, !.dns = q]
  <2>1. Ntp(upd)
    BY <1>5, Zenon DEF NtpAsks
  <2>2. q \in Int
    BY <1>0 DEF NtpStates
  <2>3. err \in {"loop", "ERR_OK", "ERR_INPROGRESS", "ERR_MEM"}
    OBVIOUS
  <2> HIDE DEF q
  <2>4. upd \in NtpStates /\ upd.alarm /\ ~upd.early
    BY <1>0, <2>2, <2>3 DEF NtpStates
  <2> HIDE DEF upd
  <2>5. Armed(upd) /\ ~upd.early
    BY <2>4, Zenon DEF Armed
  <2>6. QED
    BY <2>1, <2>4, <2>5, NtpStep, Zenon
<1>6. ASSUME NEW a \in BOOLEAN, ntp_dns_found(a)
      PROVE  WifiInv'
  <2> DEFINE upd == [ntp EXCEPT !.dns = ntp.dns - 1]
             upd1 == ntp_request(upd)
             upd2 == Early(ntp_result(upd))
  <2>1. (wifi = "ntp_background" \/ ntp.pc = "loop") /\ (Ntp(upd1) \/ Ntp(upd2))
    BY <1>6, Zenon DEF ntp_dns_found, InHandler
  <2>2. /\ upd \in NtpStates /\ upd.pc = ntp.pc /\ upd.dns_request_sent = ntp.dns_request_sent
        /\ upd.alarm = ntp.alarm /\ upd.early = ntp.early
    BY <1>0 DEF NtpStates
  <2> HIDE DEF upd
  <2>3. CASE Ntp(upd1)
    <3>1. /\ upd1 \in NtpStates /\ upd1.pc = ntp.pc /\ upd1.alarm = ntp.alarm
          /\ upd1.dns_request_sent = ntp.dns_request_sent /\ upd1.early = ntp.early
      BY <2>2, NtpEnds, Zenon
    <3> HIDE DEF upd1
    <3>2. Armed(upd1) /\ (upd1.early => wifi = "ntp_background")
      BY <1>0, <3>1, Zenon DEF Armed
    <3>3. QED
      BY <2>3, <3>1, <3>2, NtpStep, Zenon
  <2>4. CASE Ntp(upd2)
    <3>1. upd2 \in NtpStates /\ Armed(upd2) /\ (upd2.early <=> ntp.early \/ ntp.pc # "loop")
      BY <2>2, EarlyEnds, Zenon
    <3> HIDE DEF upd2
    <3>2. QED
      BY <1>0, <2>1, <2>4, <3>1, NtpStep, Zenon
  <2>5. QED
    BY <2>1, <2>3, <2>4, Zenon
<1>7. QED
  BY <1>1, <1>2, <1>3, <1>4, <1>5, <1>6, Zenon

\* A client that has closed is complete; one that tries to connect or closes waits
\* for nothing else.
LEMMA TlsEnds ==
  ASSUME NEW upd \in TlsStates
  PROVE  /\ tls_client_close(upd) \in TlsStates
         /\ tls_client_close(upd).main = upd.main /\ tls_client_close(upd).complete
         /\ \A ok \in BOOLEAN : LET e == tls_client_connect_to_server_ip(upd, ok)
                                IN  e \in TlsStates /\ e.main = upd.main /\ (e.complete \/ e.pcb = "connecting")
<1>1. tls_client_close(upd) \in TlsStates
  BY DEF TlsStates, tls_client_close
<1>2. tls_client_close(upd).main = upd.main /\ tls_client_close(upd).complete
  BY DEF TlsStates, tls_client_close
<1> DEFINE c == [upd EXCEPT !.pcb = "connecting"]
<1>3. c \in TlsStates /\ c.main = upd.main /\ c.pcb = "connecting"
  BY DEF TlsStates
<1> HIDE DEF c
<1>4. \A ok \in BOOLEAN : tls_client_connect_to_server_ip(upd, ok) \in {c, tls_client_close(upd)}
  BY Zenon DEF tls_client_connect_to_server_ip, c
<1>5. QED
  BY <1>1, <1>2, <1>3, <1>4, Zenon

LEMMA TlsKeeps ==
  ASSUME WifiInv,
         \/ \E err \in {"ERR_OK", "ERR_INPROGRESS", "ERR_MEM"}, ok \in BOOLEAN : tls_client_open(err, ok)
         \/ tls_client_open("no pcb", FALSE)
         \/ \E a, b \in BOOLEAN : \/ tls_client_dns_found(a, b) \/ tls_client_connected(a, b)
                                  \/ tls_client_recv(a)
         \/ tls_client_poll \/ tls_client_err \/ TlsMainEnds
  PROVE  WifiInv'
<1>0. /\ tls \in TlsStates
      /\ tls.main = "start" => ~tls.dns /\ tls.pcb = "none"
      /\ Minded(tls)
  BY Zenon DEF WifiInv, WifiTyped, TlsInv
<1>c. ASSUME Tls(tls_client_close(tls)), tls.main # "start"
      PROVE  WifiInv'
  BY <1>0, <1>c, TlsEnds, TlsStep, Zenon DEF Minded
<1>l. ASSUME Tls([tls EXCEPT !.main = "left"])
      PROVE  WifiInv'
  <2> DEFINE upd == [tls EXCEPT !.main = "left"]
  <2>1. upd \in TlsStates /\ upd.main = "left"
    BY <1>0 DEF TlsStates
  <2>2. Tls(upd)
    BY <1>l, Zenon
  <2> HIDE DEF upd
  <2>3. upd.main # "start" /\ upd.main # "wait"
    BY <2>1
  <2>4. QED
    BY <2>1, <2>2, <2>3, TlsStep, Zenon DEF Minded
<1>n. CASE tls_client_open("no pcb", FALSE)
  <2>1. "no pcb" # "ERR_OK" /\ "no pcb" # "ERR_INPROGRESS" /\ "no pcb" # "ERR_MEM"
    OBVIOUS
  <2>2. Tls([tls EXCEPT !.main = "left"])
    BY <1>n, <2>1, Zenon DEF tls_client_open
  <2>3. QED
    BY <1>l, <2>2, Zenon
<1>1. ASSUME NEW err \in {"ERR_OK", "ERR_INPROGRESS", "ERR_MEM"}, NEW ok \in BOOLEAN,
             tls_client_open(err, ok)
      PROVE  WifiInv'
  <2> DEFINE upd == [tls EXCEPT !.main = "wait", !.pcb = "made"]
             w == [upd EXCEPT !.dns = TRUE]
             x == [upd EXCEPT !.main = "astray"]
  <2>1. Tls(tls_client_connect_to_server_ip(upd, ok)) \/ Tls(w) \/ Tls(x)
    BY <1>1, Zenon DEF tls_client_open
  <2>2. upd \in TlsStates /\ upd.main = "wait"
    BY <1>0 DEF TlsStates
  <2> HIDE DEF upd
  <2>3. CASE Tls(tls_client_connect_to_server_ip(upd, ok))
    <3>1. "wait" # "start"
      OBVIOUS
    <3>2. QED
      BY <2>2, <2>3, <3>1, TlsEnds, TlsStep, Zenon DEF Minded
  <2>4. CASE Tls(w)
    <3>1. w \in TlsStates /\ w.main = "wait" /\ w.dns
      BY <2>2 DEF TlsStates
    <3> HIDE DEF w
    <3>2. w.main # "start"
      BY <3>1
    <3>3. QED
      BY <2>4, <3>1, <3>2, TlsStep, Zenon DEF Minded
  <2>5. CASE Tls(x)
    <3>1. x \in TlsStates /\ x.main = "astray"
      BY <2>2 DEF TlsStates
    <3> HIDE DEF x
    <3>2. x.main # "start" /\ x.main # "wait"
      BY <3>1
    <3>3. QED
      BY <2>5, <3>1, <3>2, TlsStep, Zenon DEF Minded
  <2>6. QED
    BY <2>1, <2>3, <2>4, <2>5, Zenon
<1>2. ASSUME NEW a \in BOOLEAN, NEW b \in BOOLEAN, tls_client_dns_found(a, b)
      PROVE  WifiInv'
  <2> DEFINE upd == [tls EXCEPT !.dns = FALSE]
  <2>1. tls.main # "start" /\ (Tls(tls_client_connect_to_server_ip(upd, b)) \/ Tls(tls_client_close(upd)))
    BY <1>0, <1>2, Zenon DEF tls_client_dns_found
  <2>2. upd \in TlsStates /\ upd.main = tls.main
    BY <1>0 DEF TlsStates
  <2> HIDE DEF upd
  <2>3. CASE Tls(tls_client_connect_to_server_ip(upd, b))
    <3> DEFINE e == tls_client_connect_to_server_ip(upd, b)
    <3>1. e \in TlsStates /\ e.main = upd.main /\ (e.complete \/ e.pcb = "connecting")
      BY <2>2, TlsEnds, Zenon
    <3>2. Tls(e)
      BY <2>3
    <3> HIDE DEF e
    <3>3. e.main # "start"
      BY <2>1, <2>2, <3>1, Zenon
    <3>4. QED
      BY <3>1, <3>2, <3>3, TlsStep, Zenon DEF Minded
  <2>4. CASE Tls(tls_client_close(upd))
    BY <2>1, <2>2, <2>4, TlsEnds, TlsStep, Zenon DEF Minded
  <2>5. QED
    BY <2>1, <2>3, <2>4, Zenon
<1>3. ASSUME NEW a \in BOOLEAN, NEW b \in BOOLEAN, tls_client_connected(a, b)
      PROVE  WifiInv'
  <2> DEFINE upd == [tls EXCEPT !.pcb = "connected", !.request = TRUE]
  <2>1. tls.pcb = "connecting" /\ (Tls(upd) \/ Tls(tls_client_close(tls)))
    BY <1>3, Zenon DEF tls_client_connected
  <2>2. tls.main # "start"
    BY <1>0, <2>1
  <2>3. CASE Tls(upd)
    <3>1. upd \in TlsStates /\ upd.main = tls.main /\ upd.pcb = "connected"
      BY <1>0 DEF TlsStates
    <3> HIDE DEF upd
    <3>2. QED
      BY <2>2, <2>3, <3>1, TlsStep, Zenon DEF Minded
  <2>4. QED
    BY <1>c, <2>1, <2>2, <2>3, Zenon
<1>4. ASSUME NEW a \in BOOLEAN, tls_client_recv(a)
      PROVE  WifiInv'
  <2>1. tls.pcb = "connected" /\ (Tls(tls) \/ Tls(tls_client_close(tls)))
    BY <1>4, Zenon DEF tls_client_recv
  <2>2. tls.main # "start"
    BY <1>0, <2>1
  <2>3. CASE Tls(tls)
    BY <1>0, <2>3, TlsStep, Zenon
  <2>4. QED
    BY <1>c, <2>1, <2>2, <2>3, Zenon
<1>5. CASE tls_client_poll
  <2>1. tls.pcb \in {"connecting", "connected"} /\ Tls(tls_client_close(tls))
    BY <1>5, Zenon DEF tls_client_poll
  <2>2. tls.main # "start"
    BY <1>0, <2>1
  <2>3. QED
    BY <1>c, <2>1, <2>2, Zenon
<1>6. CASE tls_client_err
  <2> DEFINE upd == [tls EXCEPT !.pcb = "none", !.failed = TRUE]
  <2>1. tls.pcb \in {"connecting", "connected"} /\ Tls(upd)
    BY <1>6, Zenon DEF tls_client_err
  <2>2. tls.main # "start"
    BY <1>0, <2>1
  <2>3. upd \in TlsStates /\ upd.main = tls.main /\ upd.failed
    BY <1>0 DEF TlsStates
  <2> HIDE DEF upd
  <2>4. QED
    BY <2>1, <2>2, <2>3, TlsStep, Zenon DEF Minded
<1>7. CASE TlsMainEnds
  BY <1>7, <1>l, Zenon DEF TlsMainEnds
<1>8. QED
  BY <1>n, <1>1, <1>2, <1>3, <1>4, <1>5, <1>6, <1>7, Zenon

LEMMA ScanKeeps ==
  ASSUME WifiInv, ScanTime \/ ScanDone \/ \E ok \in BOOLEAN : ScanLoop(ok)
  PROVE  WifiInv'
BY DEF WifiInv, WifiTyped, ScanStates, NtpInv, TlsInv, ScanInv, Scan, ScanTime, ScanDone, ScanLoop

\* In both builds of the NTP client, in the TLS client and in the scanner: a client
\* that waits has the alarm or the callback that ends its wait, whatever is lost,
\* late or refused, but for an answer in the interrupt build that comes between the
\* alarm and dns_request_sent = true, and for an error that lwIP reports to the TLS
\* client (picow_ntp_client.c:134-144, picow_tls_client.c:75-79).
THEOREM WaitsAreEnded == WifiSpec => []WaitEnds
<1>1. WifiInit => WifiInv
  BY DEF WifiInit, WifiInv, WifiTyped, NtpStates, TlsStates, ScanStates, NtpInv, TlsInv, ScanInv,
         Armed, Minded
<1>2. WifiInv /\ [WifiNext]_wifiVars => WifiInv'
  <2> SUFFICES ASSUME WifiInv, [WifiNext]_wifiVars PROVE WifiInv'
    OBVIOUS
  <2>1. CASE UNCHANGED wifiVars
    BY <2>1 DEF wifiVars, WifiInv, WifiTyped, NtpInv, TlsInv, ScanInv, Armed, Minded
  <2>2. CASE WifiNext
    BY <2>2, NtpKeeps, TlsKeeps, ScanKeeps DEF WifiNext
  <2>3. QED
    BY <2>1, <2>2
<1>3. WifiInv => WaitEnds
  BY Zenon DEF WifiInv, NtpInv, TlsInv, ScanInv, WaitEnds, WaitsWithAlarm, Armed, Minded
<1>4. QED
  BY <1>1, <1>2, <1>3, PTL DEF WifiSpec

-----------------------------------------------------------------------------
(* The Bluetooth temperature client and server. *)

ClientStates == {"TC_OFF", "TC_W4_SCAN_RESULT", "TC_W4_CONNECT", "TC_W4_SERVICE_RESULT",
                 "TC_W4_CHARACTERISTIC_RESULT", "TC_W4_ENABLE_NOTIFICATIONS_COMPLETE", "TC_W4_READY"}

Readings == Temps \cup {0, -1}
BleTyped ==
    /\ gc \in [state : ClientStates, handle : Nat, listener : BOOLEAN, service : Nat,
               characteristic : Nat, temp : Readings]
    /\ sv \in [up : BOOLEAN, notify : BOOLEAN, con_handle : Nat, temp : Readings, send : BOOLEAN,
               counter : Int]
    /\ link \in [gc : Nat, sv : Nat, next : Nat \ {0}]
    /\ query \in [of : {"none", "service", "characteristic", "notify"}, conn : Nat, done : BOOLEAN]
    /\ air \in Seq(Readings)

\* The two ends never see different connections; the client that scans or connects
\* has none, and past the search for the service it has one.
Ends ==
    /\ link.gc # 0 /\ link.sv # 0 => link.gc = link.sv
    /\ gc.handle = link.gc
    /\ gc.state \in {"TC_OFF", "TC_W4_SCAN_RESULT", "TC_W4_CONNECT"} => link.gc = 0
    /\ link.gc = 0 => gc.state \in {"TC_OFF", "TC_W4_SCAN_RESULT", "TC_W4_CONNECT",
                                    "TC_W4_SERVICE_RESULT"}

\* A query in flight is the one of the client's state, on its connection.
QueryFits ==
    /\ query.of # "none" => query.conn = link.gc /\ link.gc # 0
    /\ query.of = "service" => gc.state = "TC_W4_SERVICE_RESULT"
    /\ query.of = "characteristic" => gc.state = "TC_W4_CHARACTERISTIC_RESULT"
    /\ query.of = "notify" => gc.state = "TC_W4_ENABLE_NOTIFICATIONS_COMPLETE"

\* What the client has found out is of this connection.
Found ==
    /\ gc.state \in {"TC_W4_CHARACTERISTIC_RESULT", "TC_W4_ENABLE_NOTIFICATIONS_COMPLETE",
                     "TC_W4_READY"} => gc.service = gc.handle
    /\ gc.state \in {"TC_W4_ENABLE_NOTIFICATIONS_COMPLETE", "TC_W4_READY"} =>
           gc.characteristic = gc.handle /\ gc.listener

\* The server notifies the connection it has; once the client's write is answered
\* the server has notifications on as long as it sees the connection.
Notifies ==
    /\ sv.notify => sv.con_handle = link.sv /\ link.sv # 0
    /\ sv.send => sv.notify
    /\ (query.of = "notify" /\ query.done) \/ gc.state = "TC_W4_READY" =>
           (link.sv = link.gc => sv.notify)
    /\ air # <<>> => sv.con_handle = link.gc

BleInv == BleTyped /\ Ends /\ QueryFits /\ Found /\ Notifies

LEMMA AirTakes ==
  ASSUME NEW sent \in Seq(Readings), NEW tk \in Readings
  PROVE  Append(sent, tk) \in Seq(Readings)
OBVIOUS

\* The server's handlers.
LEMMA ServerKeeps ==
  ASSUME BleInv,
         \/ \E tk \in Temps : ServerWorking(tk) \/ ServerHeartbeat(tk)
         \/ ServerDisconnected \/ att_write_callback \/ CanSendNow
  PROVE  BleInv'
<1> USE DEF BleInv, BleTyped, Ends, QueryFits, Found, Notifies, ClientStates
<1>1. ASSUME NEW tk \in Temps, ServerWorking(tk)
      PROVE  BleInv'
  <2>1. /\ sv' = [sv EXCEPT !.up = TRUE, !.temp = tk] /\ tk \in Readings
        /\ UNCHANGED <<gc, link, query, air>>
    BY <1>1 DEF ServerWorking, poll_temp, Readings
  <2>2. QED
    BY <2>1
<1>2. ASSUME NEW tk \in Temps, ServerHeartbeat(tk)
      PROVE  BleInv'
  <2> DEFINE c == (sv.counter + 1) % HeartbeatDiv
  <2>1. c \in Int
    <3>1. HeartbeatDiv \in Int /\ HeartbeatDiv > 0
      BY BleAssumption
    <3>2. sv.counter + 1 \in Int
      OBVIOUS
    <3>3. QED
      BY <3>1, <3>2
  <2>2. tk \in Readings /\ UNCHANGED <<gc, link, query, air>>
    BY <1>2 DEF ServerHeartbeat, Readings
  <2> HIDE DEF c
  <2>3. CASE c = 0
    <3>1. sv' = [sv EXCEPT !.counter = c, !.temp = tk, !.send = @ \/ sv.notify]
      BY <1>2, <2>3 DEF ServerHeartbeat, poll_temp, c
    <3>2. /\ sv' \in [up : BOOLEAN, notify : BOOLEAN, con_handle : Nat, temp : Readings,
                      send : BOOLEAN, counter : Int]
          /\ sv'.notify = sv.notify /\ sv'.con_handle = sv.con_handle
          /\ sv'.send <=> sv.send \/ sv.notify
      BY <2>1, <2>2, <3>1
    <3>3. QED
      BY <2>2, <3>2
  <2>4. CASE c # 0
    <3>1. sv' = [sv EXCEPT !.counter = c]
      BY <1>2, <2>4 DEF ServerHeartbeat, c
    <3>2. /\ sv' \in [up : BOOLEAN, notify : BOOLEAN, con_handle : Nat, temp : Readings,
                      send : BOOLEAN, counter : Int]
          /\ sv'.notify = sv.notify /\ sv'.con_handle = sv.con_handle /\ sv'.send = sv.send
      BY <2>1, <3>1
    <3>3. QED
      BY <2>2, <3>2
  <2>5. QED
    BY <2>3, <2>4
<1>3. CASE ServerDisconnected
  BY <1>3 DEF ServerDisconnected
<1>4. CASE att_write_callback
  BY <1>4 DEF att_write_callback
<1>5. CASE CanSendNow
  <2>1. /\ sv' = [sv EXCEPT !.send = FALSE] /\ sv.send /\ sv.con_handle = link.sv
        /\ air' = (IF link.gc = link.sv THEN Append(air, sv.temp) ELSE air)
        /\ UNCHANGED <<gc, link, query>>
    BY <1>5 DEF CanSendNow
  <2>2. air' \in Seq(Readings) /\ (air' # air => link.gc = link.sv)
    <3>1. air \in Seq(Readings) /\ sv.temp \in Readings
      OBVIOUS
    <3>2. Append(air, sv.temp) \in Seq(Readings)
      BY <3>1, AirTakes, Zenon
    <3>3. QED
      BY <2>1, <3>1, <3>2, Zenon
  <2>3. QED
    BY <2>1, <2>2
<1>6. QED
  BY <1>1, <1>2, <1>3, <1>4, <1>5

\* The client's.
LEMMA ClientKeeps ==
  ASSUME BleInv,
         \/ ClientWorking \/ AdvertisingReport \/ ConnectionComplete \/ ConnectionFails
         \/ DisconnectionComplete \/ QueryComplete \/ QueryFails \/ Notification \/ heartbeat_handler
  PROVE  BleInv'
<1> DEFINE ClientType == [state : ClientStates, handle : Nat, listener : BOOLEAN, service : Nat,
                     characteristic : Nat, temp : Readings]
<1> USE DEF BleInv, BleTyped, Ends, QueryFits, Found, Notifies, ClientStates, client_start
<1>1. CASE ClientWorking
  BY <1>1 DEF ClientWorking
<1>2. CASE AdvertisingReport
  BY <1>2 DEF AdvertisingReport
<1>3. CASE ConnectionComplete
  <2>1. /\ gc.state = "TC_W4_CONNECT" /\ link.sv = 0
        /\ link' = [gc |-> link.next, sv |-> link.next, next |-> link.next + 1]
        /\ gc' = [gc EXCEPT !.state = "TC_W4_SERVICE_RESULT", !.handle = link.next]
        /\ query' = [of |-> "service", conn |-> link.next, done |-> TRUE]
        /\ air' = <<>> /\ UNCHANGED sv
    BY <1>3 DEF ConnectionComplete, Advertising
  <2>2. ~sv.notify /\ ~sv.send
    BY <2>1
  <2>3. link' \in [gc : Nat, sv : Nat, next : Nat \ {0}] /\ link'.gc # 0 /\ air' \in Seq(Readings)
    BY <2>1
  <2>4. QED
    BY <2>1, <2>2, <2>3
<1>f. CASE ConnectionFails
  <2>1. /\ gc' = [gc EXCEPT !.state = "TC_W4_SERVICE_RESULT"] /\ link.gc = 0 /\ query.of = "none"
        /\ UNCHANGED <<sv, link, query, air>>
    BY <1>f DEF ConnectionFails
  <2>2. gc' \in ClientType /\ gc'.state = "TC_W4_SERVICE_RESULT" /\ gc'.handle = gc.handle
    BY <2>1
  <2>3. QED
    BY <2>1, <2>2
<1>4. CASE DisconnectionComplete
  <2>1. /\ link.gc # 0 /\ link' = [link EXCEPT !.gc = 0]
        /\ gc' = [gc EXCEPT !.state = "TC_W4_SCAN_RESULT", !.handle = 0, !.listener = FALSE]
        /\ query' = NoQuery /\ air' = <<>> /\ UNCHANGED sv
    BY <1>4 DEF DisconnectionComplete
  <2>2. gc' \in ClientType /\ gc'.state = "TC_W4_SCAN_RESULT" /\ gc'.handle = 0
    BY <2>1
  <2>3. link' \in [gc : Nat, sv : Nat, next : Nat \ {0}] /\ link'.gc = 0 /\ link'.sv = link.sv
    BY <2>1
  <2>4. query' = [of |-> "none", conn |-> 0, done |-> FALSE]
    BY <2>1, Zenon DEF NoQuery
  <2>5. air' = <<>> /\ air' \in Seq(Readings)
    BY <2>1, EmptySeq, Zenon
  <2>6. QED
    BY <2>1, <2>2, <2>3, <2>4, <2>5
<1>5. CASE QueryComplete
  <2>1. /\ query.of # "none" /\ query.done /\ query.conn = link.gc /\ link.gc # 0
        /\ UNCHANGED <<sv, link, air>>
    BY <1>5 DEF QueryComplete
  <2>2. CASE gc.state = "TC_W4_SERVICE_RESULT"
    <3>1. /\ gc' = [gc EXCEPT !.state = "TC_W4_CHARACTERISTIC_RESULT", !.service = link.gc]
          /\ query' = [of |-> "characteristic", conn |-> link.gc, done |-> TRUE]
      BY <1>5, <2>2 DEF QueryComplete, Asks
    <3>2. /\ gc' \in ClientType /\ gc'.state = "TC_W4_CHARACTERISTIC_RESULT" /\ gc'.service = link.gc
          /\ gc'.handle = gc.handle
      BY <3>1
    <3>3. QED
      BY <2>1, <3>1, <3>2
  <2>3. CASE gc.state = "TC_W4_CHARACTERISTIC_RESULT"
    <3>1. /\ gc' = [gc EXCEPT !.state = "TC_W4_ENABLE_NOTIFICATIONS_COMPLETE",
                              !.characteristic = link.gc, !.listener = TRUE]
          /\ query' = [of |-> "notify", conn |-> link.gc, done |-> FALSE]
      BY <1>5, <2>3 DEF QueryComplete, Asks
    <3>2. /\ gc' \in ClientType /\ gc'.state = "TC_W4_ENABLE_NOTIFICATIONS_COMPLETE"
          /\ gc'.characteristic = link.gc /\ gc'.listener
          /\ gc'.handle = gc.handle /\ gc'.service = gc.service
      BY <3>1
    <3>3. QED
      BY <2>1, <2>3, <3>1, <3>2
  <2>4. CASE gc.state = "TC_W4_ENABLE_NOTIFICATIONS_COMPLETE"
    <3>1. /\ gc' = [gc EXCEPT !.state = "TC_W4_READY"]
          /\ query' = [of |-> "none", conn |-> 0, done |-> FALSE]
      BY <1>5, <2>4 DEF QueryComplete, NoQuery
    <3>2. /\ gc' \in ClientType /\ gc'.state = "TC_W4_READY"
          /\ gc'.characteristic = gc.characteristic /\ gc'.listener = gc.listener
          /\ gc'.handle = gc.handle /\ gc'.service = gc.service
      BY <3>1
    <3>3. query.of = "notify"
      BY <2>1, <2>4
    <3>4. QED
      BY <2>1, <2>4, <3>1, <3>2, <3>3
  <2>5. QED
    BY <1>5, <2>2, <2>3, <2>4 DEF QueryComplete
<1>6. CASE QueryFails
  <2>1. CASE query.of = "notify"
    BY <1>6, <2>1 DEF QueryFails, NoQuery
  <2>2. CASE query.of # "notify"
    <3>1. /\ query.of # "none" /\ query' = NoQuery /\ link' = [link EXCEPT !.gc = 0]
          /\ gc' = [gc EXCEPT !.state = "TC_W4_SCAN_RESULT", !.handle = 0, !.listener = FALSE]
          /\ air' = <<>> /\ UNCHANGED sv
      BY <1>6, <2>2 DEF QueryFails
    <3>2. gc' \in ClientType /\ gc'.state = "TC_W4_SCAN_RESULT" /\ gc'.handle = 0
      BY <3>1
    <3>3. link' \in [gc : Nat, sv : Nat, next : Nat \ {0}] /\ link'.gc = 0 /\ link'.sv = link.sv
      BY <3>1
    <3>4. query' = [of |-> "none", conn |-> 0, done |-> FALSE]
      BY <3>1, Zenon DEF NoQuery
    <3>5. air' = <<>> /\ air' \in Seq(Readings)
      BY <3>1, EmptySeq, Zenon
    <3>6. QED
      BY <3>1, <3>2, <3>3, <3>4, <3>5
  <2>3. QED
    BY <2>1, <2>2
<1>7. CASE Notification
  <2>1. /\ air # <<>> /\ air' = Tail(air) /\ UNCHANGED <<sv, link, query>>
        /\ gc' = IF gc.state = "TC_W4_READY" THEN [gc EXCEPT !.temp = Head(air)] ELSE gc
    BY <1>7 DEF Notification
  <2>2. Head(air) \in Readings /\ air' \in Seq(Readings)
    BY <2>1
  <2>3. /\ gc' \in ClientType /\ gc'.state = gc.state /\ gc'.handle = gc.handle
        /\ gc'.listener = gc.listener /\ gc'.service = gc.service
        /\ gc'.characteristic = gc.characteristic
    <3>1. CASE gc.state = "TC_W4_READY"
      <4>1. gc' = [gc EXCEPT !.temp = Head(air)]
        BY <2>1, <3>1, Zenon
      <4>2. QED
        BY <2>2, <4>1
    <3>2. CASE gc.state # "TC_W4_READY"
      <4>1. gc' = gc
        BY <2>1, <3>2, Zenon
      <4>2. QED
        BY <4>1
    <3>3. QED
      BY <3>1, <3>2, Zenon
  <2>4. sv' = sv /\ link' = link /\ query' = query /\ air # <<>>
    BY <2>1
  <2>5. BleTyped'
    BY <2>2, <2>3, <2>4
  <2>6. Ends' /\ QueryFits' /\ Found'
    BY <2>3, <2>4
  <2>7. Notifies'
    BY <2>3, <2>4
  <2>8. QED
    BY <2>5, <2>6, <2>7
<1>8. CASE heartbeat_handler
  BY <1>8 DEF heartbeat_handler
<1>9. QED
  BY <1>1, <1>2, <1>3, <1>f, <1>4, <1>5, <1>6, <1>7, <1>8

\* Over every loss of the link, seen by the ends in either order, and any number of
\* connections: a client that is ready listens on the connection it has, knows that
\* connection's service, and is notified by the server as long as that sees it.
THEOREM ReadyClientServed == BleSpec => []ReadyIsServed
<1>1. BleInit => BleInv
  BY DEF BleInit, BleInv, BleTyped, Ends, QueryFits, Found, Notifies, ClientStates, NoQuery, Readings
<1>2. BleInv /\ [BleNext]_bleVars => BleInv'
  <2> SUFFICES ASSUME BleInv, [BleNext]_bleVars PROVE BleInv'
    OBVIOUS
  <2>1. CASE UNCHANGED bleVars
    BY <2>1 DEF bleVars, BleInv, BleTyped, Ends, QueryFits, Found, Notifies
  <2>2. CASE BleNext
    BY <2>2, ServerKeeps, ClientKeeps DEF BleNext
  <2>3. QED
    BY <2>1, <2>2
<1>3. BleInv => ReadyIsServed
  BY DEF BleInv, BleTyped, Ends, Found, Notifies, ReadyIsServed
<1>4. QED
  BY <1>1, <1>2, <1>3, PTL DEF BleSpec

\* The property of the run, of the two programs together.
THEOREM WaitsAreSound == WifiSpec /\ BleSpec => []WaitsEnd
<1>1. WifiSpec => []WaitEnds
  BY WaitsAreEnded
<1>2. WaitEnds /\ ReadyIsServed => WaitsEnd
  BY DEF WaitsEnd
<1>3. QED
  BY <1>1, <1>2, ReadyClientServed, PTL

-----------------------------------------------------------------------------
(* The HID device and the keyboard's host. *)

\* At most one report is under way, and all that a keyboard's report changes is
\* the key that the host knew before it: so the reports that the host has not seen
\* account for the characters that it has not written.
HidTyped ==
    /\ btn \in BOOLEAN /\ prev \in BOOLEAN /\ hasKey \in [Keyed -> BOOLEAN]
    /\ wire \in [id : 0 .. 4, key : BOOLEAN] /\ complete \in 0 .. 4
    /\ typed \in Nat /\ presses \in Nat
KeysAgree ==
    /\ wire.id = 0 => wire = NoReport
    /\ wire.id # 1 => hasKey["keyboard"] = prev /\ typed = presses
    /\ wire.id = 1 => /\ hasKey["keyboard"] = wire.key
                      /\ presses = IF wire.key /\ ~prev THEN typed + 1 ELSE typed
HidInv == HidTyped /\ KeysAgree

LEMMA HidStarts == HidInit => HidInv
<1> SUFFICES ASSUME HidInit PROVE HidInv OBVIOUS
<1>0. "keyboard" \in Keyed BY DEF Keyed
<1>1. /\ btn = FALSE /\ prev = FALSE /\ complete = 0 /\ typed = 0 /\ presses = 0 /\ wire = NoReport
      /\ hasKey = [r \in Keyed |-> FALSE]
  BY DEF HidInit
<1>3. wire.id = 0 /\ typed = presses /\ hasKey["keyboard"] = prev
  <2>1. hasKey["keyboard"] = FALSE BY <1>0, <1>1
  <2>2. wire.id = 0 BY <1>1, SMT DEF NoReport
  <2> QED BY <1>1, <2>1, <2>2
<1>2. HidTyped
  <2>1. hasKey \in [Keyed -> BOOLEAN] BY <1>1, Zenon
  <2>2. wire \in [id : 0 .. 4, key : BOOLEAN] BY <1>1, SMT DEF NoReport
  <2>3. btn \in BOOLEAN /\ prev \in BOOLEAN BY <1>1, Zenon
  <2>4. complete \in 0 .. 4 /\ typed \in Nat /\ presses \in Nat BY <1>1, SMT
  <2> QED BY <2>1, <2>2, <2>3, <2>4, Zenon DEF HidTyped
<1>4. wire.id # 1 BY <1>3, SMT
<1> QED BY <1>1, <1>2, <1>3, <1>4, Zenon DEF HidInv, KeysAgree

\* A report of the chain, sent or not, leaves the characters in step.
LEMMA ReportKeepsKeys ==
    ASSUME NEW id \in 1 .. 4, HidInv, send_hid_report(id, btn),
           UNCHANGED <<btn, prev, typed>>, complete' \in 0 .. 4
    PROVE  HidInv'
<1> DEFINE sameReport == UNCHANGED <<hasKey, wire, presses>>
<1>1. CASE wire # NoReport \/ bus # "mounted"
  <2>1. sameReport BY <1>1, SMT DEF send_hid_report
  <2> QED BY <2>1, SMT DEF HidInv, HidTyped, KeysAgree, NoReport
<1>2. CASE ~(wire # NoReport \/ bus # "mounted") /\ id = 2
  <2>1. wire' = [id |-> id, key |-> FALSE] /\ UNCHANGED <<hasKey, presses>>
    BY <1>2, SMT DEF send_hid_report, Reports
  <2> QED BY <1>2, <2>1, SMT DEF HidInv, HidTyped, KeysAgree, NoReport
<1>3. CASE ~(wire # NoReport \/ bus # "mounted") /\ id # 2
  <2>1. Reports[id] \in Keyed /\ Reports[id] # "mouse" /\ (id = 1 <=> Reports[id] = "keyboard")
    BY <1>3, SMT DEF Reports, Keyed
  <2>2. /\ wire' = IF btn \/ hasKey[Reports[id]] THEN [id |-> id, key |-> btn] ELSE NoReport
        /\ hasKey' = [hasKey EXCEPT ![Reports[id]] = btn]
        /\ presses' = IF id = 1 /\ btn /\ ~hasKey["keyboard"] THEN presses + 1 ELSE presses
    BY <1>3, <2>1, SMT DEF send_hid_report
  <2>3. HidTyped' BY <2>1, <2>2, SMT DEF HidInv, HidTyped, NoReport, Keyed
  <2>4. wire.id = 0 /\ hasKey["keyboard"] = prev /\ typed = presses
    BY <1>3, SMT DEF HidInv, HidTyped, KeysAgree, NoReport
  <2>5. CASE id = 1
    <3>1. hasKey'["keyboard"] = btn BY <2>1, <2>2, <2>5, SMT DEF HidInv, HidTyped, Keyed
    <3>2. btn \/ hasKey["keyboard"] => wire'.id = 1 /\ wire'.key = btn
      BY <2>1, <2>2, <2>5, SMT
    <3>3. ~(btn \/ hasKey["keyboard"]) => wire' = NoReport /\ wire'.id = 0
      BY <2>1, <2>2, <2>5, SMT DEF NoReport
    <3>4. presses' = IF btn /\ ~prev THEN typed + 1 ELSE typed BY <2>2, <2>4, <2>5
    <3>5. btn \in BOOLEAN /\ prev \in BOOLEAN BY DEF HidInv, HidTyped
    <3>6. CASE btn \/ hasKey["keyboard"]
      BY <3>1, <3>2, <3>4, <3>6, <2>3, SMT DEF KeysAgree, HidInv
    <3>7. CASE ~(btn \/ hasKey["keyboard"])
      <4>1. ~btn /\ ~prev /\ prev' = btn BY <3>5, <3>7, <2>4
      <4>2. presses' = typed' BY <3>4, <4>1
      <4>3. hasKey'["keyboard"] = prev' BY <3>1, <4>1
      <4> QED BY <3>3, <3>7, <4>2, <4>3, <2>3, SMT DEF KeysAgree, HidInv
    <3> QED BY <3>6, <3>7
  <2>6. CASE id # 1
    <3>1. hasKey'["keyboard"] = hasKey["keyboard"]
      BY <2>1, <2>2, <2>6, SMT DEF HidInv, HidTyped, Keyed
    <3>2. wire'.id # 1 /\ (wire'.id = 0 => wire' = NoReport)
      BY <2>1, <2>2, <2>6, SMT DEF NoReport
    <3>3. typed' = presses' /\ hasKey'["keyboard"] = prev' BY <2>2, <2>4, <2>6, <3>1
    <3>4. KeysAgree' BY <3>2, <3>3 DEF KeysAgree
    <3> QED BY <2>3, <3>4 DEF HidInv
  <2> QED BY <2>5, <2>6
<1> QED BY <1>1, <1>2, <1>3

LEMMA HidStays == HidInv /\ [HidNext]_hidVars => HidInv'
<1> SUFFICES ASSUME HidInv, [HidNext]_hidVars PROVE HidInv' OBVIOUS
<1> USE DEF HidInv
<1>1. CASE hid_task
  <2>1. CASE bus = "suspended" /\ btn
    BY <1>1, <2>1, SMT DEF hid_task, HidTyped, KeysAgree, NoReport
  <2>2. CASE ~(bus = "suspended" /\ btn)
    <3>1. send_hid_report(1, btn) BY <1>1, <2>2 DEF hid_task
    <3>2. UNCHANGED <<btn, prev, typed>> /\ complete' \in 0 .. 4 BY <1>1, SMT DEF hid_task, HidTyped
    <3> QED BY <3>1, <3>2, ReportKeepsKeys
  <2> QED BY <2>1, <2>2
<1>2. CASE tud_hid_report_complete_cb
  <2>1. UNCHANGED <<btn, prev, typed>> /\ complete' \in 0 .. 4 /\ complete \in 1 .. 4
    BY <1>2, SMT DEF tud_hid_report_complete_cb, HidTyped
  <2>2. CASE complete < 4
    <3>1. send_hid_report(complete + 1, btn)
      BY <1>2, <2>2, SMT DEF tud_hid_report_complete_cb, Reports
    <3>2. complete + 1 \in 1 .. 4 BY <2>1, <2>2
    <3> QED BY <2>1, <3>1, <3>2, ReportKeepsKeys
  <2>3. CASE complete = 4
    <3>1. UNCHANGED <<hasKey, wire, presses>>
      BY <1>2, <2>3, SMT DEF tud_hid_report_complete_cb, Reports
    <3> QED BY <2>1, <3>1, SMT DEF HidTyped, KeysAgree, NoReport
  <2> QED BY <2>1, <2>2, <2>3
<1>3. CASE tuh_hid_report_received_cb
  <2>1. wire.id \in 1 .. 4 /\ wire' = NoReport /\ complete' = wire.id /\ UNCHANGED <<btn, hasKey, presses>>
    BY <1>3, SMT DEF tuh_hid_report_received_cb, HidTyped, KeysAgree
  <2>2. CASE wire.id = 1
    <3>1. typed' = (IF wire.key /\ ~prev THEN typed + 1 ELSE typed) /\ prev' = wire.key
      BY <1>3, <2>2, SMT DEF tuh_hid_report_received_cb, process_generic_report, process_kbd_report, Reports
    <3> QED BY <2>1, <2>2, <3>1, SMT DEF HidTyped, KeysAgree, NoReport
  <2>3. CASE wire.id # 1
    <3>1. UNCHANGED <<prev, typed>>
      BY <1>3, <2>1, <2>3, SMT DEF tuh_hid_report_received_cb, process_generic_report, Reports
    <3> QED BY <2>1, <2>3, <3>1, SMT DEF HidTyped, KeysAgree, NoReport
  <2> QED BY <2>2, <2>3
<1>4. CASE UNCHANGED <<hasKey, wire, complete, prev, typed, presses>> /\ btn' \in BOOLEAN
  BY <1>4, SMT DEF HidTyped, KeysAgree, NoReport
<1>5. CASE Button \/ Mount \/ Suspend \/ Resume \/ led_blinking_task \/ UNCHANGED hidVars
           \/ \E caps \in BOOLEAN : tud_hid_set_report_cb(caps)
  <2>1. UNCHANGED <<hasKey, wire, complete, prev, typed, presses>> /\ (btn' = ~btn \/ btn' = btn)
    <3>1. CASE Button BY <3>1 DEF Button
    <3>2. CASE Mount \/ Suspend \/ Resume \/ led_blinking_task
      BY <3>2 DEF Mount, Suspend, Resume, led_blinking_task
    <3>3. CASE UNCHANGED hidVars BY <3>3 DEF hidVars
    <3>4. CASE \E caps \in BOOLEAN : tud_hid_set_report_cb(caps)
      BY <3>4 DEF tud_hid_set_report_cb
    <3> QED BY <1>5, <3>1, <3>2, <3>3, <3>4
  <2>3. btn' \in BOOLEAN BY <2>1 DEF HidTyped
  <2> QED BY <1>4, <2>1, <2>3
<1> QED BY <1>1, <1>2, <1>3, <1>5 DEF HidNext

(* The host writes one character for every press, whatever reports repeat the key,
   whatever the rest of the chain carries and whenever the bus sleeps. *)
THEOREM PressesTypedOnce == HidSpec => []KeyTypedOnce
<1>1. HidInv => KeyTypedOnce BY SMT DEF HidInv, HidTyped, KeysAgree, KeyTypedOnce, NoReport
<1> QED BY <1>1, HidStarts, HidStays, PTL DEF HidSpec

-----------------------------------------------------------------------------
(* The low-level USB device and its host. *)

Buffer == [avail : BOOLEAN, pid : Int, data : Int]
Devices == [dev_addr : {0, 1}, should_set_address : BOOLEAN, configured : BOOLEAN,
            dev_addr_ctrl : {0, 1}, next_pid : [Eps -> Int], buffer : [Eps -> Buffer]]
UsbRequests == OutRequests \cup InRequests
UsbPhases == {"idle", "data", "status", "ack"}
UsbAsks == UsbRequests \cup {"none"}
Packets == Seq(Int)
Hosts == [addr : {0, 1}, config : BOOLEAN, phase : UsbPhases, req : UsbAsks, wLength : Nat,
          out : Int, in : Int, sent : Nat, got : Packets, resets : Int, late : BOOLEAN]
Irqs == [setup : UsbAsks, done : SUBSET Eps, reset : BOOLEAN]

UsbTyped == devState \in Devices /\ host \in Hosts /\ irq \in Irqs /\ armed \in BOOLEAN

\* An answer is cut to what was asked for.
Lengthy ==
    devState.buffer["ep0_in"].avail => devState.buffer["ep0_in"].data <= Shorter(64, host.wLength)

\* The address, as long as no reset of the bus waits to be noticed.
Addressed ==
    ~irq.reset =>
       /\ irq.setup # "none" => host.phase \in {"data", "status"} /\ host.req = irq.setup
       /\ host.phase = "status" /\ host.req = "SET_ADDRESS" /\ irq.setup = "none"
             => devState.should_set_address
       /\ host.phase = "status" => (host.req = "SET_ADDRESS" <=> host.addr = 0)
       /\ host.phase = "data" => host.req \in InRequests
       \* between the host's acknowledgement and the interrupt that follows
       /\ devState.should_set_address =>
             /\ devState.dev_addr = 1 /\ devState.dev_addr_ctrl = 0 /\ irq.setup = "none"
             /\ \/ /\ host.phase = "status" /\ host.req = "SET_ADDRESS"
                   /\ host.addr = 0 /\ "ep0_in" \notin irq.done
                \/ host.phase = "idle" /\ host.addr = 1 /\ "ep0_in" \in irq.done
       /\ ~devState.should_set_address => devState.dev_addr_ctrl = host.addr
       /\ host.addr = 0 /\ "ep0_in" \in irq.done =>
             host.phase = "ack" /\ ~devState.buffer["ep0_out"].avail
       /\ host.addr = 0 /\ host.phase \in {"data", "status"} =>
             ~devState.buffer["ep0_out"].avail
WhenReset ==
    irq.reset => host.addr = 0 /\ host.phase = "idle" /\ irq.setup = "none"

\* Where the packet is that endpoint 1 and 2 pass on.
Waits == /\ devState.buffer["ep1_out"].avail /\ devState.buffer["ep1_out"].pid = host.out
         /\ devState.next_pid["ep1_out"] = 1 - host.out /\ devState.next_pid["ep2_in"] = host.in
         /\ ~devState.buffer["ep2_in"].avail /\ "ep1_out" \notin irq.done /\ "ep2_in" \notin irq.done
         /\ host.sent = Len(host.got)
Has == /\ ~devState.buffer["ep1_out"].avail /\ devState.buffer["ep1_out"].data = host.sent
       /\ devState.next_pid["ep1_out"] = host.out /\ devState.next_pid["ep2_in"] = host.in
       /\ ~devState.buffer["ep2_in"].avail /\ "ep1_out" \in irq.done /\ "ep2_in" \notin irq.done
       /\ host.sent = Len(host.got) + 1
Offers == /\ ~devState.buffer["ep1_out"].avail
          /\ devState.buffer["ep2_in"].avail /\ devState.buffer["ep2_in"].pid = host.in
          /\ devState.buffer["ep2_in"].data = host.sent
          /\ devState.next_pid["ep1_out"] = host.out /\ devState.next_pid["ep2_in"] = 1 - host.in
          /\ "ep1_out" \notin irq.done /\ "ep2_in" \notin irq.done
          /\ host.sent = Len(host.got) + 1
Passed == /\ ~devState.buffer["ep1_out"].avail /\ ~devState.buffer["ep2_in"].avail
          /\ devState.next_pid["ep1_out"] = host.out /\ devState.next_pid["ep2_in"] = host.in
          /\ "ep1_out" \notin irq.done /\ "ep2_in" \in irq.done
          /\ host.sent = Len(host.got)
Fresh == /\ ~devState.buffer["ep1_out"].avail /\ ~devState.buffer["ep2_in"].avail
         /\ devState.next_pid["ep1_out"] = 0 /\ devState.next_pid["ep2_in"] = 0
         /\ host.out = 0 /\ host.in = 0 /\ host.sent = 0 /\ host.got = <<>>
         /\ "ep1_out" \notin irq.done /\ "ep2_in" \notin irq.done

Echoes ==
    /\ ~armed => Fresh
    /\ armed /\ ~host.late => Waits \/ Has \/ Offers \/ Passed
    /\ ~host.late => \A e \in 1 .. Len(host.got) : host.got[e] = e

UsbInv == UsbTyped /\ Lengthy /\ Addressed /\ WhenReset /\ Echoes

-----------------------------------------------------------------------------
\* What the device does, one function at a time: what changes of its state.
LEMMA DeviceUpdated ==
    \A d \in Devices :
       /\ \A f \in [Eps -> Buffer] : [d EXCEPT !.buffer = f] \in Devices
       /\ \A f \in [Eps -> Int] : [d EXCEPT !.next_pid = f] \in Devices
       /\ \A x \in {0, 1} : /\ [d EXCEPT !.dev_addr = x] \in Devices
                            /\ [d EXCEPT !.dev_addr_ctrl = x] \in Devices
       /\ \A x \in BOOLEAN : /\ [d EXCEPT !.should_set_address = x] \in Devices
                             /\ [d EXCEPT !.configured = x] \in Devices
<1> TAKE d \in Devices
<1>1. ASSUME NEW f \in [Eps -> Buffer] PROVE [d EXCEPT !.buffer = f] \in Devices BY <1>1, SMT DEF Devices
<1>2. ASSUME NEW f \in [Eps -> Int] PROVE [d EXCEPT !.next_pid = f] \in Devices BY <1>2, SMT DEF Devices
<1>3. ASSUME NEW x \in {0, 1} PROVE [d EXCEPT !.dev_addr = x] \in Devices BY <1>3, SMT DEF Devices
<1>4. ASSUME NEW x \in {0, 1} PROVE [d EXCEPT !.dev_addr_ctrl = x] \in Devices BY <1>4, SMT DEF Devices
<1>5. ASSUME NEW x \in BOOLEAN PROVE [d EXCEPT !.should_set_address = x] \in Devices
  BY <1>5, SMT DEF Devices
<1>6. ASSUME NEW x \in BOOLEAN PROVE [d EXCEPT !.configured = x] \in Devices BY <1>6, SMT DEF Devices
<1> QED BY <1>1, <1>2, <1>3, <1>4, <1>5, <1>6

LEMMA ShorterOf == \A v, w \in Nat : /\ Shorter(v, w) \in Int /\ 0 <= Shorter(v, w)
                                     /\ v <= 64 => Shorter(v, w) <= Shorter(64, w)
  BY SMT DEF Shorter

SameRest(d, e, eps) == \A x \in Eps \ eps : e.buffer[x] = d.buffer[x] /\ e.next_pid[x] = d.next_pid[x]

LEMMA TransferKeeps ==
    ASSUME NEW d \in Devices, NEW ep \in Eps, NEW data \in Int, NEW e, e = usb_start_transfer(d, ep, data)
    PROVE  /\ e \in Devices
           /\ e.dev_addr = d.dev_addr /\ e.should_set_address = d.should_set_address
           /\ e.configured = d.configured /\ e.dev_addr_ctrl = d.dev_addr_ctrl
           /\ e.buffer[ep].avail /\ e.buffer[ep].pid = d.next_pid[ep] /\ e.buffer[ep].data = data
           /\ e.next_pid[ep] = 1 - d.next_pid[ep]
           /\ SameRest(d, e, {ep})
<1> DEFINE b == [avail |-> TRUE, pid |-> d.next_pid[ep], data |-> data]
<1>1. d.next_pid \in [Eps -> Int] /\ d.buffer \in [Eps -> Buffer] BY DEF Devices
<1>2. d.next_pid[ep] \in Int BY <1>1
<1>3. b \in Buffer BY <1>2, SMT DEF Buffer
<1>4. e = [[d EXCEPT !.buffer = [d.buffer EXCEPT ![ep] = b]]
              EXCEPT !.next_pid = [d.next_pid EXCEPT ![ep] = 1 - d.next_pid[ep]]]
  BY SMT DEF usb_start_transfer, Devices
<1> HIDE DEF b
<1>5. /\ e.dev_addr = d.dev_addr /\ e.should_set_address = d.should_set_address
      /\ e.configured = d.configured /\ e.dev_addr_ctrl = d.dev_addr_ctrl
      /\ e.buffer = [d.buffer EXCEPT ![ep] = b]
      /\ e.next_pid = [d.next_pid EXCEPT ![ep] = 1 - d.next_pid[ep]]
  BY <1>4, SMT DEF Devices
<1>6. e \in Devices
  <2>1. [d.buffer EXCEPT ![ep] = b] \in [Eps -> Buffer] BY <1>1, <1>3
  <2>2. 1 - d.next_pid[ep] \in Int BY <1>2
  <2>3. [d.next_pid EXCEPT ![ep] = 1 - d.next_pid[ep]] \in [Eps -> Int] BY <1>1, <2>2
  <2> DEFINE h == [d EXCEPT !.buffer = [d.buffer EXCEPT ![ep] = b]]
  <2>4. h \in Devices BY <2>1, DeviceUpdated, Zenon
  <2> HIDE DEF h
  <2>5. [h EXCEPT !.next_pid = [d.next_pid EXCEPT ![ep] = 1 - d.next_pid[ep]]] \in Devices
    BY <2>3, <2>4, DeviceUpdated, Zenon
  <2> QED BY <1>4, <2>5 DEF h
<1>7. e.buffer[ep] = b /\ e.next_pid[ep] = 1 - d.next_pid[ep] BY <1>1, <1>5
<1>8. \A x \in Eps \ {ep} : e.buffer[x] = d.buffer[x] /\ e.next_pid[x] = d.next_pid[x]
  BY <1>1, <1>5
<1>9. b.avail /\ b.pid = d.next_pid[ep] /\ b.data = data BY DEF b
<1>10. SameRest(d, e, {ep}) BY <1>8, Zenon DEF SameRest
<1> QED BY <1>5, <1>6, <1>7, <1>9, <1>10, Zenon

\* A setup packet: the address is remembered, and an answer on endpoint 0 is no
\* longer than a packet and than the host asked for.
AfterSetup(d, e, req, w) ==
    /\ e \in Devices
    /\ e.dev_addr_ctrl = d.dev_addr_ctrl
    /\ req = "SET_ADDRESS" => e.dev_addr = 1 /\ e.should_set_address = TRUE
    /\ req # "SET_ADDRESS" => e.dev_addr = d.dev_addr /\ e.should_set_address = d.should_set_address
    /\ SameRest(d, e, {"ep0_in"})
    /\ e.buffer["ep0_in"].avail => e.buffer["ep0_in"].data <= Shorter(64, w)

LEMMA SetupIs ==
    ASSUME NEW d \in Devices, NEW req \in UsbRequests, NEW w \in Nat,
           d.buffer["ep0_in"].avail => d.buffer["ep0_in"].data <= Shorter(64, w)
    PROVE  AfterSetup(d, usb_handle_setup_packet(d, req, w), req, w)
<1> DEFINE c == [d EXCEPT !.next_pid["ep0_in"] = 1]
           g == usb_handle_setup_packet(d, req, w)
<1>0. "ep0_in" \in Eps BY DEF Eps
<1>1. /\ c \in Devices /\ c.dev_addr = d.dev_addr /\ c.should_set_address = d.should_set_address
      /\ c.dev_addr_ctrl = d.dev_addr_ctrl /\ c.buffer = d.buffer
      /\ \A x \in Eps \ {"ep0_in"} : c.next_pid[x] = d.next_pid[x]
  <2>1. d.next_pid \in [Eps -> Int] BY DEF Devices
  <2>0. 1 \in Int OBVIOUS
  <2>2. [d.next_pid EXCEPT !["ep0_in"] = 1] \in [Eps -> Int] BY <2>0, <2>1, Zenon
  <2>3. c = [d EXCEPT !.next_pid = [d.next_pid EXCEPT !["ep0_in"] = 1]] BY SMT DEF Devices
  <2>5. c \in Devices BY <2>2, <2>3, DeviceUpdated, Zenon
  <2>6. /\ c.dev_addr = d.dev_addr /\ c.should_set_address = d.should_set_address
        /\ c.dev_addr_ctrl = d.dev_addr_ctrl /\ c.buffer = d.buffer
        /\ c.next_pid = [d.next_pid EXCEPT !["ep0_in"] = 1]
    BY <2>3, SMT DEF Devices
  <2> QED BY <2>1, <2>5, <2>6
<1> HIDE DEF c
\* The same of every device that answers: c, or c with the address it was given.
<1>2. ASSUME NEW h \in Devices, NEW cut \in Int, cut <= Shorter(64, w),
             h.dev_addr_ctrl = d.dev_addr_ctrl, SameRest(d, h, {"ep0_in"}),
             req = "SET_ADDRESS" => h.dev_addr = 1 /\ h.should_set_address = TRUE,
             req # "SET_ADDRESS" => h.dev_addr = d.dev_addr /\ h.should_set_address = d.should_set_address
      PROVE  AfterSetup(d, usb_start_transfer(h, "ep0_in", cut), req, w)
  <2> DEFINE e == usb_start_transfer(h, "ep0_in", cut)
  <2>1. /\ e \in Devices
        /\ e.dev_addr = h.dev_addr /\ e.should_set_address = h.should_set_address
        /\ e.dev_addr_ctrl = h.dev_addr_ctrl /\ e.buffer["ep0_in"].data = cut
        /\ SameRest(h, e, {"ep0_in"})
    BY <1>0, TransferKeeps
  <2> HIDE DEF e
  <2>2. SameRest(d, e, {"ep0_in"}) BY <1>2, <2>1, Zenon DEF SameRest
  <2>3. AfterSetup(d, e, req, w) BY <1>2, <2>1, <2>2, Zenon DEF AfterSetup
  <2> QED BY <2>3 DEF e
<1>3. SameRest(d, c, {"ep0_in"}) BY <1>1 DEF SameRest
<1>4. CASE req = "SET_ADDRESS"
  <2> DEFINE h == [c EXCEPT !.dev_addr = 1, !.should_set_address = TRUE]
  <2>1. g = usb_start_transfer(h, "ep0_in", 0)
    BY <1>4, SMT DEF c, usb_handle_setup_packet, usb_set_device_address, usb_acknowledge_out_request
  <2>2. /\ h \in Devices /\ h.dev_addr = 1 /\ h.should_set_address = TRUE
        /\ h.dev_addr_ctrl = c.dev_addr_ctrl /\ h.buffer = c.buffer /\ h.next_pid = c.next_pid
    <3> DEFINE k == [c EXCEPT !.dev_addr = 1]
    <3>1. k \in Devices BY <1>1, DeviceUpdated, Zenon
    <3>2. k.dev_addr = 1 /\ k.dev_addr_ctrl = c.dev_addr_ctrl /\ k.buffer = c.buffer /\ k.next_pid = c.next_pid
      BY <1>1, SMT DEF Devices
    <3>3. h = [k EXCEPT !.should_set_address = TRUE] BY <1>1, SMT DEF Devices
    <3> HIDE DEF k, h
    <3>4. h \in Devices BY <3>1, <3>3, DeviceUpdated, Zenon
    <3>5. /\ h.dev_addr = k.dev_addr /\ h.should_set_address = TRUE
          /\ h.dev_addr_ctrl = k.dev_addr_ctrl /\ h.buffer = k.buffer /\ h.next_pid = k.next_pid
      BY <3>1, <3>3, SMT DEF Devices
    <3> QED BY <3>2, <3>4, <3>5
  <2> HIDE DEF h
  <2>3. SameRest(d, h, {"ep0_in"}) BY <1>3, <2>2, Zenon DEF SameRest
  <2>4. 0 <= Shorter(64, w) BY SMT DEF Shorter
  <2>5. AfterSetup(d, usb_start_transfer(h, "ep0_in", 0), req, w)
    <3>1. 0 \in Int /\ h.dev_addr_ctrl = d.dev_addr_ctrl BY <1>1, <2>2
    <3> QED BY <1>2, <1>4, <2>2, <2>3, <2>4, <3>1
  <2> HIDE DEF g
  <2> QED BY <2>1, <2>5 DEF g
<1>5. ASSUME NEW cut \in Int, cut <= Shorter(64, w), req # "SET_ADDRESS"
      PROVE  AfterSetup(d, usb_start_transfer(c, "ep0_in", cut), req, w)
  BY <1>1, <1>2, <1>3, <1>5
<1>6. CASE req = "SET_CONFIGURATION"
  <2> DEFINE e == usb_start_transfer(c, "ep0_in", 0)
  <2>1. g = [e EXCEPT !.configured = TRUE]
    BY <1>6, SMT DEF c, usb_handle_setup_packet, usb_set_device_configuration, usb_acknowledge_out_request
  <2>2. 0 <= Shorter(64, w) BY SMT DEF Shorter
  <2>3. AfterSetup(d, e, req, w) BY <1>5, <1>6, <2>2
  <2> HIDE DEF e, g
  <2>4. e \in Devices BY <2>3 DEF AfterSetup
  <2>5. /\ g \in Devices /\ g.dev_addr = e.dev_addr /\ g.should_set_address = e.should_set_address
        /\ g.dev_addr_ctrl = e.dev_addr_ctrl /\ g.buffer = e.buffer /\ g.next_pid = e.next_pid
    <3>1. g \in Devices BY <2>1, <2>4, DeviceUpdated, Zenon
    <3> QED BY <2>1, <2>4, <3>1, SMT DEF Devices
  <2>6. AfterSetup(d, g, req, w) BY <2>3, <2>5, Zenon DEF AfterSetup, SameRest
  <2> QED BY <2>6 DEF g
<1>7. CASE req \in {"other_out", "device", "config", "string"}
  <2>1. PICK cut \in Int : cut <= Shorter(64, w) /\ \E x \in {c, [c EXCEPT !.next_pid["ep0_in"] = 1]} :
                g = usb_start_transfer(x, "ep0_in", cut)
    <3>1. CASE req = "other_out"
      <4>1. g = usb_start_transfer(c, "ep0_in", 0)
        BY <3>1, SMT DEF c, usb_handle_setup_packet, usb_acknowledge_out_request
      <4>2. 0 <= Shorter(64, w) BY SMT DEF Shorter
      <4>3. 0 \in Int OBVIOUS
      <4> QED BY <4>1, <4>2, <4>3, Zenon
    <3>2. CASE req = "device"
      <4>1. g = usb_start_transfer([c EXCEPT !.next_pid["ep0_in"] = 1], "ep0_in", Shorter(18, w))
        BY <3>2, SMT DEF c, usb_handle_setup_packet, usb_handle_device_descriptor
      <4>2. Shorter(18, w) \in Int /\ Shorter(18, w) <= Shorter(64, w) BY ShorterOf, SMT
      <4> HIDE DEF g
      <4> QED BY <4>1, <4>2, Zenon
    <3>3. CASE req = "config"
      <4> DEFINE cut == Shorter(IF w >= 9 + 9 + 7 + 7 THEN 9 + 9 + 7 + 7 ELSE 9, w)
      <4>1. g = usb_start_transfer(c, "ep0_in", cut)
        BY <3>3, SMT DEF c, usb_handle_setup_packet, usb_handle_config_descriptor
      <4>2. cut \in Int /\ cut <= Shorter(64, w) BY SMT DEF Shorter
      <4> HIDE DEF cut
      <4> QED BY <4>1, <4>2, Zenon
    <3>4. CASE req = "string"
      <4> DEFINE cut == Shorter(usb_prepare_string_descriptor(16), w)
      <4>1. g = usb_start_transfer(c, "ep0_in", cut)
        BY <3>4, SMT DEF c, usb_handle_setup_packet, usb_handle_string_descriptor
      <4>2. cut \in Int /\ cut <= Shorter(64, w) BY SMT DEF Shorter, usb_prepare_string_descriptor
      <4> HIDE DEF cut
      <4> QED BY <4>1, <4>2, Zenon
    <3> QED BY <1>7, <3>1, <3>2, <3>3, <3>4
  <2>2. [c EXCEPT !.next_pid["ep0_in"] = 1] = c
    <3>1. c.next_pid = [d.next_pid EXCEPT !["ep0_in"] = 1] BY SMT DEF c, Devices
    <3>2. d.next_pid \in [Eps -> Int] BY DEF Devices
    <3>3. c.next_pid["ep0_in"] = 1 BY <1>0, <3>1, <3>2
    <3>4. c.next_pid \in [Eps -> Int] BY <1>1 DEF Devices
    <3>5. [c.next_pid EXCEPT !["ep0_in"] = 1] = c.next_pid BY <3>3, <3>4
    <3>6. [c EXCEPT !.next_pid = c.next_pid] = c BY <1>1, SMT DEF Devices
    <3>7. [c EXCEPT !.next_pid["ep0_in"] = 1] = [c EXCEPT !.next_pid = [c.next_pid EXCEPT !["ep0_in"] = 1]]
      BY <1>1, SMT DEF Devices
    <3> QED BY <3>5, <3>6, <3>7
  <2>3. g = usb_start_transfer(c, "ep0_in", cut) BY <2>1, <2>2
  <2>4. AfterSetup(d, usb_start_transfer(c, "ep0_in", cut), req, w) BY <1>5, <1>7, <2>1
  <2> HIDE DEF g
  <2> QED BY <2>3, <2>4 DEF g
<1>8. CASE req = "other_in"
  <2>1. g = c BY <1>8, SMT DEF c, usb_handle_setup_packet
  <2>2. AfterSetup(d, c, req, w) BY <1>1, <1>3, <1>8, Zenon DEF AfterSetup
  <2> HIDE DEF g
  <2> QED BY <2>1, <2>2 DEF g
<1> QED BY <1>4, <1>6, <1>7, <1>8 DEF UsbRequests, OutRequests, InRequests

\* The buffers that are done: which endpoint each passes on to.
AfterStatus(d, e, done) ==
    /\ e \in Devices /\ e.dev_addr = d.dev_addr
    /\ e.buffer["ep0_in"] = d.buffer["ep0_in"]
    /\ "ep0_in" \notin done \/ d.should_set_address =>
          e.buffer["ep0_out"] = d.buffer["ep0_out"]
    /\ e.dev_addr_ctrl = IF "ep0_in" \in done /\ d.should_set_address THEN d.dev_addr ELSE d.dev_addr_ctrl
    /\ e.should_set_address <=> d.should_set_address /\ "ep0_in" \notin done
    /\ "ep1_out" \in done =>
          /\ e.buffer["ep2_in"].avail /\ e.buffer["ep2_in"].pid = d.next_pid["ep2_in"]
          /\ e.buffer["ep2_in"].data = d.buffer["ep1_out"].data
          /\ e.next_pid["ep2_in"] = 1 - d.next_pid["ep2_in"]
    /\ "ep1_out" \notin done =>
          e.buffer["ep2_in"] = d.buffer["ep2_in"] /\ e.next_pid["ep2_in"] = d.next_pid["ep2_in"]
    /\ "ep2_in" \in done =>
          /\ e.buffer["ep1_out"].avail /\ e.buffer["ep1_out"].pid = d.next_pid["ep1_out"]
          /\ e.next_pid["ep1_out"] = 1 - d.next_pid["ep1_out"]
    /\ "ep2_in" \notin done =>
          e.buffer["ep1_out"] = d.buffer["ep1_out"] /\ e.next_pid["ep1_out"] = d.next_pid["ep1_out"]

\* The first buffer that is looked at, endpoint 0's, and what follows it.
AfterEp0(d, e, done) ==
    /\ e \in Devices /\ e.dev_addr = d.dev_addr
    /\ SameRest(d, e, {"ep0_out"})
    /\ "ep0_in" \notin done \/ d.should_set_address => e.buffer["ep0_out"] = d.buffer["ep0_out"]
    /\ e.dev_addr_ctrl = IF "ep0_in" \in done /\ d.should_set_address THEN d.dev_addr ELSE d.dev_addr_ctrl
    /\ e.should_set_address = (d.should_set_address /\ "ep0_in" \notin done)

LEMMA Ep0Is ==
    ASSUME NEW d \in Devices, NEW done \in SUBSET Eps
    PROVE  AfterEp0(d, Handled(d, done, "ep0_in"), done)
<1> DEFINE e == Handled(d, done, "ep0_in")
<1>0. d.should_set_address \in BOOLEAN /\ d.dev_addr \in {0, 1} BY DEF Devices
<1>1. CASE "ep0_in" \notin done
  <2>1. e = d BY <1>1 DEF Handled
  <2> HIDE DEF e
  <2>2. AfterEp0(d, e, done) BY <1>0, <1>1, <2>1, Zenon DEF AfterEp0, SameRest
  <2> QED BY <2>2 DEF e
<1>2. CASE "ep0_in" \in done /\ d.should_set_address
  <2> DEFINE k == [d EXCEPT !.dev_addr_ctrl = d.dev_addr]
  <2>1. e = [k EXCEPT !.should_set_address = FALSE]
    BY <1>2, SMT DEF Handled, usb_handle_buff_done, ep0_in_handler
  <2>2. k \in Devices BY <1>0, DeviceUpdated, Zenon
  <2>3. k.dev_addr_ctrl = d.dev_addr /\ k.dev_addr = d.dev_addr /\ k.buffer = d.buffer /\ k.next_pid = d.next_pid
    BY SMT DEF Devices
  <2> HIDE DEF k, e
  <2>4. e \in Devices BY <2>1, <2>2, DeviceUpdated, Zenon
  <2>5. /\ e.dev_addr_ctrl = k.dev_addr_ctrl /\ e.dev_addr = k.dev_addr /\ e.buffer = k.buffer
        /\ e.next_pid = k.next_pid /\ e.should_set_address = FALSE
    BY <2>1, <2>2, SMT DEF Devices
  <2>6. AfterEp0(d, e, done) BY <1>2, <2>3, <2>4, <2>5, Zenon DEF AfterEp0, SameRest
  <2> QED BY <2>6 DEF e
<1>3. CASE "ep0_in" \in done /\ ~d.should_set_address
  <2>1. e = usb_start_transfer(d, "ep0_out", 0)
    BY <1>3, SMT DEF Handled, usb_handle_buff_done, ep0_in_handler
  <2>2. 0 \in Int /\ "ep0_out" \in Eps BY DEF Eps
  <2> HIDE DEF e
  <2>3. /\ e \in Devices /\ e.dev_addr = d.dev_addr /\ e.should_set_address = d.should_set_address
        /\ e.dev_addr_ctrl = d.dev_addr_ctrl /\ SameRest(d, e, {"ep0_out"})
    BY <2>1, <2>2, TransferKeeps
  <2>4. AfterEp0(d, e, done) BY <1>0, <1>3, <2>3, Zenon DEF AfterEp0
  <2> QED BY <2>4 DEF e
<1> QED BY <1>1, <1>2, <1>3

LEMMA StatusIs ==
    ASSUME NEW d \in Devices, NEW done \in SUBSET Eps
    PROVE  AfterStatus(d, usb_handle_buff_status(d, done), done)
<1> DEFINE d1 == Handled(d, done, "ep0_in")
           d2 == Handled(d1, done, "ep0_out")
           d3 == Handled(d2, done, "ep1_out")
           d4 == Handled(d3, done, "ep2_in")
<1>9. usb_handle_buff_status(d, done) = d4 BY DEF usb_handle_buff_status
<1>1. AfterEp0(d, d1, done) BY Ep0Is
<1>2. d2 = d1 BY SMT DEF Handled, usb_handle_buff_done
<1> HIDE DEF d1
<1>3. d1 \in Devices /\ 0 \in Int BY <1>1 DEF AfterEp0
<1>4. d1.buffer \in [Eps -> Buffer] BY <1>3 DEF Devices
<1>e. {"ep0_in", "ep0_out", "ep1_out", "ep2_in"} \subseteq Eps BY DEF Eps
<1>5. d1.buffer["ep1_out"] \in Buffer BY <1>4, <1>e
<1>6. d1.buffer["ep1_out"].data \in Int BY <1>5, SMT DEF Buffer
<1>7. /\ d3 \in Devices /\ d3.dev_addr = d1.dev_addr /\ d3.should_set_address = d1.should_set_address
      /\ d3.dev_addr_ctrl = d1.dev_addr_ctrl /\ SameRest(d1, d3, {"ep2_in"})
      /\ "ep1_out" \in done =>
            /\ d3.buffer["ep2_in"].avail /\ d3.buffer["ep2_in"].pid = d1.next_pid["ep2_in"]
            /\ d3.buffer["ep2_in"].data = d1.buffer["ep1_out"].data
            /\ d3.next_pid["ep2_in"] = 1 - d1.next_pid["ep2_in"]
      /\ "ep1_out" \notin done =>
            d3.buffer["ep2_in"] = d1.buffer["ep2_in"] /\ d3.next_pid["ep2_in"] = d1.next_pid["ep2_in"]
  <2>1. CASE "ep1_out" \in done
    <3>1. d3 = usb_start_transfer(d1, "ep2_in", d1.buffer["ep1_out"].data)
      BY <1>2, <2>1, SMT DEF Handled, usb_handle_buff_done, ep1_out_handler
    <3> HIDE DEF d3
    <3>2. "ep2_in" \in Eps BY <1>e
    <3>3. /\ d3 \in Devices /\ d3.dev_addr = d1.dev_addr /\ d3.should_set_address = d1.should_set_address
          /\ d3.dev_addr_ctrl = d1.dev_addr_ctrl /\ SameRest(d1, d3, {"ep2_in"})
          /\ d3.buffer["ep2_in"].avail /\ d3.buffer["ep2_in"].pid = d1.next_pid["ep2_in"]
          /\ d3.buffer["ep2_in"].data = d1.buffer["ep1_out"].data
          /\ d3.next_pid["ep2_in"] = 1 - d1.next_pid["ep2_in"]
      BY <1>3, <1>6, <3>1, <3>2, TransferKeeps
    <3> QED BY <2>1, <3>3
  <2>2. CASE "ep1_out" \notin done
    <3>1. d3 = d1 BY <1>2, <2>2 DEF Handled
    <3> HIDE DEF d3
    <3> QED BY <1>3, <2>2, <3>1, Zenon DEF SameRest
  <2> QED BY <2>1, <2>2
<1> HIDE DEF d3
<1>8. /\ d4 \in Devices /\ d4.dev_addr = d3.dev_addr /\ d4.should_set_address = d3.should_set_address
      /\ d4.dev_addr_ctrl = d3.dev_addr_ctrl /\ SameRest(d3, d4, {"ep1_out"})
      /\ "ep2_in" \in done =>
            /\ d4.buffer["ep1_out"].avail /\ d4.buffer["ep1_out"].pid = d3.next_pid["ep1_out"]
            /\ d4.next_pid["ep1_out"] = 1 - d3.next_pid["ep1_out"]
      /\ "ep2_in" \notin done =>
            d4.buffer["ep1_out"] = d3.buffer["ep1_out"] /\ d4.next_pid["ep1_out"] = d3.next_pid["ep1_out"]
  <2>1. CASE "ep2_in" \in done
    <3>1. d4 = usb_start_transfer(d3, "ep1_out", 0)
      BY <2>1, SMT DEF Handled, usb_handle_buff_done, ep2_in_handler
    <3> HIDE DEF d4
    <3> QED BY <1>3, <1>7, <1>e, <2>1, <3>1, TransferKeeps
  <2>2. CASE "ep2_in" \notin done
    <3>1. d4 = d3 BY <2>2 DEF Handled
    <3> HIDE DEF d4
    <3> QED BY <1>7, <2>2, <3>1, Zenon DEF SameRest
  <2> QED BY <2>1, <2>2
<1> HIDE DEF d2, d4
<1>a. /\ d1.buffer["ep0_in"] = d.buffer["ep0_in"]
      /\ d1.buffer["ep1_out"] = d.buffer["ep1_out"] /\ d1.next_pid["ep1_out"] = d.next_pid["ep1_out"]
      /\ d1.buffer["ep2_in"] = d.buffer["ep2_in"] /\ d1.next_pid["ep2_in"] = d.next_pid["ep2_in"]
  BY <1>1, SMT DEF AfterEp0, SameRest, Eps
<1>b. /\ d3.buffer["ep0_in"] = d1.buffer["ep0_in"] /\ d3.buffer["ep0_out"] = d1.buffer["ep0_out"]
      /\ d3.buffer["ep1_out"] = d1.buffer["ep1_out"] /\ d3.next_pid["ep1_out"] = d1.next_pid["ep1_out"]
  BY <1>7, SMT DEF SameRest, Eps
<1>c. /\ d4.buffer["ep0_in"] = d3.buffer["ep0_in"] /\ d4.buffer["ep0_out"] = d3.buffer["ep0_out"]
      /\ d4.buffer["ep2_in"] = d3.buffer["ep2_in"] /\ d4.next_pid["ep2_in"] = d3.next_pid["ep2_in"]
  BY <1>8, SMT DEF SameRest, Eps
<1>d. AfterStatus(d, d4, done)
  <2>1. /\ d4 \in Devices /\ d4.dev_addr = d.dev_addr
        /\ d4.should_set_address = (d.should_set_address /\ "ep0_in" \notin done)
    BY <1>1, <1>7, <1>8, Zenon DEF AfterEp0
  <2>2. d4.dev_addr_ctrl = IF "ep0_in" \in done /\ d.should_set_address THEN d.dev_addr ELSE d.dev_addr_ctrl
    BY <1>1, <1>7, <1>8, Zenon DEF AfterEp0
  <2>3. d4.buffer["ep0_in"] = d.buffer["ep0_in"]
    BY <1>a, <1>b, <1>c, Zenon
  <2>4. "ep0_in" \notin done \/ d.should_set_address => d4.buffer["ep0_out"] = d.buffer["ep0_out"]
    BY <1>1, <1>b, <1>c, Zenon DEF AfterEp0
  <2>5. "ep1_out" \in done =>
          /\ d4.buffer["ep2_in"].avail /\ d4.buffer["ep2_in"].pid = d.next_pid["ep2_in"]
          /\ d4.buffer["ep2_in"].data = d.buffer["ep1_out"].data
          /\ d4.next_pid["ep2_in"] = 1 - d.next_pid["ep2_in"]
    BY <1>7, <1>a, <1>c, Zenon
  <2>6. "ep1_out" \notin done =>
          d4.buffer["ep2_in"] = d.buffer["ep2_in"] /\ d4.next_pid["ep2_in"] = d.next_pid["ep2_in"]
    BY <1>7, <1>a, <1>c, Zenon
  <2>7. "ep2_in" \in done =>
          /\ d4.buffer["ep1_out"].avail /\ d4.buffer["ep1_out"].pid = d.next_pid["ep1_out"]
          /\ d4.next_pid["ep1_out"] = 1 - d.next_pid["ep1_out"]
    BY <1>8, <1>a, <1>b, Zenon
  <2>8. "ep2_in" \notin done =>
          d4.buffer["ep1_out"] = d.buffer["ep1_out"] /\ d4.next_pid["ep1_out"] = d.next_pid["ep1_out"]
    BY <1>8, <1>a, <1>b, Zenon
  <2>9. QED
    BY <2>1, <2>2, <2>3, <2>4, <2>5, <2>6, <2>7, <2>8, Zenon DEF AfterStatus
<1> QED BY <1>9, <1>d

-----------------------------------------------------------------------------
\* The interrupt: its effect on the endpoints that carry packets, and on the address.
IsrEcho ==
    /\ "ep1_out" \in irq.done =>
          /\ devState'.buffer["ep2_in"].avail
          /\ devState'.buffer["ep2_in"].pid = devState.next_pid["ep2_in"]
          /\ devState'.buffer["ep2_in"].data = devState.buffer["ep1_out"].data
          /\ devState'.next_pid["ep2_in"] = 1 - devState.next_pid["ep2_in"]
    /\ "ep1_out" \notin irq.done =>
          /\ devState'.buffer["ep2_in"] = devState.buffer["ep2_in"]
          /\ devState'.next_pid["ep2_in"] = devState.next_pid["ep2_in"]
    /\ "ep2_in" \in irq.done =>
          /\ devState'.buffer["ep1_out"].avail
          /\ devState'.buffer["ep1_out"].pid = devState.next_pid["ep1_out"]
          /\ devState'.next_pid["ep1_out"] = 1 - devState.next_pid["ep1_out"]
    /\ "ep2_in" \notin irq.done =>
          /\ devState'.buffer["ep1_out"] = devState.buffer["ep1_out"]
          /\ devState'.next_pid["ep1_out"] = devState.next_pid["ep1_out"]
AddressAsked == irq.setup = "SET_ADDRESS" \/ devState.should_set_address
IsrAddress ==
    /\ irq.reset => devState'.dev_addr_ctrl = 0 /\ devState'.should_set_address = FALSE
    /\ ~irq.reset =>
         /\ devState'.dev_addr = IF irq.setup = "SET_ADDRESS" THEN 1 ELSE devState.dev_addr
         /\ devState'.dev_addr_ctrl = IF "ep0_in" \in irq.done /\ AddressAsked
                                      THEN devState'.dev_addr ELSE devState.dev_addr_ctrl
         /\ devState'.should_set_address <=> AddressAsked /\ "ep0_in" \notin irq.done
         /\ "ep0_in" \notin irq.done \/ AddressAsked =>
               devState'.buffer["ep0_out"] = devState.buffer["ep0_out"]
IsrRest ==
    /\ devState' \in Devices
    /\ devState'.buffer["ep0_in"].avail =>
          devState'.buffer["ep0_in"].data <= Shorter(64, host.wLength)
    /\ irq'.setup = "none" /\ irq'.done = {} /\ irq'.reset = FALSE /\ irq' \in Irqs
    /\ UNCHANGED <<armed, host>>

LEMMA ResetIs ==
    ASSUME NEW d \in Devices
    PROVE  LET e == usb_bus_reset(d)
           IN  /\ e \in Devices /\ e.dev_addr_ctrl = 0 /\ e.should_set_address = FALSE
               /\ e.buffer = d.buffer /\ e.next_pid = d.next_pid
<1> DEFINE k1 == [d EXCEPT !.dev_addr = 0]
           k2 == [k1 EXCEPT !.should_set_address = FALSE]
           k3 == [k2 EXCEPT !.dev_addr_ctrl = 0]
           k4 == [k3 EXCEPT !.configured = FALSE]
<1>1. usb_bus_reset(d) = k4 BY SMT DEF usb_bus_reset
<1>2. k1 \in Devices /\ k1.buffer = d.buffer /\ k1.next_pid = d.next_pid
  <2>1. k1 \in Devices BY DeviceUpdated, Zenon
  <2> QED BY <2>1, SMT DEF Devices
<1> HIDE DEF k1
<1>3. /\ k2 \in Devices /\ k2.buffer = k1.buffer /\ k2.next_pid = k1.next_pid
      /\ k2.should_set_address = FALSE
  <2>1. k2 \in Devices BY <1>2, DeviceUpdated, Zenon
  <2>2. k2.buffer = k1.buffer /\ k2.next_pid = k1.next_pid BY <1>2, <2>1, SMT DEF Devices
  <2>3. k2.should_set_address = FALSE BY <1>2, SMT DEF Devices
  <2> QED BY <2>1, <2>2, <2>3
<1> HIDE DEF k2
<1>4. /\ k3 \in Devices /\ k3.buffer = k2.buffer /\ k3.next_pid = k2.next_pid
      /\ k3.should_set_address = k2.should_set_address /\ k3.dev_addr_ctrl = 0
  <2>1. k3 \in Devices BY <1>3, DeviceUpdated, Zenon
  <2> QED BY <1>3, <2>1, SMT DEF Devices
<1> HIDE DEF k3
<1>5. /\ k4 \in Devices /\ k4.buffer = k3.buffer /\ k4.next_pid = k3.next_pid
      /\ k4.should_set_address = k3.should_set_address /\ k4.dev_addr_ctrl = k3.dev_addr_ctrl
  <2>1. k4 \in Devices BY <1>4, DeviceUpdated, Zenon
  <2>2. k4.buffer = k3.buffer /\ k4.next_pid = k3.next_pid /\ k4.dev_addr_ctrl = k3.dev_addr_ctrl
    BY <1>4, SMT DEF Devices
  <2>3. k4.should_set_address = k3.should_set_address BY <1>4, SMT DEF Devices
  <2> QED BY <2>1, <2>2, <2>3
<1> HIDE DEF k4
<1> QED BY <1>1, <1>2, <1>3, <1>4, <1>5

LEMMA IsrIs ==
    ASSUME UsbTyped, Lengthy, isr_usbctrl
    PROVE  IsrEcho /\ IsrAddress /\ IsrRest
<1> DEFINE d1 == IF irq.setup = "none" THEN devState
                 ELSE usb_handle_setup_packet(devState, irq.setup, host.wLength)
           d2 == usb_handle_buff_status(d1, irq.done)
<1>0. devState' = IF irq.reset THEN usb_bus_reset(d2) ELSE d2
  BY DEF isr_usbctrl
<1>1. irq' = [setup |-> "none", done |-> {}, reset |-> FALSE] /\ UNCHANGED <<armed, host>>
  BY DEF isr_usbctrl
<1>2. devState \in Devices /\ irq.done \in SUBSET Eps /\ irq.setup \in UsbRequests \cup {"none"}
      /\ host.wLength \in Nat /\ irq.reset \in BOOLEAN
  BY SMT DEF UsbTyped, Irqs, Hosts, UsbAsks
<1>3. /\ d1 \in Devices /\ d1.dev_addr_ctrl = devState.dev_addr_ctrl
      /\ irq.setup = "SET_ADDRESS" => d1.dev_addr = 1 /\ d1.should_set_address = TRUE
      /\ irq.setup # "SET_ADDRESS" => /\ d1.dev_addr = devState.dev_addr
                                      /\ d1.should_set_address = devState.should_set_address
      /\ SameRest(devState, d1, {"ep0_in"})
      /\ d1.buffer["ep0_in"].avail => d1.buffer["ep0_in"].data <= Shorter(64, host.wLength)
  <2>1. CASE irq.setup = "none"
    <3>1. d1 = devState BY <2>1
    <3> HIDE DEF d1
    <3> QED BY <1>2, <2>1, <3>1, Zenon DEF SameRest, Lengthy
  <2>2. CASE irq.setup # "none"
    <3>1. d1 = usb_handle_setup_packet(devState, irq.setup, host.wLength) BY <2>2
    <3>2. irq.setup \in UsbRequests BY <1>2, <2>2
    <3>3. AfterSetup(devState, d1, irq.setup, host.wLength)
      BY <1>2, <3>1, <3>2, SetupIs, Zenon DEF Lengthy
    <3> HIDE DEF d1
    <3> QED BY <3>3, Zenon DEF AfterSetup
  <2> QED BY <2>1, <2>2
<1> HIDE DEF d1
<1>4. AfterStatus(d1, d2, irq.done) BY <1>2, <1>3, StatusIs
<1> HIDE DEF d2
<1>5. d2 \in Devices BY <1>4 DEF AfterStatus
<1>6. /\ devState' \in Devices /\ devState'.buffer = d2.buffer /\ devState'.next_pid = d2.next_pid
      /\ irq.reset => devState'.dev_addr_ctrl = 0 /\ devState'.should_set_address = FALSE
      /\ ~irq.reset => devState' = d2
  BY <1>0, <1>5, ResetIs, Zenon
<1>7. /\ d1.buffer["ep0_out"] = devState.buffer["ep0_out"]
      /\ d1.buffer["ep1_out"] = devState.buffer["ep1_out"]
      /\ d1.next_pid["ep1_out"] = devState.next_pid["ep1_out"]
      /\ d1.buffer["ep2_in"] = devState.buffer["ep2_in"]
      /\ d1.next_pid["ep2_in"] = devState.next_pid["ep2_in"]
  BY <1>3, SMT DEF SameRest, Eps
<1>8. IsrEcho BY <1>4, <1>6, <1>7, Zenon DEF IsrEcho, AfterStatus
<1>9. IsrAddress
  <2>1. d1.should_set_address <=> AddressAsked BY <1>2, <1>3, Zenon DEF AddressAsked
  <2>2. ~irq.reset =>
         /\ devState'.dev_addr = d1.dev_addr
         /\ devState'.dev_addr_ctrl = IF "ep0_in" \in irq.done /\ d1.should_set_address
                                      THEN d1.dev_addr ELSE d1.dev_addr_ctrl
         /\ devState'.should_set_address <=> d1.should_set_address /\ "ep0_in" \notin irq.done
         /\ "ep0_in" \notin irq.done \/ d1.should_set_address =>
               devState'.buffer["ep0_out"] = d1.buffer["ep0_out"]
    BY <1>4, <1>6, Zenon DEF AfterStatus
  <2>3. d1.dev_addr = IF irq.setup = "SET_ADDRESS" THEN 1 ELSE devState.dev_addr BY <1>3
  <2> QED BY <1>3, <1>6, <1>7, <2>1, <2>2, <2>3, Zenon DEF IsrAddress
<1>a. IsrRest
  <2>1. irq'.setup = "none" /\ irq'.done = {} /\ irq'.reset = FALSE /\ irq' \in Irqs
    <3>1. "none" \in UsbAsks /\ {} \in SUBSET Eps /\ FALSE \in BOOLEAN BY DEF UsbAsks
    <3>2. irq' \in Irqs BY <1>1, <3>1, Zenon DEF Irqs
    <3> QED BY <1>1, <3>2
  <2>2. devState'.buffer["ep0_in"] = d1.buffer["ep0_in"] BY <1>4, <1>6, Zenon DEF AfterStatus
  <2> QED BY <1>1, <1>3, <1>6, <2>1, <2>2, Zenon DEF IsrRest
<1> QED BY <1>8, <1>9, <1>a

LEMMA IsrKeeps == ASSUME UsbInv, isr_usbctrl PROVE UsbInv'
<1>0. UsbTyped /\ Lengthy /\ Addressed /\ WhenReset /\ Echoes BY DEF UsbInv
<1>1. IsrEcho /\ IsrAddress /\ IsrRest BY <1>0, IsrIs
<1>2. UsbTyped' BY <1>0, <1>1, Zenon DEF UsbTyped, IsrRest
<1>3. Lengthy' BY <1>1, Zenon DEF Lengthy, IsrRest
<1>4. WhenReset' BY <1>1, SMT DEF WhenReset, IsrRest
<1>5. Addressed'
  <2>1. irq'.setup = "none" /\ irq'.done = {} /\ host' = host BY <1>1 DEF IsrRest
  <2>2. devState.dev_addr_ctrl \in {0, 1} /\ devState.should_set_address \in BOOLEAN
        /\ devState.dev_addr \in {0, 1}
    BY <1>0 DEF UsbTyped, Devices
  <2>3. CASE irq.reset
    <3>1. devState'.dev_addr_ctrl = 0 /\ devState'.should_set_address = FALSE
      BY <1>1, <2>3 DEF IsrAddress
    <3>2. host.addr = 0 /\ host.phase = "idle" BY <1>0, <2>3 DEF WhenReset
    <3> QED BY <2>1, <3>1, <3>2, SMT DEF Addressed
  <2>4. CASE ~irq.reset
    <3>1. /\ devState'.dev_addr = IF irq.setup = "SET_ADDRESS" THEN 1 ELSE devState.dev_addr
          /\ devState'.dev_addr_ctrl = IF "ep0_in" \in irq.done /\ AddressAsked
                                       THEN devState'.dev_addr ELSE devState.dev_addr_ctrl
          /\ devState'.should_set_address <=> AddressAsked /\ "ep0_in" \notin irq.done
          /\ "ep0_in" \notin irq.done \/ AddressAsked =>
                devState'.buffer["ep0_out"] = devState.buffer["ep0_out"]
      BY <1>1, <2>4, Zenon DEF IsrAddress
    <3>2. CASE irq.setup = "SET_ADDRESS"
      BY <1>0, <2>1, <2>2, <2>4, <3>1, <3>2, SMT DEF Addressed, AddressAsked, InRequests
    <3>3. CASE irq.setup # "SET_ADDRESS"
      BY <1>0, <2>1, <2>2, <2>4, <3>1, <3>3, SMT DEF Addressed, AddressAsked, InRequests
    <3> QED BY <3>2, <3>3
  <2> QED BY <2>3, <2>4
<1>6. Echoes'
  <2>1. irq'.done = {} /\ UNCHANGED <<host, armed>> BY <1>1 DEF IsrRest
  <2>2. Waits => Waits' BY <1>1, <2>1, Zenon DEF Waits, IsrEcho
  <2>3. Has => Offers' BY <1>1, <2>1, Zenon DEF Has, Offers, IsrEcho
  <2>4. Offers => Offers' BY <1>1, <2>1, Zenon DEF Offers, IsrEcho
  <2>5. Passed => Waits' BY <1>1, <2>1, Zenon DEF Passed, Waits, IsrEcho
  <2>6. Fresh => Fresh' BY <1>1, <2>1, Zenon DEF Fresh, IsrEcho
  <2> QED BY <1>0, <2>1, <2>2, <2>3, <2>4, <2>5, <2>6, Zenon DEF Echoes
<1> QED BY <1>2, <1>3, <1>4, <1>5, <1>6 DEF UsbInv

-----------------------------------------------------------------------------
\* The main loop and the host.  Most steps leave the device's registers alone and
\* change one buffer, which the controller or the main loop hands over.
SameDevice(d, e) ==
    /\ e \in Devices /\ e.dev_addr = d.dev_addr /\ e.should_set_address = d.should_set_address
    /\ e.dev_addr_ctrl = d.dev_addr_ctrl
OneBuffer(d, e, ep) ==
    /\ SameDevice(d, e) /\ e.next_pid = d.next_pid
    /\ \A x \in Eps \ {ep} : e.buffer[x] = d.buffer[x]

SetBuffer(d, ep, b) == [d EXCEPT !.buffer = [d.buffer EXCEPT ![ep] = b]]

LEMMA BufferSet ==
    ASSUME NEW d \in Devices, NEW ep \in Eps, NEW b \in Buffer, NEW e, e = SetBuffer(d, ep, b)
    PROVE  OneBuffer(d, e, ep) /\ e.buffer[ep] = b
<1> DEFINE f == [d.buffer EXCEPT ![ep] = b]
<1>0. e = [d EXCEPT !.buffer = f] BY DEF SetBuffer
<1>1. d.buffer \in [Eps -> Buffer] BY DEF Devices
<1>2. f \in [Eps -> Buffer] BY <1>1, Zenon
<1>3. e \in Devices
  <2>1. \A g \in [Eps -> Buffer] : [d EXCEPT !.buffer = g] \in Devices BY DeviceUpdated, Zenon
  <2> HIDE DEF f
  <2> QED BY <1>0, <1>2, <2>1, Zenon
<1>4. /\ e.dev_addr = d.dev_addr /\ e.dev_addr_ctrl = d.dev_addr_ctrl
      /\ e.next_pid = d.next_pid /\ e.buffer = f
  BY <1>0, SMT DEF Devices
<1>5. e.should_set_address = d.should_set_address BY <1>0, SMT DEF Devices
<1> QED BY <1>1, <1>3, <1>4, <1>5 DEF OneBuffer, SameDevice

TakenFrom(d, ep) == [d EXCEPT !.buffer[ep].avail = FALSE]

LEMMA TakenIs ==
    ASSUME NEW d \in Devices, NEW ep \in Eps, NEW e, e = TakenFrom(d, ep)
    PROVE  /\ OneBuffer(d, e, ep) /\ e.buffer[ep].avail = FALSE
           /\ e.buffer[ep].pid = d.buffer[ep].pid /\ e.buffer[ep].data = d.buffer[ep].data
<1> DEFINE b == [d.buffer[ep] EXCEPT !.avail = FALSE]
<1>1. d.buffer[ep] \in Buffer BY DEF Devices
<1>2. b \in Buffer
  <2>1. \A c \in Buffer, x \in BOOLEAN : [c EXCEPT !.avail = x] \in Buffer BY SMT DEF Buffer
  <2> QED BY <1>1, <2>1, Zenon
<1>3. b.avail = FALSE /\ b.pid = d.buffer[ep].pid /\ b.data = d.buffer[ep].data
  BY <1>1, SMT DEF Buffer
<1>4. TakenFrom(d, ep) = SetBuffer(d, ep, b) BY SMT DEF Devices, SetBuffer, TakenFrom
<1> HIDE DEF b
<1>5. OneBuffer(d, e, ep) /\ e.buffer[ep] = b BY <1>2, <1>4, BufferSet
<1> QED BY <1>3, <1>5

LEMMA MainKeeps == ASSUME UsbInv, UsbMain PROVE UsbInv'
<1>0. UsbTyped /\ Lengthy /\ Addressed /\ WhenReset /\ Echoes BY DEF UsbInv
<1>1. devState \in Devices /\ "ep1_out" \in Eps /\ 0 \in Int BY <1>0 DEF UsbTyped, Eps
<1>2. /\ devState' = usb_start_transfer(devState, "ep1_out", 0)
      /\ ~armed /\ armed' = TRUE /\ UNCHANGED <<irq, host>>
  BY DEF UsbMain
<1>3. /\ devState' \in Devices
      /\ devState'.dev_addr = devState.dev_addr
      /\ devState'.should_set_address = devState.should_set_address
      /\ devState'.dev_addr_ctrl = devState.dev_addr_ctrl
      /\ devState'.buffer["ep1_out"].avail
      /\ devState'.buffer["ep1_out"].pid = devState.next_pid["ep1_out"]
      /\ devState'.next_pid["ep1_out"] = 1 - devState.next_pid["ep1_out"]
      /\ SameRest(devState, devState', {"ep1_out"})
  BY <1>1, <1>2, TransferKeeps
<1>4. /\ devState'.buffer["ep0_in"] = devState.buffer["ep0_in"]
      /\ devState'.buffer["ep0_out"] = devState.buffer["ep0_out"]
      /\ devState'.buffer["ep2_in"] = devState.buffer["ep2_in"]
      /\ devState'.next_pid["ep2_in"] = devState.next_pid["ep2_in"]
  BY <1>3, SMT DEF SameRest, Eps
<1>5. UsbTyped' BY <1>0, <1>2, <1>3, Zenon DEF UsbTyped
<1>6. Lengthy' /\ WhenReset' BY <1>0, <1>2, <1>4, Zenon DEF Lengthy, WhenReset
<1>7. Addressed' BY <1>0, <1>2, <1>3, <1>4, Zenon DEF Addressed
<1>8. Echoes'
  <2>1. Fresh BY <1>0, <1>2 DEF Echoes
  <2>2. Len(<<>>) = 0 OBVIOUS
  <2>3. Waits' BY <1>2, <1>3, <1>4, <2>1, <2>2, Zenon DEF Fresh, Waits
  <2> QED BY <1>0, <1>2, <2>3, Zenon DEF Echoes
<1> QED BY <1>5, <1>6, <1>7, <1>8 DEF UsbInv

\* The fields of the host and of the interrupt, typed.
LEMMA HostFields ==
    ASSUME UsbTyped
    PROVE  /\ host.addr \in {0, 1} /\ host.config \in BOOLEAN
           /\ host.phase \in {"idle", "data", "status", "ack"}
           /\ host.req \in UsbRequests \cup {"none"} /\ host.wLength \in Nat
           /\ host.out \in Int /\ host.in \in Int /\ host.sent \in Nat
           /\ host.got \in Seq(Int) /\ host.resets \in Int /\ host.late \in BOOLEAN
           /\ irq.setup \in UsbRequests \cup {"none"} /\ irq.done \in SUBSET Eps /\ irq.reset \in BOOLEAN
  BY SMT DEF UsbTyped, Hosts, Irqs, UsbPhases, UsbAsks, Packets

LEMMA HostUpdated ==
    \A h \in Hosts :
       /\ \A x \in {0, 1} : [h EXCEPT !.addr = x] \in Hosts
       /\ \A x \in BOOLEAN : [h EXCEPT !.config = x] \in Hosts /\ [h EXCEPT !.late = x] \in Hosts
       /\ \A x \in UsbPhases : [h EXCEPT !.phase = x] \in Hosts
       /\ \A x \in UsbAsks : [h EXCEPT !.req = x] \in Hosts
       /\ \A x \in Nat : [h EXCEPT !.wLength = x] \in Hosts /\ [h EXCEPT !.sent = x] \in Hosts
       /\ \A x \in Int : /\ [h EXCEPT !.out = x] \in Hosts /\ [h EXCEPT !.in = x] \in Hosts
                         /\ [h EXCEPT !.resets = x] \in Hosts
       /\ \A x \in Packets : [h EXCEPT !.got = x] \in Hosts
<1> TAKE h \in Hosts
<1>1. \A x \in {0, 1} : [h EXCEPT !.addr = x] \in Hosts BY SMT DEF Hosts
<1>2. \A x \in BOOLEAN : [h EXCEPT !.config = x] \in Hosts BY SMT DEF Hosts
<1>3. \A x \in BOOLEAN : [h EXCEPT !.late = x] \in Hosts BY SMT DEF Hosts
<1>4. \A x \in UsbPhases : [h EXCEPT !.phase = x] \in Hosts BY SMT DEF Hosts
<1>5. \A x \in UsbAsks : [h EXCEPT !.req = x] \in Hosts BY SMT DEF Hosts
<1>6. \A x \in Nat : [h EXCEPT !.wLength = x] \in Hosts BY SMT DEF Hosts
<1>7. \A x \in Nat : [h EXCEPT !.sent = x] \in Hosts BY SMT DEF Hosts
<1>8. \A x \in Int : [h EXCEPT !.out = x] \in Hosts BY SMT DEF Hosts
<1>9. \A x \in Int : [h EXCEPT !.in = x] \in Hosts BY SMT DEF Hosts
<1>a. \A x \in Int : [h EXCEPT !.resets = x] \in Hosts BY SMT DEF Hosts
<1>b. \A x \in Packets : [h EXCEPT !.got = x] \in Hosts BY SMT DEF Hosts
<1> QED BY <1>1, <1>2, <1>3, <1>4, <1>5, <1>6, <1>7, <1>8, <1>9, <1>a, <1>b

LEMMA ResetKeeps == ASSUME UsbInv, BusReset PROVE UsbInv'
<1>0. UsbTyped /\ Lengthy /\ Addressed /\ WhenReset /\ Echoes BY DEF UsbInv
<1>1. UNCHANGED <<devState, armed>> BY DEF BusReset
<1>2. /\ irq'.setup = "none" /\ irq'.done = irq.done /\ irq'.reset = TRUE /\ irq' \in Irqs
  <2>1. irq' = [setup |-> "none", done |-> irq.done, reset |-> TRUE] BY DEF BusReset
  <2>2. "none" \in UsbAsks /\ irq.done \in SUBSET Eps /\ TRUE \in BOOLEAN BY <1>0, HostFields DEF UsbAsks
  <2>3. irq' \in Irqs BY <2>1, <2>2, Zenon DEF Irqs
  <2> QED BY <2>1, <2>3
<1>h. host \in Hosts BY <1>0 DEF UsbTyped
<1>r. host' = [host EXCEPT !.resets = @ + 1, !.addr = 0, !.config = FALSE, !.phase = "idle",
                           !.out = 0, !.in = 0, !.late = @ \/ armed \/ devState.configured]
  BY DEF BusReset
<1>3. /\ host'.addr = 0 /\ host'.phase = "idle" /\ host'.out = 0 /\ host'.in = 0
      /\ host'.sent = host.sent /\ host'.got = host.got /\ host'.wLength = host.wLength
  BY <1>h, <1>r, SMT DEF Hosts
<1>4. host'.late = (host.late \/ armed \/ devState.configured)
  BY <1>h, <1>r, SMT DEF Hosts
<1>t. host' \in Hosts
  <2> DEFINE h1 == [host EXCEPT !.resets = host.resets + 1]
             h2 == [h1 EXCEPT !.addr = 0]
             h3 == [h2 EXCEPT !.config = FALSE]
             h4 == [h3 EXCEPT !.phase = "idle"]
             h5 == [h4 EXCEPT !.out = 0]
             h6 == [h5 EXCEPT !.in = 0]
             h7 == [h6 EXCEPT !.late = (host.late \/ armed \/ devState.configured)]
  <2>1. host.resets + 1 \in Int /\ 0 \in Int /\ "idle" \in UsbPhases
        /\ (host.late \/ armed \/ devState.configured) \in BOOLEAN
    BY <1>0, HostFields DEF UsbPhases
  <2>2. h1 \in Hosts BY <1>h, <2>1, HostUpdated, Zenon
  <2>3. h2 \in Hosts BY <2>2, HostUpdated, Zenon
  <2>4. h3 \in Hosts BY <2>3, HostUpdated, Zenon
  <2>5. h4 \in Hosts BY <2>1, <2>4, HostUpdated, Zenon
  <2>6. h5 \in Hosts BY <2>1, <2>5, HostUpdated, Zenon
  <2>7. h6 \in Hosts BY <2>1, <2>6, HostUpdated, Zenon
  <2>8. h7 \in Hosts BY <2>1, <2>7, HostUpdated, Zenon
  <2>9. host' = h7 BY <1>h, <1>r, SMT DEF Hosts
  <2> QED BY <2>8, <2>9
<1>5. UsbTyped' BY <1>0, <1>1, <1>2, <1>t, Zenon DEF UsbTyped
<1>6. Lengthy' /\ WhenReset' BY <1>0, <1>1, <1>2, <1>3, Zenon DEF Lengthy, WhenReset
<1>7. Addressed' BY <1>2 DEF Addressed
<1>8. Echoes'
  <2>1. Fresh => Fresh' BY <1>1, <1>2, <1>3, Zenon DEF Fresh
  <2> QED BY <1>0, <1>1, <1>3, <1>4, <2>1, Zenon DEF Echoes
<1> QED BY <1>5, <1>6, <1>7, <1>8 DEF UsbInv

LEMMA SetupKeeps ==
    ASSUME UsbInv, UsbAssumption, NEW req \in UsbRequests, NEW w \in Lengths, SetupPacket(req, w)
    PROVE  UsbInv'
<1>0. UsbTyped /\ Lengthy /\ Addressed /\ WhenReset /\ Echoes BY DEF UsbInv
<1>1. w \in Nat BY DEF UsbAssumption
<1>2. /\ host.phase = "idle" /\ devState.dev_addr_ctrl = host.addr /\ ~irq.reset /\ irq.setup = "none"
      /\ req = "SET_ADDRESS" <=> host.addr = 0 /\ req \notin InRequests
      /\ armed' = armed
  BY DEF SetupPacket, Reaches
<1>h. host \in Hosts /\ irq \in Irqs BY <1>0 DEF UsbTyped
<1>r. host' = [host EXCEPT !.phase = IF req \in OutRequests THEN "status" ELSE "data",
                           !.req = req, !.wLength = w]
  BY DEF SetupPacket
<1>3. /\ host'.addr = host.addr /\ host'.req = req /\ host'.wLength = w
      /\ host'.phase = IF req \in OutRequests THEN "status" ELSE "data"
      /\ host'.out = host.out /\ host'.in = host.in /\ host'.sent = host.sent /\ host'.got = host.got
  BY <1>h, <1>r, SMT DEF Hosts
<1>4. host'.late = host.late BY <1>h, <1>r, SMT DEF Hosts
<1>t. host' \in Hosts
  <2> DEFINE ph == IF req \in OutRequests THEN "status" ELSE "data"
             h1 == [host EXCEPT !.phase = ph]
             h2 == [h1 EXCEPT !.req = req]
             h3 == [h2 EXCEPT !.wLength = w]
  <2>1. ph \in UsbPhases /\ req \in UsbAsks BY DEF UsbPhases, UsbAsks
  <2>2. host' = h3 BY <1>h, <1>r, SMT DEF Hosts
  <2> HIDE DEF ph
  <2>3. h1 \in Hosts BY <1>h, <2>1, HostUpdated, Zenon
  <2>4. h2 \in Hosts BY <2>1, <2>3, HostUpdated, Zenon
  <2>5. h3 \in Hosts BY <1>1, <2>4, HostUpdated, Zenon
  <2> QED BY <2>2, <2>5
<1>5. irq' \in Irqs /\ irq'.setup = req /\ irq'.done = irq.done /\ irq'.reset = irq.reset
  <2>1. req \in UsbAsks /\ irq' = [irq EXCEPT !.setup = req] BY DEF SetupPacket, UsbAsks
  <2>2. irq' \in Irqs BY <1>h, <2>1, SMT DEF Irqs
  <2> QED BY <1>h, <2>1, <2>2, SMT DEF Irqs
<1>6. /\ SameDevice(devState, devState') /\ devState'.next_pid = devState.next_pid
      /\ devState'.buffer["ep1_out"] = devState.buffer["ep1_out"]
      /\ devState'.buffer["ep2_in"] = devState.buffer["ep2_in"]
      /\ devState'.buffer["ep0_in"].avail = FALSE /\ devState'.buffer["ep0_out"].avail = FALSE
  <2> DEFINE d == TakenFrom(devState, "ep0_in")
             e == TakenFrom(d, "ep0_out")
  <2>1. devState \in Devices BY <1>0 DEF UsbTyped
  <2>2. {"ep0_in", "ep0_out", "ep1_out", "ep2_in"} \subseteq Eps BY DEF Eps
  <2>3. devState' = e BY <2>1, SMT DEF SetupPacket, Devices, TakenFrom
  <2>4. "ep0_in" \in Eps /\ "ep0_out" \in Eps BY <2>2
  <2>5. OneBuffer(devState, d, "ep0_in") /\ d.buffer["ep0_in"].avail = FALSE BY <2>1, <2>4, TakenIs
  <2> HIDE DEF d
  <2>6. d \in Devices BY <2>5 DEF OneBuffer, SameDevice
  <2>7. OneBuffer(d, e, "ep0_out") /\ e.buffer["ep0_out"].avail = FALSE BY <2>4, <2>6, TakenIs
  <2> HIDE DEF e
  <2> QED BY <2>2, <2>3, <2>5, <2>7, SMT DEF OneBuffer, SameDevice
<1>7. devState' \in Devices BY <1>6 DEF SameDevice
<1>8. UsbTyped' BY <1>0, <1>2, <1>t, <1>5, <1>7, Zenon DEF UsbTyped
<1>9. Lengthy' /\ WhenReset' BY <1>0, <1>2, <1>5, <1>6, Zenon DEF Lengthy, WhenReset
<1>a. Addressed'
  <2>1. host.addr \in {0, 1} BY <1>0, HostFields
  <2>2. ~devState.should_set_address BY <1>0, <1>2, <2>1, SMT DEF Addressed
  <2>3. host.addr = 0 => "ep0_in" \notin irq.done BY <1>0, <1>2, SMT DEF Addressed
  <2>4. req \in OutRequests <=> req \notin InRequests BY SMT DEF UsbRequests, OutRequests, InRequests
  <2>5. req # "none" BY SMT DEF UsbRequests, OutRequests, InRequests
  <2>6. devState'.should_set_address = devState.should_set_address
        /\ devState'.dev_addr_ctrl = devState.dev_addr_ctrl
    BY <1>6 DEF SameDevice
  <2>7. req = "SET_ADDRESS" => req \in OutRequests BY DEF OutRequests
  <2> QED BY <1>2, <1>3, <1>5, <1>6, <2>2, <2>3, <2>4, <2>5, <2>6, <2>7, SMT DEF Addressed
<1>b. Echoes'
  <2>1. (Waits => Waits') /\ (Has => Has') BY <1>3, <1>5, <1>6, Zenon DEF Waits, Has
  <2>2. (Offers => Offers') /\ (Passed => Passed') /\ (Fresh => Fresh')
    BY <1>3, <1>5, <1>6, Zenon DEF Offers, Passed, Fresh
  <2> QED BY <1>0, <1>2, <1>3, <1>4, <2>1, <2>2, Zenon DEF Echoes
<1> QED BY <1>8, <1>9, <1>a, <1>b DEF UsbInv

\* Only endpoint 0 is touched: the packets are where they were.
EchoKept ==
    /\ devState'.next_pid = devState.next_pid
    /\ devState'.buffer["ep1_out"] = devState.buffer["ep1_out"]
    /\ devState'.buffer["ep2_in"] = devState.buffer["ep2_in"]
    /\ host'.out = host.out /\ host'.in = host.in /\ host'.sent = host.sent /\ host'.got = host.got
    /\ "ep1_out" \in irq'.done <=> "ep1_out" \in irq.done
    /\ "ep2_in" \in irq'.done <=> "ep2_in" \in irq.done
    /\ host'.late = host.late /\ armed' = armed

LEMMA EchoStays == ASSUME Echoes, EchoKept PROVE Echoes'
<1>1. (Waits => Waits') /\ (Has => Has') BY Zenon DEF EchoKept, Waits, Has
<1>2. (Offers => Offers') /\ (Passed => Passed') /\ (Fresh => Fresh')
  BY Zenon DEF EchoKept, Offers, Passed, Fresh
<1> QED BY <1>1, <1>2, Zenon DEF Echoes, EchoKept

LEMMA DoneIs ==
    ASSUME UsbTyped, NEW ep \in Eps, irq' = Done(ep)
    PROVE  irq' \in Irqs /\ irq'.setup = irq.setup /\ irq'.done = irq.done \cup {ep} /\ irq'.reset = irq.reset
<1>1. irq \in Irqs /\ irq' = [irq EXCEPT !.done = irq.done \cup {ep}] BY DEF UsbTyped, Done
<1>2. \A x \in SUBSET Eps : [irq EXCEPT !.done = x] \in Irqs BY <1>1, SMT DEF Irqs
<1>3. irq.done \in SUBSET Eps BY <1>1 DEF Irqs
<1>4. irq.done \cup {ep} \in SUBSET Eps BY <1>3
<1>5. irq' \in Irqs BY <1>1, <1>2, <1>4
<1> QED BY <1>1, <1>5, SMT DEF Irqs

LEMMA ControlInKeeps == ASSUME UsbInv, ControlIn PROVE UsbInv'
<1>0. UsbTyped /\ Lengthy /\ Addressed /\ WhenReset /\ Echoes BY DEF UsbInv
<1>e. {"ep0_in", "ep0_out", "ep1_out", "ep2_in"} \subseteq Eps BY DEF Eps
<1>h. host \in Hosts /\ irq \in Irqs /\ devState \in Devices BY <1>0 DEF UsbTyped
<1>1. /\ host.phase \in {"data", "status"} /\ devState.dev_addr_ctrl = host.addr /\ ~irq.reset
      /\ irq.setup = "none" /\ armed' = armed
  BY DEF ControlIn, Reaches
<1>2. /\ OneBuffer(devState, devState', "ep0_in") /\ devState'.buffer["ep0_in"].avail = FALSE
  <2>1. devState' = TakenFrom(devState, "ep0_in") BY DEF ControlIn, Taken, TakenFrom
  <2> QED BY <1>e, <1>h, <2>1, TakenIs
<1>3. /\ SameDevice(devState, devState') /\ devState'.next_pid = devState.next_pid
      /\ devState'.buffer["ep0_out"] = devState.buffer["ep0_out"]
      /\ devState'.buffer["ep1_out"] = devState.buffer["ep1_out"]
      /\ devState'.buffer["ep2_in"] = devState.buffer["ep2_in"]
  BY <1>2, <1>e, SMT DEF OneBuffer
<1>4. irq' \in Irqs /\ irq'.setup = irq.setup /\ irq'.done = irq.done \cup {"ep0_in"} /\ irq'.reset = irq.reset
  <2>1. irq' = Done("ep0_in") BY DEF ControlIn
  <2> QED BY <1>0, <1>e, <2>1, DoneIs
<1>r. host' = [host EXCEPT !.phase = IF @ = "data" THEN "ack" ELSE "idle",
                           !.addr = IF host.req = "SET_ADDRESS" THEN 1 ELSE @,
                           !.config = @ \/ host.req = "SET_CONFIGURATION"]
  BY DEF ControlIn
<1>5. /\ host'.phase = IF host.phase = "data" THEN "ack" ELSE "idle"
      /\ host'.addr = IF host.req = "SET_ADDRESS" THEN 1 ELSE host.addr
      /\ host'.req = host.req /\ host'.wLength = host.wLength
      /\ host'.out = host.out /\ host'.in = host.in /\ host'.sent = host.sent /\ host'.got = host.got
  BY <1>h, <1>r, SMT DEF Hosts
<1>6. host'.late = host.late BY <1>h, <1>r, SMT DEF Hosts
<1>7. host' \in Hosts
  <2> DEFINE ph == IF host.phase = "data" THEN "ack" ELSE "idle"
             a == IF host.req = "SET_ADDRESS" THEN 1 ELSE host.addr
             c == (host.config \/ host.req = "SET_CONFIGURATION")
             h1 == [host EXCEPT !.phase = ph]
             h2 == [h1 EXCEPT !.addr = a]
             h3 == [h2 EXCEPT !.config = c]
  <2>1. ph \in UsbPhases /\ a \in {0, 1} /\ c \in BOOLEAN BY <1>0, HostFields DEF UsbPhases
  <2>2. host' = h3 BY <1>h, <1>r, SMT DEF Hosts
  <2> HIDE DEF ph, a, c
  <2>3. h1 \in Hosts BY <1>h, <2>1, HostUpdated, Zenon
  <2>4. h2 \in Hosts BY <2>1, <2>3, HostUpdated, Zenon
  <2>5. h3 \in Hosts BY <2>1, <2>4, HostUpdated, Zenon
  <2> QED BY <2>2, <2>5
<1>8. UsbTyped' BY <1>0, <1>1, <1>3, <1>4, <1>7, Zenon DEF UsbTyped, SameDevice
<1>9. Lengthy' /\ WhenReset' BY <1>1, <1>2, <1>4, Zenon DEF Lengthy, WhenReset
<1>a. Addressed'
  <2>1. host.addr \in {0, 1} BY <1>0, HostFields
  <2>2. /\ devState'.should_set_address = devState.should_set_address
        /\ devState'.dev_addr_ctrl = devState.dev_addr_ctrl /\ devState'.dev_addr = devState.dev_addr
    BY <1>3 DEF SameDevice
  <2>3. CASE host.phase = "status" /\ host.req = "SET_ADDRESS"
    <3>1. /\ devState.should_set_address /\ devState.dev_addr = 1 /\ devState.dev_addr_ctrl = 0
      BY <1>0, <1>1, <2>3, Zenon DEF Addressed
    <3>2. host'.phase = "idle" /\ host'.addr = 1 BY <1>5, <2>3, SMT
    <3>3. "ep0_in" \in irq'.done /\ irq'.setup = "none" BY <1>1, <1>4
    <3> QED BY <2>2, <3>1, <3>2, <3>3, SMT DEF Addressed
  <2>4. CASE ~(host.phase = "status" /\ host.req = "SET_ADDRESS")
    <3>1. ~devState.should_set_address BY <1>0, <1>1, <2>4, SMT DEF Addressed
    <3>2. host.req # "SET_ADDRESS" BY <1>0, <1>1, <2>4, SMT DEF Addressed, InRequests
    <3>3. host'.addr = host.addr /\ devState'.dev_addr_ctrl = host'.addr /\ irq'.setup = "none"
      BY <1>1, <1>4, <1>5, <2>2, <3>2
    <3>4. CASE host.phase = "data"
      <4>1. host.addr = 0 => ~devState'.buffer["ep0_out"].avail
        BY <1>0, <1>1, <1>3, <3>4, Zenon DEF Addressed
      <4>2. host'.phase = "ack" BY <1>5, <3>4
      <4> QED BY <2>2, <3>1, <3>3, <4>1, <4>2, SMT DEF Addressed
    <3>5. CASE host.phase = "status"
      <4>1. host.addr # 0 BY <1>0, <1>1, <3>2, <3>5, SMT DEF Addressed
      <4>2. host'.phase = "idle" BY <1>5, <3>5, SMT
      <4> QED BY <2>2, <3>1, <3>3, <4>1, <4>2, SMT DEF Addressed
    <3> QED BY <1>1, <3>4, <3>5
  <2> QED BY <2>3, <2>4
<1>b. EchoKept
  <2>1. "ep0_in" # "ep1_out" /\ "ep0_in" # "ep2_in" OBVIOUS
  <2> QED BY <1>1, <1>3, <1>4, <1>5, <1>6, <2>1, Zenon DEF EchoKept
<1> QED BY <1>0, <1>8, <1>9, <1>a, <1>b, EchoStays DEF UsbInv

LEMMA ControlOutKeeps == ASSUME UsbInv, ControlOut PROVE UsbInv'
<1>0. UsbTyped /\ Lengthy /\ Addressed /\ WhenReset /\ Echoes BY DEF UsbInv
<1>e. {"ep0_in", "ep0_out", "ep1_out", "ep2_in"} \subseteq Eps BY DEF Eps
<1>h. host \in Hosts /\ irq \in Irqs /\ devState \in Devices BY <1>0 DEF UsbTyped
<1>1. /\ host.phase = "ack" /\ devState.dev_addr_ctrl = host.addr /\ ~irq.reset
      /\ devState.buffer["ep0_out"].avail /\ armed' = armed
  BY DEF ControlOut, Reaches
<1>2. /\ OneBuffer(devState, devState', "ep0_out") /\ devState'.buffer["ep0_out"].avail = FALSE
  <2>1. devState' = TakenFrom(devState, "ep0_out") BY DEF ControlOut, Taken, TakenFrom
  <2> QED BY <1>e, <1>h, <2>1, TakenIs
<1>3. /\ SameDevice(devState, devState') /\ devState'.next_pid = devState.next_pid
      /\ devState'.buffer["ep0_in"] = devState.buffer["ep0_in"]
      /\ devState'.buffer["ep1_out"] = devState.buffer["ep1_out"]
      /\ devState'.buffer["ep2_in"] = devState.buffer["ep2_in"]
  BY <1>2, <1>e, SMT DEF OneBuffer
<1>4. irq' \in Irqs /\ irq'.setup = irq.setup /\ irq'.done = irq.done \cup {"ep0_out"} /\ irq'.reset = irq.reset
  <2>1. irq' = Done("ep0_out") BY DEF ControlOut
  <2> QED BY <1>0, <1>e, <2>1, DoneIs
<1>r. host' = [host EXCEPT !.phase = "idle"] BY DEF ControlOut
<1>5. /\ host'.phase = "idle" /\ host'.addr = host.addr /\ host'.req = host.req
      /\ host'.wLength = host.wLength
      /\ host'.out = host.out /\ host'.in = host.in /\ host'.sent = host.sent /\ host'.got = host.got
  BY <1>h, <1>r, SMT DEF Hosts
<1>6. host'.late = host.late BY <1>h, <1>r, SMT DEF Hosts
<1>7. host' \in Hosts
  <2>1. "idle" \in UsbPhases BY DEF UsbPhases
  <2> QED BY <1>h, <1>r, <2>1, HostUpdated, Zenon
<1>8. UsbTyped' BY <1>0, <1>1, <1>3, <1>4, <1>7, Zenon DEF UsbTyped, SameDevice
<1>9. Lengthy' /\ WhenReset' BY <1>0, <1>1, <1>3, <1>4, <1>5, Zenon DEF Lengthy, WhenReset
<1>a. Addressed'
  <2>1. host.addr \in {0, 1} BY <1>0, HostFields
  <2>2. /\ devState'.should_set_address = devState.should_set_address
        /\ devState'.dev_addr_ctrl = devState.dev_addr_ctrl
    BY <1>3 DEF SameDevice
  <2>3. ~devState.should_set_address /\ irq.setup = "none"
    BY <1>0, <1>1, SMT DEF Addressed
  <2>4. host.addr = 0 => "ep0_in" \notin irq'.done BY <1>0, <1>1, <1>4, SMT DEF Addressed
  <2> QED BY <1>1, <1>4, <1>5, <2>2, <2>3, <2>4, SMT DEF Addressed
<1>b. EchoKept
  <2>1. "ep0_out" # "ep1_out" /\ "ep0_out" # "ep2_in" OBVIOUS
  <2> QED BY <1>1, <1>3, <1>4, <1>5, <1>6, <2>1, Zenon DEF EchoKept
<1> QED BY <1>0, <1>8, <1>9, <1>a, <1>b, EchoStays DEF UsbInv

LEMMA GiveUpKeeps == ASSUME UsbInv, GiveUp PROVE UsbInv'
<1>0. UsbTyped /\ Lengthy /\ Addressed /\ WhenReset /\ Echoes BY DEF UsbInv
<1>h. host \in Hosts BY <1>0 DEF UsbTyped
<1>1. host.phase = "data" /\ irq.setup = "none" /\ UNCHANGED <<devState, irq, armed>> BY DEF GiveUp
<1>r. host' = [host EXCEPT !.phase = "idle"] BY DEF GiveUp
<1>5. /\ host'.phase = "idle" /\ host'.addr = host.addr /\ host'.req = host.req
      /\ host'.wLength = host.wLength
      /\ host'.out = host.out /\ host'.in = host.in /\ host'.sent = host.sent /\ host'.got = host.got
  BY <1>h, <1>r, SMT DEF Hosts
<1>6. host'.late = host.late BY <1>h, <1>r, SMT DEF Hosts
<1>7. host' \in Hosts
  <2>1. "idle" \in UsbPhases BY DEF UsbPhases
  <2> QED BY <1>h, <1>r, <2>1, HostUpdated, Zenon
<1>8. UsbTyped' BY <1>0, <1>1, <1>7, Zenon DEF UsbTyped
<1>9. Lengthy' /\ WhenReset' BY <1>0, <1>1, <1>5, Zenon DEF Lengthy, WhenReset
<1>a. Addressed'
  <2>1. CASE irq.reset BY <1>1, <2>1, Zenon DEF Addressed
  <2>2. CASE ~irq.reset
    <3>1. ~devState.should_set_address BY <1>0, <1>1, <2>2, SMT DEF Addressed
    <3>2. host.addr = 0 => "ep0_in" \notin irq.done BY <1>0, <1>1, <2>2, SMT DEF Addressed
    <3>3. devState.dev_addr_ctrl = host.addr BY <1>0, <2>2, <3>1, Zenon DEF Addressed
    <3> QED BY <1>1, <1>5, <3>1, <3>2, <3>3, SMT DEF Addressed
  <2> QED BY <2>1, <2>2
<1>b. EchoKept BY <1>1, <1>5, <1>6, Zenon DEF EchoKept
<1> QED BY <1>0, <1>8, <1>9, <1>a, <1>b, EchoStays DEF UsbInv

\* A step on the packets' endpoints leaves requests and addresses alone.
ControlKept ==
    /\ devState'.should_set_address = devState.should_set_address
    /\ devState'.dev_addr_ctrl = devState.dev_addr_ctrl /\ devState'.dev_addr = devState.dev_addr
    /\ devState'.buffer["ep0_in"] = devState.buffer["ep0_in"]
    /\ devState'.buffer["ep0_out"] = devState.buffer["ep0_out"]
    /\ host'.addr = host.addr /\ host'.phase = host.phase /\ host'.req = host.req
    /\ host'.wLength = host.wLength
    /\ irq'.setup = irq.setup /\ irq'.reset = irq.reset
    /\ "ep0_in" \in irq'.done <=> "ep0_in" \in irq.done

LEMMA ControlStays ==
    ASSUME Lengthy, Addressed, WhenReset, ControlKept
    PROVE  Lengthy' /\ Addressed' /\ WhenReset'
<1>1. Lengthy' /\ WhenReset' BY Zenon DEF ControlKept, Lengthy, WhenReset
<1>2. Addressed' BY Zenon DEF ControlKept, Addressed
<1> QED BY <1>1, <1>2

LEMMA BulkOutKeeps == ASSUME UsbInv, BulkOut PROVE UsbInv'
<1>0. UsbTyped /\ Lengthy /\ Addressed /\ WhenReset /\ Echoes BY DEF UsbInv
<1>e. {"ep0_in", "ep0_out", "ep1_out", "ep2_in"} \subseteq Eps BY DEF Eps
<1>h. host \in Hosts /\ irq \in Irqs /\ devState \in Devices BY <1>0 DEF UsbTyped
<1>f. host.sent \in Nat /\ host.out \in Int /\ host.sent + 1 \in Nat /\ 1 - host.out \in Int
  BY <1>0, HostFields
<1>1. devState.buffer["ep1_out"].avail /\ armed' = armed BY DEF BulkOut
<1>r. host' = [host EXCEPT !.sent = host.sent + 1, !.out = 1 - host.out] BY DEF BulkOut
<1>2. /\ host'.sent = host.sent + 1 /\ host'.out = 1 - host.out
      /\ host'.addr = host.addr /\ host'.phase = host.phase /\ host'.req = host.req
      /\ host'.wLength = host.wLength /\ host'.in = host.in /\ host'.got = host.got
  BY <1>h, <1>r, SMT DEF Hosts
<1>3. host'.late = host.late BY <1>h, <1>r, SMT DEF Hosts
<1>4. host' \in Hosts
  <2> DEFINE h1 == [host EXCEPT !.sent = host.sent + 1]
             h2 == [h1 EXCEPT !.out = 1 - host.out]
  <2>1. h1 \in Hosts BY <1>f, <1>h, HostUpdated, Zenon
  <2>2. h2 \in Hosts BY <1>f, <2>1, HostUpdated, Zenon
  <2>3. host' = h2 BY <1>h, <1>r, SMT DEF Hosts
  <2> QED BY <2>2, <2>3
<1>5. CASE devState.buffer["ep1_out"].pid = host.out
  <2> DEFINE b == [avail |-> FALSE, pid |-> host.out, data |-> host.sent + 1]
  <2>1. devState' = SetBuffer(devState, "ep1_out", b)
    BY <1>5, <1>h, SMT DEF BulkOut, SetBuffer, Devices
  <2>2. b \in Buffer BY <1>f, SMT DEF Buffer
  <2>3. b.avail = FALSE /\ b.data = host.sent + 1 OBVIOUS
  <2> HIDE DEF b
  <2>4. OneBuffer(devState, devState', "ep1_out") /\ devState'.buffer["ep1_out"] = b
    BY <1>e, <1>h, <2>1, <2>2, BufferSet
  <2>5. /\ SameDevice(devState, devState') /\ devState'.next_pid = devState.next_pid
        /\ devState'.buffer["ep0_in"] = devState.buffer["ep0_in"]
        /\ devState'.buffer["ep0_out"] = devState.buffer["ep0_out"]
        /\ devState'.buffer["ep2_in"] = devState.buffer["ep2_in"]
    BY <2>4, <1>e, SMT DEF OneBuffer
  <2>6. irq' \in Irqs /\ irq'.setup = irq.setup /\ irq'.done = irq.done \cup {"ep1_out"} /\ irq'.reset = irq.reset
    <3>1. irq' = Done("ep1_out") BY <1>5 DEF BulkOut
    <3> QED BY <1>0, <1>e, <3>1, DoneIs
  <2>7. UsbTyped' BY <1>0, <1>1, <1>4, <2>5, <2>6, Zenon DEF UsbTyped, SameDevice
  <2>8. ControlKept
    <3>1. "ep0_in" # "ep1_out" OBVIOUS
    <3> QED BY <1>2, <2>5, <2>6, <3>1, Zenon DEF ControlKept, SameDevice
  <2>9. Echoes'
    <3>1. armed /\ armed' BY <1>0, <1>1 DEF Echoes, Fresh
    <3>2. CASE ~host.late
      <4>1. Waits BY <1>0, <1>1, <3>1, <3>2, Zenon DEF Echoes, Has, Offers, Passed
      <4>2. devState'.next_pid["ep1_out"] = host'.out BY <1>2, <2>5, <4>1 DEF Waits
      <4>3. host'.sent = Len(host'.got) + 1 BY <1>2, <4>1 DEF Waits
      <4>4. "ep1_out" \in irq'.done /\ ("ep2_in" \in irq'.done <=> "ep2_in" \in irq.done)
        BY <2>6
      <4>5. Has' BY <1>2, <2>3, <2>4, <2>5, <4>1, <4>2, <4>3, <4>4, Zenon DEF Has, Waits
      <4> QED BY <1>0, <1>2, <1>3, <3>1, <3>2, <4>5, Zenon DEF Echoes
    <3>3. CASE host.late BY <1>3, <3>1, <3>3, Zenon DEF Echoes
    <3> QED BY <3>2, <3>3
  <2> QED BY <1>0, <2>7, <2>8, <2>9, ControlStays DEF UsbInv
<1>6. CASE devState.buffer["ep1_out"].pid # host.out
  <2>1. UNCHANGED <<devState, irq>> BY <1>6 DEF BulkOut
  <2>2. UsbTyped' BY <1>0, <1>1, <1>4, <2>1, Zenon DEF UsbTyped
  <2>3. ControlKept BY <1>2, <2>1, Zenon DEF ControlKept
  <2>4. Echoes'
    <3>1. armed /\ armed' BY <1>0, <1>1 DEF Echoes, Fresh
    <3>2. host.late
      BY <1>0, <1>1, <1>6, <3>1, Zenon DEF Echoes, Waits, Has, Offers, Passed
    <3> QED BY <1>3, <3>1, <3>2, Zenon DEF Echoes
  <2> QED BY <1>0, <2>2, <2>3, <2>4, ControlStays DEF UsbInv
<1> QED BY <1>5, <1>6

LEMMA BulkInKeeps == ASSUME UsbInv, BulkIn PROVE UsbInv'
<1>0. UsbTyped /\ Lengthy /\ Addressed /\ WhenReset /\ Echoes BY DEF UsbInv
<1>e. {"ep0_in", "ep0_out", "ep1_out", "ep2_in"} \subseteq Eps BY DEF Eps
<1>h. host \in Hosts /\ irq \in Irqs /\ devState \in Devices BY <1>0 DEF UsbTyped
<1> DEFINE b == devState.buffer["ep2_in"]
           g == Append(host.got, b.data)
<1>1. b.avail /\ armed' = armed BY DEF BulkIn
<1>2. b \in Buffer /\ b.data \in Int
  <2>1. b \in Buffer BY <1>e, <1>h DEF Devices
  <2> QED BY <2>1, SMT DEF Buffer
<1>f. host.got \in Seq(Int) /\ host.in \in Int /\ 1 - host.in \in Int /\ host.sent \in Nat BY <1>0, HostFields
<1>3. g \in Packets /\ Len(g) = Len(host.got) + 1 /\ Len(host.got) \in Nat
      /\ (\A x \in 1 .. Len(host.got) : g[x] = host.got[x]) /\ g[Len(host.got) + 1] = b.data
  BY <1>2, <1>f, SMT DEF Packets
<1>4. host' = IF b.pid = host.in THEN [host EXCEPT !.got = g, !.in = 1 - host.in] ELSE host
  BY DEF BulkIn
<1>5. /\ OneBuffer(devState, devState', "ep2_in") /\ devState'.buffer["ep2_in"].avail = FALSE
  <2>1. devState' = TakenFrom(devState, "ep2_in") BY DEF BulkIn, Taken, TakenFrom
  <2> QED BY <1>e, <1>h, <2>1, TakenIs
<1>6. /\ SameDevice(devState, devState') /\ devState'.next_pid = devState.next_pid
      /\ devState'.buffer["ep0_in"] = devState.buffer["ep0_in"]
      /\ devState'.buffer["ep0_out"] = devState.buffer["ep0_out"]
      /\ devState'.buffer["ep1_out"] = devState.buffer["ep1_out"]
  BY <1>5, <1>e, SMT DEF OneBuffer
<1>7. irq' \in Irqs /\ irq'.setup = irq.setup /\ irq'.done = irq.done \cup {"ep2_in"} /\ irq'.reset = irq.reset
  <2>1. irq' = Done("ep2_in") BY DEF BulkIn
  <2> QED BY <1>0, <1>e, <2>1, DoneIs
<1> HIDE DEF b, g
<1>8. CASE b.pid = host.in
  <2>r. host' = [host EXCEPT !.got = g, !.in = 1 - host.in] BY <1>4, <1>8
  <2>2. /\ host'.got = g /\ host'.in = 1 - host.in
        /\ host'.addr = host.addr /\ host'.phase = host.phase /\ host'.req = host.req
        /\ host'.wLength = host.wLength /\ host'.out = host.out /\ host'.sent = host.sent
    BY <1>h, <2>r, SMT DEF Hosts
  <2>3. host'.late = host.late BY <1>h, <2>r, SMT DEF Hosts
  <2>4. host' \in Hosts
    <3> DEFINE h1 == [host EXCEPT !.got = g]
               h2 == [h1 EXCEPT !.in = 1 - host.in]
    <3>1. h1 \in Hosts BY <1>3, <1>h, HostUpdated, Zenon
    <3>2. h2 \in Hosts BY <1>f, <3>1, HostUpdated, Zenon
    <3>3. host' = h2 BY <1>h, <2>r, SMT DEF Hosts
    <3> QED BY <3>2, <3>3
  <2>5. UsbTyped' BY <1>0, <1>1, <1>6, <1>7, <2>4, Zenon DEF UsbTyped, SameDevice
  <2>6. ControlKept
    <3>1. "ep0_in" # "ep2_in" OBVIOUS
    <3> QED BY <1>6, <1>7, <2>2, <3>1, Zenon DEF ControlKept, SameDevice
  <2>7. Echoes'
    <3>1. armed /\ armed' BY <1>0, <1>1 DEF Echoes, Fresh, b
    <3>2. CASE ~host.late
      <4>1. Offers BY <1>0, <1>1, <3>1, <3>2, Zenon DEF Echoes, Waits, Has, Passed, b
      <4>2. b.data = host.sent BY <4>1 DEF Offers, b
      <4>3. host'.sent = Len(host'.got) BY <1>3, <2>2, <4>1 DEF Offers
      <4>4. "ep2_in" \in irq'.done /\ ("ep1_out" \in irq'.done <=> "ep1_out" \in irq.done)
        BY <1>7
      <4>5. Passed' BY <1>5, <1>6, <2>2, <4>1, <4>3, <4>4, Zenon DEF Passed, Offers
      <4>6. \A x \in 1 .. Len(host'.got) : host'.got[x] = x
        <5>1. \A x \in 1 .. Len(host.got) : host.got[x] = x BY <1>0, <3>2 DEF Echoes
        <5>2. g[Len(host.got) + 1] = Len(host.got) + 1 BY <1>3, <4>1, <4>2 DEF Offers
        <5>3. ASSUME NEW x \in 1 .. Len(host.got) + 1 PROVE g[x] = x
          <6>1. x = Len(host.got) + 1 \/ x \in 1 .. Len(host.got) BY <1>3
          <6> QED BY <1>3, <5>1, <5>2, <6>1, Zenon
        <5> QED BY <1>3, <2>2, <5>3
      <4> QED BY <3>1, <4>5, <4>6, Zenon DEF Echoes
    <3>3. CASE host.late BY <2>3, <3>1, <3>3, Zenon DEF Echoes
    <3> QED BY <3>2, <3>3
  <2> QED BY <1>0, <2>5, <2>6, <2>7, ControlStays DEF UsbInv
<1>9. CASE b.pid # host.in
  <2>1. host' = host BY <1>4, <1>9
  <2>2. UsbTyped' BY <1>0, <1>1, <1>6, <1>7, <2>1, Zenon DEF UsbTyped, SameDevice
  <2>3. ControlKept
    <3>1. "ep0_in" # "ep2_in" OBVIOUS
    <3> QED BY <1>6, <1>7, <2>1, <3>1, Zenon DEF ControlKept, SameDevice
  <2>4. Echoes'
    <3>1. armed /\ armed' BY <1>0, <1>1 DEF Echoes, Fresh, b
    <3>2. host.late
      BY <1>0, <1>1, <1>9, <3>1, Zenon DEF Echoes, Waits, Has, Offers, Passed, b
    <3> QED BY <2>1, <3>1, <3>2, Zenon DEF Echoes
  <2> QED BY <1>0, <2>2, <2>3, <2>4, ControlStays DEF UsbInv
<1> QED BY <1>8, <1>9

-----------------------------------------------------------------------------
LEMMA UsbStarts == UsbInit => UsbInv
<1> SUFFICES ASSUME UsbInit PROVE UsbInv OBVIOUS
<1>1. /\ devState = [dev_addr |-> 0, should_set_address |-> FALSE, configured |-> FALSE,
              dev_addr_ctrl |-> 0, next_pid |-> [e \in Eps |-> 0],
              buffer |-> [e \in Eps |-> Off]]
      /\ irq = [setup |-> "none", done |-> {}, reset |-> FALSE] /\ armed = FALSE
      /\ host = [addr |-> 0, config |-> FALSE, phase |-> "idle", req |-> "none", wLength |-> 0,
                 out |-> 0, in |-> 0, sent |-> 0, got |-> <<>>, resets |-> 0, late |-> FALSE]
  BY DEF UsbInit
<1>2. Off \in Buffer /\ Off.avail = FALSE
  <2>1. Off \in Buffer BY SMT DEF Off, Buffer
  <2> QED BY <2>1 DEF Off
<1>3. "none" \in UsbAsks /\ "idle" \in UsbPhases /\ <<>> \in Packets BY DEF UsbAsks, UsbPhases, Packets
<1>4. UsbTyped
  <2>1. [e \in Eps |-> 0] \in [Eps -> Int] /\ [e \in Eps |-> Off] \in [Eps -> Buffer] BY <1>2
  <2>2. devState \in Devices BY <1>1, <2>1, SMT DEF Devices
  <2>3. irq \in Irqs BY <1>1, <1>3, Zenon DEF Irqs
  <2>4. host \in Hosts BY <1>1, <1>3, SMT DEF Hosts
  <2> QED BY <1>1, <2>2, <2>3, <2>4, Zenon DEF UsbTyped
<1>5. \A e \in Eps : devState.buffer[e] = Off /\ devState.next_pid[e] = 0 BY <1>1
<1>e. {"ep0_in", "ep0_out", "ep1_out", "ep2_in"} \subseteq Eps BY DEF Eps
<1>6. /\ host.addr = 0 /\ host.phase = "idle" /\ host.req = "none" /\ host.out = 0 /\ host.in = 0
      /\ host.sent = 0 /\ host.got = <<>> /\ irq.setup = "none" /\ irq.done = {} /\ irq.reset = FALSE
      /\ devState.should_set_address = FALSE /\ devState.dev_addr_ctrl = 0
  BY <1>1
<1>7. Lengthy /\ WhenReset BY <1>2, <1>5, <1>6, <1>e DEF Lengthy, WhenReset
<1>8. Addressed BY <1>6, SMT DEF Addressed
<1>9. Echoes
  <2>1. Fresh BY <1>2, <1>5, <1>6, <1>e, SMT DEF Fresh
  <2>2. \A e \in 1 .. Len(host.got) : host.got[e] = e BY <1>6
  <2> QED BY <1>1, <2>1, <2>2 DEF Echoes
<1> QED BY <1>4, <1>7, <1>8, <1>9 DEF UsbInv

LEMMA UsbStays == ASSUME UsbAssumption PROVE UsbInv /\ [UsbNext]_usbVars => UsbInv'
<1> SUFFICES ASSUME UsbInv, [UsbNext]_usbVars PROVE UsbInv' OBVIOUS
<1>1. CASE isr_usbctrl BY <1>1, IsrKeeps
<1>2. CASE UsbMain BY <1>2, MainKeeps
<1>3. CASE BusReset BY <1>3, ResetKeeps
<1>4. CASE \E req \in OutRequests \cup InRequests, w \in Lengths : SetupPacket(req, w)
  BY <1>4, SetupKeeps DEF UsbRequests
<1>5. CASE ControlIn BY <1>5, ControlInKeeps
<1>6. CASE ControlOut BY <1>6, ControlOutKeeps
<1>7. CASE GiveUp BY <1>7, GiveUpKeeps
<1>8. CASE BulkOut BY <1>8, BulkOutKeeps
<1>9. CASE BulkIn BY <1>9, BulkInKeeps
<1>10. CASE UNCHANGED usbVars
  <2>1. devState' = devState /\ irq' = irq /\ armed' = armed /\ host' = host BY <1>10 DEF usbVars
  <2>2. UsbTyped' /\ Lengthy' /\ WhenReset' BY <2>1, Zenon DEF UsbInv, UsbTyped, Lengthy, WhenReset
  <2>3. Addressed' BY <2>1, Zenon DEF UsbInv, Addressed
  <2>4. (Waits' <=> Waits) /\ (Has' <=> Has) BY <2>1, Zenon DEF Waits, Has
  <2>5. (Offers' <=> Offers) /\ (Passed' <=> Passed) BY <2>1, Zenon DEF Offers, Passed
  <2>6. Fresh' <=> Fresh BY <2>1, Zenon DEF Fresh
  <2>7. Echoes' BY <2>1, <2>4, <2>5, <2>6, Zenon DEF UsbInv, Echoes
  <2> QED BY <2>2, <2>3, <2>7 DEF UsbInv
<1> QED BY <1>1, <1>2, <1>3, <1>4, <1>5, <1>6, <1>7, <1>8, <1>9, <1>10 DEF UsbNext

(* The echo is exact as long as the bus is not reset after the device was
   configured; the controller answers at the host's address whenever no interrupt
   waits; and no answer on endpoint 0 is longer than a packet or than was asked for. *)
THEOREM UsbStaysInStep == UsbSpec => []UsbInStep
<1>1. UsbInv => UsbInStep
  <2> SUFFICES ASSUME UsbInv PROVE UsbInStep OBVIOUS
  <2>0. UsbTyped /\ Lengthy /\ Addressed /\ WhenReset /\ Echoes BY DEF UsbInv
  <2>1. ~host.late => \A e \in 1 .. Len(host.got) : host.got[e] = e BY <2>0 DEF Echoes
  <2>2. ~host.late => host.sent - Len(host.got) \in {0, 1}
    <3>1. host.got \in Seq(Int) /\ host.sent \in Nat BY <2>0, HostFields
    <3>2. Len(host.got) \in Nat BY <3>1
    <3>3. Fresh => host.sent = Len(host.got) BY DEF Fresh
    <3>4. ~host.late => host.sent = Len(host.got) \/ host.sent = Len(host.got) + 1
      BY <2>0, <3>3, Zenon DEF Echoes, Waits, Has, Offers, Passed
    <3> QED BY <3>1, <3>2, <3>4
  <2>3. irq = [setup |-> "none", done |-> {}, reset |-> FALSE] => devState.dev_addr_ctrl = host.addr
    <3> SUFFICES ASSUME irq = [setup |-> "none", done |-> {}, reset |-> FALSE]
                 PROVE  devState.dev_addr_ctrl = host.addr
      OBVIOUS
    <3>1. irq.setup = "none" /\ irq.done = {} /\ irq.reset = FALSE OBVIOUS
    <3> QED BY <2>0, <3>1, Zenon DEF Addressed
  <2>4. LET b == devState.buffer["ep0_in"] IN b.avail => b.data <= Shorter(64, host.wLength)
    BY <2>0, Zenon DEF Lengthy
  <2> QED BY <2>1, <2>2, <2>3, <2>4, Zenon DEF UsbInStep
<1> QED BY <1>1, UsbAssumption, UsbStarts, UsbStays, PTL DEF UsbSpec

(* The two USB devices of UsbAnswers, in step with their hosts. *)
THEOREM UsbKeepsUp == UsbSpec /\ HidSpec => []UsbAnswers
<1>1. UsbInStep /\ KeyTypedOnce => UsbAnswers BY DEF UsbAnswers
<1> QED BY <1>1, UsbStaysInStep, PressesTypedOnce, PTL
=============================================================================
