------------------------------- MODULE DnsPacket -------------------------------
(***************************************************************************)
(* The DNS packet codec (dns_packet.cpp): a query is parsed byte by byte,  *)
(* labels and compression pointers followed for a limited number of hops,  *)
(* and the sinkhole answer is built from the first question.               *)
(***************************************************************************)
EXTENDS Integers, Sequences, FiniteSets, SequencesExt

CONSTANTS
  Datagrams,  \* the packets received, as sequences of bytes
  MaxHops     \* labels and pointers of a name that are followed: 64

ASSUME DatagramsAssumption == Datagrams \subseteq Seq(0 .. 255)
ASSUME MaxHopsAssumption == MaxHops \in Nat

VARIABLES
  datagram,   \* the packet received last, <<>> before one
  packet,     \* what parse made of it
  response    \* what build_sinkhole_response made of that

packetVars == <<datagram, packet, response>>

HeaderSize == 12
Dot == 46

\* The byte at an offset, and some byte beyond the end, where there is none.
At(data, offset) == IF offset < Len(data) THEN data[offset + 1] ELSE 0
Word16(data, offset) == 256 * At(data, offset) + At(data, offset + 1)
ToLower(byte) == IF byte \in 65 .. 90 THEN byte + 32 ELSE byte

\* The bytes of a label, behind the dot that separates it from the ones before.
WithLabel(qname, data, start, length) ==
  (IF qname = <<>> THEN qname ELSE Append(qname, Dot))
    \o [i \in 1 .. length |-> ToLower(At(data, start + i - 1))]

\* There is another round to read.
GoesOn(data, n) == n.state = "reading" /\ n.curr < Len(data) /\ n.hops < MaxHops

\* What a round makes of a name: it ends, goes on at a pointer's place, or goes
\* on behind a label.
End(n) ==
  [n EXCEPT !.state = "complete", !.reads = @ \cup {n.curr},
            !.offset = IF n.jumped THEN @ ELSE n.curr + 1]
Jump(n, place) ==
  [n EXCEPT !.curr = place, !.hops = @ + 1, !.jumped = TRUE, !.reads = @ \cup n.curr .. n.curr + 1,
            !.offset = IF n.jumped THEN @ ELSE n.curr + 2]
Take(n, qname, next) ==
  [n EXCEPT !.curr = next, !.hops = @ + 1, !.qname = qname, !.reads = @ \cup n.curr .. next - 1,
            !.offset = IF n.jumped THEN @ ELSE next]

\* Mutant: a pointer's second byte is read without looking whether it is there.
HopUnchecked(data, n) ==
  LET length == At(data, n.curr) IN
    IF ~GoesOn(data, n) THEN n
    ELSE CASE length = 0 -> End(n)
           [] length >= 192 -> Jump(n, 256 * (length - 192) + At(data, n.curr + 1))
           [] length \in 1 .. 191 /\ n.curr + length < Len(data) ->
                Take(n, WithLabel(n.qname, data, n.curr + 1, length), n.curr + 1 + length)
           [] OTHER -> [n EXCEPT !.state = "bad"]

\* One round of the loop that reads a name; a pointer or a label that is cut off
\* makes the packet bad.  A name that runs out of hops or of the packet just
\* stops.
Hop(data, n) ==
  LET length == At(data, n.curr) IN
    IF ~GoesOn(data, n) THEN n
    ELSE CASE length = 0 -> End(n)
           [] length >= 192 /\ n.curr + 1 < Len(data) ->
                Jump(n, 256 * (length - 192) + At(data, n.curr + 1))
           [] length \in 1 .. 191 /\ n.curr + length < Len(data) ->
                Take(n, WithLabel(n.qname, data, n.curr + 1, length), n.curr + 1 + length)
           [] OTHER -> [n EXCEPT !.state = "bad"]

\* The name at an offset: every round but the last one follows a hop.
NameAt(data, offset) ==
  FoldLeft(LAMBDA n, i : Hop(data, n),
           [state |-> "reading", curr |-> offset, offset |-> offset, hops |-> 0,
            jumped |-> FALSE, qname |-> <<>>, reads |-> {}],
           [i \in 1 .. MaxHops + 1 |-> i])

\* A question is added, or the packet is given up.
WithQuestion(data, p) ==
  LET n == NameAt(data, p.offset) IN
  IF ~p.ok \/ n.state = "bad" \/ n.offset + 4 > Len(data)
    THEN [p EXCEPT !.ok = FALSE, !.reads = @ \cup n.reads]
    ELSE [p EXCEPT
            !.offset = n.offset + 4,
            !.reads = @ \cup n.reads \cup n.offset .. n.offset + 3,
            !.questions = Append(@, [qname |-> n.qname, whole |-> n.state = "complete",
                                     qtype |-> Word16(data, n.offset),
                                     qclass |-> Word16(data, n.offset + 2)])]

\* DnsPacket::parse.
Parse(data) ==
  LET empty == [ok |-> Len(data) >= HeaderSize, id |-> Word16(data, 0),
                offset |-> HeaderSize, questions |-> <<>>, reads |-> {}]
  IN IF ~empty.ok THEN empty
     ELSE FoldLeft(LAMBDA p, q : WithQuestion(data, p), empty,
                   [q \in 1 .. Word16(data, 4) |-> q])

\* The name, cut at every dot, as labels with their lengths.
Encoded(qname) ==
  LET put(acc) == acc.out \o <<Len(acc.label) % 256>> \o acc.label
      cut == FoldLeft(LAMBDA acc, c : IF c = Dot THEN [out |-> put(acc), label |-> <<>>]
                                      ELSE [acc EXCEPT !.label = Append(@, c)],
                      [out |-> <<>>, label |-> <<>>], qname)
  IN (IF cut.label = <<>> THEN cut.out ELSE put(cut)) \o <<0>>

Bytes(word) == <<word \div 256, word % 256>>
Zeroes(n) == [i \in 1 .. n |-> 0]

\* DnsPacket::build_sinkhole_response: header, first question, and an answer
\* of zeroes for 300 seconds, named by a pointer to the question.
Build(p) ==
  IF p.questions = <<>> THEN <<>>
  ELSE LET q == p.questions[1]   aaaa == q.qtype = 28
       IN Bytes(p.id) \o <<129, 128, 0, 1, 0, 1, 0, 0, 0, 0>>
          \o Encoded(q.qname) \o Bytes(q.qtype) \o Bytes(q.qclass)
          \o <<192, HeaderSize, 0, IF aaaa THEN 28 ELSE 1, 0, 1, 0, 0, 1, 44>>
          \o Bytes(IF aaaa THEN 16 ELSE 4) \o Zeroes(IF aaaa THEN 16 ELSE 4)

PacketInit == datagram = <<>> /\ packet = Parse(<<>>) /\ response = <<>>

\* The server parses a datagram and answers it if it could.
Receive(data) ==
  /\ datagram' = data
  /\ packet' = Parse(data)
  /\ response' = IF packet'.ok THEN Build(packet') ELSE <<>>

PacketNext == datagram = <<>> /\ \E data \in Datagrams : Receive(data)

-----------------------------------------------------------------------------
\* parse reads nothing beyond the packet, whatever its pointers lead to.
ReadsInBounds == packet.reads \subseteq 0 .. Len(datagram) - 1

\* Every dot of the name stands between two labels, and they are not too many
\* to be followed: with a dot inside a label, which parse lets pass, they may be.
DotsSeparate(qname) ==
  LET dots == {i \in DOMAIN qname : qname[i] = Dot}
  IN /\ \A i \in dots : i > 1 /\ i < Len(qname) /\ i + 1 \notin dots
     /\ qname # <<>> => Cardinality(dots) + 1 < MaxHops

\* A question whose name came to its end comes back, if its dots are where they
\* belong: the answer parses again to the same question, and its record bears
\* the same name.
AnswerEchoes ==
  response # <<>> /\ packet.questions[1].whole =>
    LET again == Parse(response)   q == packet.questions[1]
    IN DotsSeparate(q.qname) =>
         /\ again.ok /\ again.id = packet.id /\ again.questions = <<q>>
         /\ NameAt(response, again.offset).qname = q.qname
         /\ again.reads \subseteq 0 .. Len(response) - 1
=============================================================================
