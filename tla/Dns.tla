---------------------------------- MODULE Dns ---------------------------------
(***************************************************************************)
(* The DNS interceptor of src/src/access-point/net/src/dns.c on the device *)
(* that WifiBoot starts: its thread exists once main has reached it, and   *)
(* datagrams pass while the access point is up, if they are not lost.      *)
(*                                                                         *)
(* One station asks for a name until it has an address; any other traffic  *)
(* may reach the port as well.                                             *)
(***************************************************************************)
EXTENDS WifiBoot, SequencesExt

CONSTANTS
  Lower,             \* for each part of a name as it is sent, the part in lower case
  Length,            \* and its length
  allowed_domains,   \* the portal's domain and the detection domains, in parts
  Queries,           \* bound: datagrams that reach the port
  MaxDatagrams,      \* bound: datagrams of others that wait at the port
  DNS_BUF_SIZE

DNS_HEADER_LEN == 12
DNS_NAME_MAX_LEN == 64

\* A label is split where it has a dot of its own; a part may be empty.
Label == Seq(DOMAIN Lower) \ {<<>>}

\* header: at least the twelve bytes of a header are there.  labels and end
\* are the name and what is behind it: "root", "pointer" (or a length over 63),
\* or the end of the datagram, "inside" a label or "between" labels.  behind: the
\* bytes behind that, of the type, the class, and any record or padding.
Query == [header : BOOLEAN, response : BOOLEAN, labels : Seq(Label),
          end : {"root", "pointer", "inside", "between"}, behind : Nat]

ASSUME DnsAssumption ==
  /\ Lower \in [DOMAIN Lower -> DOMAIN Lower] /\ Length \in [DOMAIN Lower -> 0 .. 63]
  /\ allowed_domains \subseteq Seq(DOMAIN Lower)
  /\ Queries \subseteq Query
  /\ MaxDatagrams \in Nat \ {0}
  \* a header, the longest name with its ends, type, class and an answer
  /\ DNS_BUF_SIZE \in Nat /\ DNS_BUF_SIZE >= DNS_HEADER_LEN + DNS_NAME_MAX_LEN + 2 + 4 + 16

VARIABLES
  dns,         \* the thread: "none", "open", "ended", or "overrun", its stack overwritten
  question,    \* what the station asks for
  resolved,    \* the station has its address
  toPort,      \* datagrams on their way to the port
  toStation    \* replies on their way to the station

dnsVars == <<dns, question, resolved, toPort, toStation>>

-----------------------------------------------------------------------------
(* The thread. *)

\* socket and bind; a thread that fails ends and nobody is told.
DnsOpen ==
  /\ "dns" \in threads /\ dns = "none"
  /\ dns' \in {"open", "ended"}
  /\ UNCHANGED <<vars, question, resolved, toPort, toStation>>

\* The parts of the name, whose string has a dot between any two, of one label or
\* of two; its length, which for that of the root is no domain's.
Dotted(labels) == FlattenSeq(labels)

NameLen(labels) ==
  FoldLeft(LAMBDA n, part : n + Length[part], Len(Dotted(labels)) - 1, Dotted(labels))

\* A label costs its length and one byte more.
NameEnd(q) ==
  DNS_HEADER_LEN + NameLen(q.labels) + 1 + (IF q.end \in {"root", "pointer"} THEN 1 ELSE 0)

\* recvfrom cuts what rx_buf does not hold; a name that long is too long anyway.
Size(q) ==
  IF ~q.header THEN 0
  ELSE IF NameEnd(q) + q.behind < DNS_BUF_SIZE THEN NameEnd(q) + q.behind
  ELSE DNS_BUF_SIZE

DecodedName(q) == [i \in DOMAIN Dotted(q.labels) |-> Lower[Dotted(q.labels)[i]]]

\* Only the end of the name is compared.
SubdomainsToo(q) ==
  /\ NameLen(q.labels) \in 0 .. DNS_NAME_MAX_LEN
  /\ q.end \notin {"pointer", "inside"}
  /\ \E domain \in allowed_domains : IsSuffix(domain, DecodedName(q))

\* Without the lower case.
AsItIsSent(q) ==
  /\ NameLen(q.labels) \in 0 .. DNS_NAME_MAX_LEN
  /\ q.end \notin {"pointer", "inside"}
  /\ Dotted(q.labels) \in allowed_domains

\* A name cut off between two labels counts as complete.
query_is_for_portal(q) ==
  /\ NameLen(q.labels) \in 0 .. DNS_NAME_MAX_LEN
  /\ q.end \notin {"pointer", "inside"}
  /\ DecodedName(q) \in allowed_domains

\* The query with the flags of a response, one answer counted, and the answer's
\* sixteen bytes behind everything the query had.
build_dns_response(q) == [query |-> q, answerAt |-> Size(q), size |-> Size(q) + 16]

Answered(q) == q.header /\ ~q.response /\ query_is_for_portal(q)

\* Bound: of the replies to others, only the last is under way; any may be lost.
InAir(reply) == {r \in toStation : r.query = question} \cup {reply}

\* One turn of the loop.  A reply that tx_buf does not hold is written over what
\* lies behind it on the stack: at best it is sent all the same.
DnsTurn(q) ==
  /\ dns = "open" /\ ap = "up" /\ q \in toPort
  /\ toPort' = toPort \ {q}
  /\ \/ ~Answered(q) /\ UNCHANGED <<dns, toStation>>
     \/ Answered(q) /\ toStation' = InAir(build_dns_response(q)) /\ UNCHANGED dns
     \/ /\ Answered(q) /\ build_dns_response(q).size > DNS_BUF_SIZE
        /\ dns' = "overrun" /\ UNCHANGED toStation
  /\ UNCHANGED <<vars, question, resolved>>

-----------------------------------------------------------------------------
(* The station and the radio. *)

\* A question as resolvers send it: no dot in a label, its type and class, and
\* nothing behind them.
Plain(q) ==
  /\ q.header /\ ~q.response /\ q.end = "root" /\ q.behind = 4
  /\ \A i \in DOMAIN q.labels : Len(q.labels[i]) = 1

\* A repeated question is the same datagram again.
Arrives(q) ==
  /\ ap = "up"
  /\ toPort' = toPort \cup {q}
  /\ UNCHANGED <<vars, dns, question, resolved, toStation>>

StationAsks == ~resolved /\ Arrives(question)

OtherTraffic ==
  /\ Cardinality(toPort \ {question}) < MaxDatagrams
  /\ \E q \in Queries : Arrives(q)

\* The first record behind the question is the answer, by the reply's header.
Reads(reply) == reply.answerAt = NameEnd(reply.query) + 4

StationReceives ==
  \E reply \in toStation :
    /\ ap = "up" /\ reply.query = question
    /\ resolved' = (resolved \/ Reads(reply))
    /\ toStation' = toStation \ {reply}
    /\ UNCHANGED <<vars, dns, question, toPort>>

Lost ==
  \/ \E q \in toPort : toPort' = toPort \ {q} /\ UNCHANGED toStation
  \/ \E reply \in toStation : toStation' = toStation \ {reply} /\ UNCHANGED toPort

-----------------------------------------------------------------------------

DnsInit ==
  /\ Init
  /\ dns = "none" /\ question \in {q \in Queries : Plain(q)} /\ resolved = FALSE
  /\ toPort = {} /\ toStation = {}

DnsNext ==
  \/ Next /\ UNCHANGED dnsVars
  \/ DnsOpen
  \/ \E q \in toPort : DnsTurn(q)
  \/ StationAsks
  \/ OtherTraffic
  \/ StationReceives
  \/ Lost /\ UNCHANGED <<vars, dns, question, resolved>>

\* The thread is scheduled, the station asks again when no answer comes, and
\* the radio does not lose everything for ever.
DnsFairness ==
  /\ WF_dnsVars(DnsOpen)
  /\ WF_dnsVars(StationAsks)
  /\ SF_dnsVars(\E q \in toPort : q = question /\ DnsTurn(q))
  /\ SF_dnsVars(StationReceives)

DnsSpec == DnsInit /\ [][DnsNext]_<<vars, dnsVars>> /\ Fairness /\ DnsFairness

-----------------------------------------------------------------------------
(* Properties. *)

Allowed(q) == DecodedName(q) \in allowed_domains

\* dns.c 154-342, dns.h 28: "All other queries are left unanswered (dropped) so
\* that normal DNS resolution is not intercepted."  Whatever reaches the port, only
\* questions are answered whose name, written with its dots, is exactly an allowed
\* domain, never an answer.  The reply to a plain question fits its buffer and can
\* be read.
OnlyAllowedAnswered ==
  \A reply \in toStation :
    /\ Allowed(reply.query) /\ ~reply.query.response
    /\ Plain(reply.query) => reply.size <= DNS_BUF_SIZE /\ Reads(reply)

\* dns.h 26: the interceptor answers for the portal's domain.  A station that
\* keeps asking a plain question for an allowed domain, in whatever case, gets
\* its address, if the access point stays up and the thread got its socket.
StationResolves ==
  Allowed(question) =>
    (<>[](ap = "up" /\ dns = "open") => <>resolved)

\* dns.h 16: the interceptor "will answer A-record queries for this domain".  Once
\* the thread has its socket, such a station gets its address whatever else
\* reaches the port.
StationResolvesInTraffic ==
  Allowed(question) =>
    (<>[](ap = "up" /\ dns # "ended") => <>resolved)

=============================================================================
