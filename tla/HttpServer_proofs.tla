-------------------------- MODULE HttpServer_proofs --------------------------
(***************************************************************************)
(* The safety invariants of HttpServer, proved for any number of clients,  *)
(* any requests and any sizes of the buffers, and the safety part of       *)
(* ServesInOrder: every step of the threads and their clients is a step of *)
(* ConnectionService or leaves its variables as they are.                  *)
(*                                                                         *)
(* No invariant is inductive by itself.  IInv adds what the code keeps     *)
(* true in between: who is in the backlogs, how much of the stream the     *)
(* HTTP thread has read, and where in it the upload stands.                *)
(***************************************************************************)
EXTENDS HttpService, TLAPS

\* A connection is known to the device from the moment its client opened it.
KnownOnceOpen == \A c \in Conns : client[c] = "away" <=> stage[c] = "none"

\* The backlogs hold queued connections only, each in one place.
BacklogOnce ==
  /\ \A p \in Port : \A i \in 1 .. Len(queue[p]) : stage[queue[p][i]] = "queued"
  /\ \A p, q \in Port : \A i \in 1 .. Len(queue[p]), j \in 1 .. Len(queue[q]) :
       queue[p][i] = queue[q][j] => p = q /\ i = j

\* What the HTTP thread has read has been sent; headers that are not whole
\* are dispatched only when the buffer is full or nothing can follow.
ReadingInv ==
  /\ conn["http"] = NoConn => total = 0
  /\ conn["http"] # NoConn => total <= sent[Peer]
  /\ pc["http"] = "dispatch" =>
       HeadersRead \/ total = RxSize \/ (SendsNoMore(Peer) /\ Waiting = 0)

\* While more is to come, the stream stands right after the last pixel; if
\* the headers never came whole, nothing more comes.
UploadInv ==
  pc["http"] \in {"body", "commit"} =>
    /\ req.hdr = request[Peer].hdr
    /\ req.clen \in 1 .. req.pixels
    /\ written <= req.clen
    /\ request[Peer].hdr <= RxSize =>
         /\ \A i \in 1 .. written : image[i] = request[Peer].hdr + i
         /\ pc["http"] = "body" =>
              \/ HeadersRead /\ (written < req.clen => total = req.hdr + written)
              \/ written = 0 /\ SendsNoMore(Peer) /\ Waiting = 0

\* A thread that sends has something to send.
ReplyChosen == \A p \in Port : pc[p] = "send" => reply[conn[p]] # "none"

IInv ==
  /\ TypeOK
  /\ KnownOnceOpen
  /\ BacklogOnce
  /\ HeldUntilClosed
  /\ ContextFreed
  /\ ReadingInv
  /\ UploadInv
  /\ ReplyChosen
  /\ WholeReplies

-----------------------------------------------------------------------------

\* The sizes are positive, and there are two ports.
LEMMA Sizes ==
  /\ RxSize \in Nat /\ RxSize > 0
  /\ Window \in Nat /\ Window > 0
  /\ PageLength \in Nat /\ PageLength > 0
BY ServerAssumption

LEMMA Ports ==
  /\ "http" \in Port /\ "tls" \in Port
  /\ \A p \in Port : p = "http" \/ p = "tls"
BY DEF Port

\* A thread at work holds a connection.
LEMMA BusyHolds ==
  ASSUME TypeOK, HeldUntilClosed, NEW p \in Port,
         pc[p] \notin {"start", "dead", "accept"}
  PROVE  conn[p] \in Conns /\ stage[conn[p]] = "served"
BY ServerAssumption DEF TypeOK, HeldUntilClosed

\* An answer keeps the types if what goes with it does.
LEMMA AnswerTypes ==
  ASSUME TypeOK, HeldUntilClosed, NEW p \in Port,
         pc[p] \notin {"start", "dead", "accept"},
         NEW r \in Reply, Answer(p, r),
         total' \in Nat, req' \in Request, ctx' \in BOOLEAN,
         written' \in Nat, image' \in [1 .. written' -> Nat]
  PROVE  TypeOK'
<1>1. conn[p] \in Conns
  BY BusyHolds
<1>2. ReplyLength(r) \in Nat /\ ReplyLength(r) >= 0
  BY Sizes DEF ReplyLength
<1>3. /\ reply' \in [Conns -> Reply] /\ answered' \in [Conns -> Nat]
      /\ pc' = [pc EXCEPT ![p] = "send"]
  BY <1>1 DEF Answer, TypeOK
<1>4. \A c \in Conns : answered'[c] <= ReplyLength(reply'[c])
  BY <1>1, <1>2 DEF Answer, TypeOK
<1>5. UNCHANGED <<client, request, sent, unread, queue, stage, conn>>
  BY DEF Answer, clients
<1>6. pc' \in [Port -> {"start", "dead", "accept", "recv", "dispatch", "body",
                        "commit", "send"}]
      /\ pc'["tls"] \notin {"dispatch", "body", "commit"}
  BY <1>3, Ports DEF TypeOK
<1>. QED BY <1>3, <1>4, <1>5, <1>6 DEF TypeOK

\* The fields of a request.
LEMMA RequestFields ==
  ASSUME NEW r \in Request
  PROVE  /\ r.port \in Port
         /\ r.path \in {"upload", "page", "bad"}
         /\ r.hdr \in Nat /\ r.hdr > 0
         /\ r.size \in Nat /\ r.pixels \in Nat /\ r.clen \in Int
BY DEF Request

\* What a parse yields is a request with the headers' length kept.
LEMMA ParseYieldsRequest ==
  ASSUME request[Peer] \in Request, Parse
  PROVE  req' \in Request /\ req'.hdr = request[Peer].hdr
<1>1. CASE HeadersRead
  BY <1>1 DEF Parse
<1>2. CASE ~HeadersRead
  <2>1. PICK path \in {request[Peer].path, "page", "bad"},
             n \in NoLength .. request[Peer].clen :
          req' = [request[Peer] EXCEPT !.path = path, !.clen = n]
    BY <1>2 DEF Parse
  <2>2. n \in Int
    BY RequestFields DEF NoLength
  <2>3. path \in {"upload", "page", "bad"}
    BY RequestFields
  <2>. QED BY <2>1, <2>2, <2>3 DEF Request
<1>. QED BY <1>1, <1>2

\* The HTTP thread at work reads a request.
LEMMA PeerRequest ==
  ASSUME TypeOK, HeldUntilClosed, pc["http"] \notin {"start", "dead", "accept"}
  PROVE  Peer \in Conns /\ request[Peer] \in Request
BY BusyHolds, Ports DEF TypeOK, Peer

\* The backlogs hold connections.
LEMMA QueuedConns ==
  ASSUME TypeOK, NEW p \in Port
  PROVE  /\ Len(queue[p]) \in Nat
         /\ \A i \in 1 .. Len(queue[p]) : queue[p][i] \in Conns
<1>1. queue[p] \in Seq(Conns)
  BY DEF TypeOK
<1>. QED BY <1>1

LEMMA TypesKept ==
  ASSUME TypeOK, HeldUntilClosed, [Next]_vars
  PROVE  TypeOK'
<1>1. ASSUME NEW c \in Conns, Connect(c) PROVE TypeOK'
  <2>1. request[c].port \in Port
    BY RequestFields DEF TypeOK
  <2>2. queue' \in [Port -> Seq(Conns)]
    BY <1>1, <2>1 DEF TypeOK, Connect
  <2>. QED BY <1>1, <2>2 DEF TypeOK, Connect, upload
<1>2. ASSUME NEW c \in Conns, ClientSends(c) PROVE TypeOK'
  <2>1. request[c].size \in Nat
    BY RequestFields DEF TypeOK
  <2>2. sent' \in [Conns -> Nat]
    BY <1>2, <2>1 DEF TypeOK, ClientSends
  <2>. QED BY <1>2, <2>2 DEF TypeOK, ClientSends, sockets, upload
<1>3. ASSUME NEW c \in Conns, ClientFinishes(c) PROVE TypeOK'
  BY <1>3 DEF TypeOK, ClientFinishes, sockets, upload
<1>4. ASSUME NEW c \in Conns, ClientLeaves(c) PROVE TypeOK'
  BY <1>4 DEF TypeOK, ClientLeaves, sockets, upload
<1>5. ASSUME NEW c \in Conns, ClientReads(c) PROVE TypeOK'
  BY <1>5, Sizes DEF TypeOK, ClientReads, sockets, upload
<1>6. ASSUME NEW p \in Port, Start(p) PROVE TypeOK'
  BY <1>6 DEF TypeOK, Start, clients, sockets, upload
<1>7. ASSUME NEW p \in Port, Accept(p) PROVE TypeOK'
  <2>1. Head(queue[p]) \in Conns /\ Tail(queue[p]) \in Seq(Conns)
    BY <1>7 DEF TypeOK, Accept
  <2>2. queue' \in [Port -> Seq(Conns)] /\ conn' \in [Port -> Conns \cup {NoConn}]
    BY <1>7, <2>1 DEF TypeOK, Accept
  <2>3. /\ stage' \in [Conns -> {"none", "queued", "served", "closed"}]
        /\ pc' \in [Port -> {"start", "dead", "accept", "recv", "dispatch",
                             "body", "commit", "send"}]
        /\ pc'["tls"] \notin {"dispatch", "body", "commit"}
    BY <1>7, <2>1 DEF TypeOK, Accept
  <2>4. UNCHANGED <<client, request, sent, unread, reply, answered, total, req,
                    ctx, written, image>>
    BY <1>7 DEF Accept, clients, upload
  <2>. QED BY <2>2, <2>3, <2>4 DEF TypeOK
<1>8. ASSUME NEW p \in Port, SendSome(p) PROVE TypeOK'
  <2>1. conn[p] \in Conns
    BY <1>8, BusyHolds DEF SendSome
  <2>2. PICK n \in 1 .. Smaller(Remaining(p), Window - unread[conn[p]]) :
          /\ answered' = [answered EXCEPT ![conn[p]] = @ + n]
          /\ unread' = [unread EXCEPT ![conn[p]] = @ + n]
    BY <1>8 DEF SendSome
  <2>3. /\ answered[conn[p]] \in Nat /\ unread[conn[p]] \in Nat
        /\ ReplyLength(reply[conn[p]]) \in Nat
    BY <2>1, Sizes DEF TypeOK, ReplyLength
  <2>4. /\ n \in Nat /\ n <= Window - unread[conn[p]]
        /\ n <= ReplyLength(reply[conn[p]]) - answered[conn[p]]
    BY <2>2, <2>3, Sizes DEF Smaller, Remaining
  <2>5. unread' \in [Conns -> 0 .. Window] /\ answered' \in [Conns -> Nat]
    BY <2>1, <2>2, <2>3, <2>4, Sizes DEF TypeOK
  <2>6. \A c \in Conns : answered'[c] <= ReplyLength(reply'[c])
    BY <1>8, <2>1, <2>2, <2>3, <2>4 DEF TypeOK, SendSome
  <2>. QED BY <1>8, <2>5, <2>6 DEF TypeOK, SendSome, upload
<1>9. ASSUME NEW p \in Port, Close(p) PROVE TypeOK'
  <2>1. conn[p] \in Conns
    BY <1>9, BusyHolds DEF Close
  <2>2. NoRequest \in Request
    BY DEF NoRequest, Request, NoLength, Port
  <2>. QED BY <1>9, <2>1, <2>2, Sizes DEF TypeOK, Close, Forget
<1>10. CASE HeaderRecv
  BY <1>10, Sizes, Ports DEF TypeOK, HeaderRecv, clients, sockets, Smaller, Waiting
<1>11. CASE HeaderEnds
  BY <1>11, Ports DEF TypeOK, HeaderEnds, clients, sockets, upload
<1>12. CASE Dispatch
  <2>1. pc["http"] = "dispatch" /\ UNCHANGED <<total, ctx, written, image>>
    BY <1>12 DEF Dispatch
  <2>2. PICK r \in Reply : Answer("http", r)
    BY <1>12 DEF Dispatch, Reply
  <2>3. req' \in Request
    BY <1>12, <2>1, PeerRequest, ParseYieldsRequest DEF Dispatch, TypeOK
  <2>. QED BY <2>1, <2>2, <2>3, Ports, AnswerTypes DEF TypeOK
<1>13. CASE UploadRefused
  <2>1. pc["http"] = "dispatch" /\ UNCHANGED <<total, ctx, written, image>>
    BY <1>13 DEF UploadRefused
  <2>2. PICK r \in Reply : Answer("http", r)
    BY <1>13 DEF UploadRefused, Reply
  <2>3. req' \in Request
    BY <1>13, <2>1, PeerRequest, ParseYieldsRequest DEF UploadRefused
  <2>. QED BY <2>1, <2>2, <2>3, Ports, AnswerTypes DEF TypeOK
<1>14. CASE UploadBegins
  <2>1. req' \in Request
    BY <1>14, PeerRequest, ParseYieldsRequest DEF UploadBegins
  <2>2. req'.hdr \in Nat /\ req'.clen \in Nat
    BY <1>14, <2>1, RequestFields DEF UploadBegins
  <2>3. request[Peer].hdr \in Nat /\ req'.hdr = request[Peer].hdr
    BY <1>14, PeerRequest, ParseYieldsRequest, RequestFields DEF UploadBegins
  <2>4. written' \in Nat
    BY <1>14, <2>2, <2>3 DEF TypeOK, UploadBegins, EarlyBody, HeadersRead, Smaller
  <2>5. image' \in [1 .. written' -> Nat]
    BY <1>14, <2>2, <2>4 DEF UploadBegins
  <2>. QED BY <1>14, <2>1, <2>4, <2>5, Ports DEF TypeOK, UploadBegins, clients, sockets
<1>15. CASE BodyRecv
  <2>1. sent[Peer] \in Nat /\ req.clen \in Int
    BY <1>15, PeerRequest, RequestFields DEF TypeOK, BodyRecv
  <2>2. PICK n \in 1 .. Smaller(Waiting, req.clen - written) :
          /\ total' = total + n
          /\ written' = written + n
          /\ image' = [i \in 1 .. written + n |->
                         IF i <= written THEN image[i] ELSE total + (i - written)]
    BY <1>15 DEF BodyRecv
  <2>3. n \in Nat
    BY <2>1, <2>2 DEF TypeOK, Smaller, Waiting
  <2>4. total' \in Nat /\ written' \in Nat
    BY <2>2, <2>3 DEF TypeOK
  <2>5. image' \in [1 .. written' -> Nat]
    BY <2>2, <2>3 DEF TypeOK
  <2>. QED BY <1>15, <2>4, <2>5 DEF TypeOK, BodyRecv, clients, sockets
<1>16. CASE BodyEnds
  BY <1>16, Ports DEF TypeOK, BodyEnds, clients, sockets, upload
<1>17. CASE Commit
  <2>1. PICK r \in Reply : Answer("http", r)
    BY <1>17 DEF Commit, Reply
  <2>2. /\ total' \in Nat /\ req' \in Request /\ ctx' \in BOOLEAN
        /\ written' \in Nat /\ image' \in [1 .. written' -> Nat]
    BY <1>17 DEF Commit, NoPixels, TypeOK
  <2>. QED BY <1>17, <2>1, <2>2, Ports, AnswerTypes DEF Commit
<1>18. CASE TlsRecv
  <2>1. PICK r \in Reply : Answer("tls", r)
    BY <1>18 DEF TlsRecv, Reply
  <2>2. /\ total' \in Nat /\ req' \in Request /\ ctx' \in BOOLEAN
        /\ written' \in Nat /\ image' \in [1 .. written' -> Nat]
    BY <1>18 DEF TlsRecv, upload, TypeOK
  <2>. QED BY <1>18, <2>1, <2>2, Ports, AnswerTypes DEF TlsRecv
<1>19. CASE UNCHANGED vars
  BY <1>19 DEF TypeOK, vars, ReplyLength
<1>. QED
  BY <1>1, <1>2, <1>3, <1>4, <1>5, <1>6, <1>7, <1>8, <1>9, <1>10, <1>11, <1>12,
     <1>13, <1>14, <1>15, <1>16, <1>17, <1>18, <1>19
     DEF Next, ClientStep, HttpStep, ThreadStep

-----------------------------------------------------------------------------
(***************************************************************************)
(* Who holds which connection.                                             *)
(***************************************************************************)

\* Steps that keep the sockets' stages, the backlogs and who holds what.
LEMMA StagesKept ==
  ASSUME TypeOK, HeldUntilClosed, BacklogOnce, KnownOnceOpen,
         UNCHANGED <<stage, queue, conn>>,
         \A c \in Conns : client'[c] = "away" <=> client[c] = "away",
         \A p \in Port : pc'[p] \in {"start", "dead", "accept"}
                         <=> pc[p] \in {"start", "dead", "accept"}
  PROVE  KnownOnceOpen' /\ BacklogOnce' /\ HeldUntilClosed'
<1>1. KnownOnceOpen'
  BY DEF KnownOnceOpen
<1>2. BacklogOnce'
  BY DEF BacklogOnce
<1>3. HeldUntilClosed'
  BY DEF HeldUntilClosed
<1>. QED BY <1>1, <1>2, <1>3

LEMMA HoldersKept ==
  ASSUME TypeOK, HeldUntilClosed, BacklogOnce, KnownOnceOpen, [Next]_vars
  PROVE  KnownOnceOpen' /\ BacklogOnce' /\ HeldUntilClosed'
<1>. DEFINE Idle == {"start", "dead", "accept"}
<1>1. ASSUME NEW c \in Conns, Connect(c)
      PROVE  KnownOnceOpen' /\ BacklogOnce' /\ HeldUntilClosed'
  <2>. DEFINE p == request[c].port
  <2>1. p \in Port
    BY RequestFields DEF TypeOK
  <2>2. stage[c] = "none"
    BY <1>1 DEF KnownOnceOpen, Connect
  <2>3. /\ Len(queue'[p]) = Len(queue[p]) + 1
        /\ queue'[p][Len(queue[p]) + 1] = c
        /\ \A i \in 1 .. Len(queue[p]) : queue'[p][i] = queue[p][i]
        /\ \A q \in Port \ {p} : queue'[q] = queue[q]
    BY <1>1, <2>1 DEF TypeOK, Connect
  <2>4. stage' = [stage EXCEPT ![c] = "queued"]
    BY <1>1 DEF Connect
  <2>5. \A q \in Port : \A i \in 1 .. Len(queue[q]) : queue[q][i] # c
    BY <2>2 DEF BacklogOnce
  <2>6. KnownOnceOpen'
    BY <1>1 DEF KnownOnceOpen, Connect, TypeOK
  <2>7. BacklogOnce'
    <3>1. \A q \in Port : Len(queue[q]) \in Nat
      BY DEF TypeOK
    <3>2. ASSUME NEW q \in Port, NEW i \in 1 .. Len(queue'[q])
          PROVE  stage'[queue'[q][i]] = "queued"
      <4>1. CASE q = p /\ i = Len(queue[p]) + 1
        BY <4>1, <2>3, <2>4 DEF TypeOK
      <4>2. CASE ~(q = p /\ i = Len(queue[p]) + 1)
        <5>1. i \in 1 .. Len(queue[q]) /\ queue'[q][i] = queue[q][i]
          BY <4>2, <2>3, <3>1
        <5>2. stage[queue[q][i]] = "queued"
          BY <5>1 DEF BacklogOnce
        <5>3. queue[q][i] \in Conns
          BY <5>1, QueuedConns
        <5>. QED BY <5>1, <5>2, <5>3, <2>4 DEF TypeOK
      <4>. QED BY <4>1, <4>2
    <3>3. ASSUME NEW q \in Port, NEW r \in Port,
                 NEW i \in 1 .. Len(queue'[q]), NEW j \in 1 .. Len(queue'[r]),
                 queue'[q][i] = queue'[r][j]
          PROVE  q = r /\ i = j
      <4>1. CASE q = p /\ i = Len(queue[p]) + 1
        <5>1. queue'[q][i] = c
          BY <4>1, <2>3
        <5>2. ~(j \in 1 .. Len(queue[r]) /\ queue'[r][j] = queue[r][j])
          BY <5>1, <3>3, <2>5
        <5>3. r = p /\ j = Len(queue[p]) + 1
          <6>1. r # p => queue'[r] = queue[r]
            BY <2>3
          <6>2. r # p => FALSE
            BY <6>1, <5>2
          <6>3. r = p /\ j \in 1 .. Len(queue[p]) + 1
            BY <6>2, <2>3
          <6>. QED BY <6>3, <5>2, <2>1, <2>3, <3>1
        <5>. QED BY <4>1, <5>3
      <4>2. CASE r = p /\ j = Len(queue[p]) + 1
        <5>1. queue'[q][i] = c
          BY <4>2, <3>3, <2>3
        <5>2. ~(i \in 1 .. Len(queue[q]) /\ queue'[q][i] = queue[q][i])
          BY <5>1, <2>5
        <5>3. q = p /\ i = Len(queue[p]) + 1
          <6>1. q # p => queue'[q] = queue[q]
            BY <2>3
          <6>2. q # p => FALSE
            BY <6>1, <5>2
          <6>3. q = p /\ i \in 1 .. Len(queue[p]) + 1
            BY <6>2, <2>3
          <6>. QED BY <6>3, <5>2, <2>1, <2>3, <3>1
        <5>. QED BY <4>2, <5>3
      <4>3. CASE /\ ~(q = p /\ i = Len(queue[p]) + 1)
                 /\ ~(r = p /\ j = Len(queue[p]) + 1)
        <5>1. i \in 1 .. Len(queue[q]) /\ queue'[q][i] = queue[q][i]
          <6>1. CASE q = p
            BY <6>1, <4>3, <2>1, <2>3, <3>1
          <6>2. CASE q # p
            BY <6>2, <2>3
          <6>. QED BY <6>1, <6>2
        <5>2. j \in 1 .. Len(queue[r]) /\ queue'[r][j] = queue[r][j]
          <6>1. CASE r = p
            BY <6>1, <4>3, <2>1, <2>3, <3>1
          <6>2. CASE r # p
            BY <6>2, <2>3
          <6>. QED BY <6>1, <6>2
        <5>3. queue[q][i] = queue[r][j]
          BY <5>1, <5>2, <3>3
        <5>. QED BY <5>1, <5>2, <5>3 DEF BacklogOnce
      <4>. QED BY <4>1, <4>2, <4>3
    <3>. QED BY <3>2, <3>3 DEF BacklogOnce
  <2>8. HeldUntilClosed'
    BY <1>1, <2>2, <2>4 DEF HeldUntilClosed, Connect, TypeOK
  <2>. QED BY <2>6, <2>7, <2>8
<1>2. ASSUME NEW p \in Port, Accept(p)
      PROVE  KnownOnceOpen' /\ BacklogOnce' /\ HeldUntilClosed'
  <2>. DEFINE c == Head(queue[p])
  <2>1. /\ queue[p] \in Seq(Conns) /\ Len(queue[p]) \in Nat /\ Len(queue[p]) > 0
        /\ c = queue[p][1] /\ c \in Conns
    BY <1>2 DEF TypeOK, Accept
  <2>2. stage[c] = "queued"
    BY <2>1 DEF BacklogOnce
  <2>3. /\ Len(queue'[p]) = Len(queue[p]) - 1
        /\ \A i \in 1 .. Len(queue[p]) - 1 : queue'[p][i] = queue[p][i + 1]
        /\ \A q \in Port \ {p} : queue'[q] = queue[q]
    BY <1>2, <2>1 DEF TypeOK, Accept
  <2>4. /\ stage' = [stage EXCEPT ![c] = "served"]
        /\ conn' = [conn EXCEPT ![p] = c]
        /\ pc' = [pc EXCEPT ![p] = "recv"]
        /\ client' = client /\ pc[p] = "accept"
    BY <1>2 DEF Accept, clients
  <2>5. KnownOnceOpen'
    BY <2>1, <2>2, <2>4 DEF KnownOnceOpen, TypeOK
  <2>6. BacklogOnce'
    <3>1. \A q \in Port : Len(queue[q]) \in Nat
      BY DEF TypeOK
    <3>2. \A q \in Port : \A i \in 1 .. Len(queue'[q]) :
            \E k \in 1 .. Len(queue[q]) :
              /\ queue'[q][i] = queue[q][k]
              /\ k = (IF q = p THEN i + 1 ELSE i)
              /\ queue[q][k] # c
      <4>. TAKE q \in Port
      <4>. TAKE i \in 1 .. Len(queue'[q])
      <4>1. CASE q = p
        <5>1. i + 1 \in 1 .. Len(queue[q]) /\ queue'[q][i] = queue[q][i + 1]
          BY <4>1, <2>1, <2>3
        <5>2. queue[q][i + 1] # c
          BY <4>1, <5>1, <2>1 DEF BacklogOnce
        <5>. QED BY <4>1, <5>1, <5>2
      <4>2. CASE q # p
        <5>1. i \in 1 .. Len(queue[q]) /\ queue'[q][i] = queue[q][i]
          BY <4>2, <2>3
        <5>2. queue[q][i] # c
          BY <4>2, <5>1, <2>1 DEF BacklogOnce
        <5>. QED BY <4>2, <5>1, <5>2
      <4>. QED BY <4>1, <4>2
    <3>3. ASSUME NEW q \in Port, NEW i \in 1 .. Len(queue'[q])
          PROVE  stage'[queue'[q][i]] = "queued"
      <4>1. PICK k \in 1 .. Len(queue[q]) :
              queue'[q][i] = queue[q][k] /\ queue[q][k] # c
        BY <3>2
      <4>2. queue[q][k] \in Conns
        BY DEF TypeOK
      <4>3. stage[queue[q][k]] = "queued"
        BY DEF BacklogOnce
      <4>. QED BY <4>1, <4>2, <4>3, <2>4 DEF TypeOK
    <3>4. ASSUME NEW q \in Port, NEW r \in Port,
                 NEW i \in 1 .. Len(queue'[q]), NEW j \in 1 .. Len(queue'[r]),
                 queue'[q][i] = queue'[r][j]
          PROVE  q = r /\ i = j
      <4>1. PICK k \in 1 .. Len(queue[q]) :
              queue'[q][i] = queue[q][k] /\ k = (IF q = p THEN i + 1 ELSE i)
        BY <3>2
      <4>2. PICK m \in 1 .. Len(queue[r]) :
              queue'[r][j] = queue[r][m] /\ m = (IF r = p THEN j + 1 ELSE j)
        BY <3>2
      <4>3. q = r /\ k = m
        BY <4>1, <4>2, <3>4 DEF BacklogOnce
      <4>. QED BY <4>1, <4>2, <4>3
    <3>. QED BY <3>3, <3>4 DEF BacklogOnce
  <2>7. HeldUntilClosed'
    <3>1. \A q \in Port : conn[q] # c
      BY <2>1, <2>2 DEF HeldUntilClosed
    <3>2. conn[p] = NoConn /\ c # NoConn
      BY <2>1, <2>4, ServerAssumption DEF HeldUntilClosed
    <3>3. \A d \in Conns : stage'[d] = "served" <=> \E q \in Port : conn'[q] = d
      BY <2>1, <2>4, <3>1, <3>2, ServerAssumption DEF HeldUntilClosed, TypeOK
    <3>4. \A q \in Port : conn'[q] = NoConn <=> pc'[q] \in Idle
      BY <2>4, <3>2 DEF HeldUntilClosed, TypeOK
    <3>5. conn'["http"] # NoConn => conn'["http"] # conn'["tls"]
      BY <2>4, <3>1, <3>2, Ports DEF HeldUntilClosed, TypeOK
    <3>. QED BY <3>3, <3>4, <3>5 DEF HeldUntilClosed
  <2>. QED BY <2>5, <2>6, <2>7
<1>3. ASSUME NEW p \in Port, Close(p)
      PROVE  KnownOnceOpen' /\ BacklogOnce' /\ HeldUntilClosed'
  <2>1. conn[p] \in Conns /\ stage[conn[p]] = "served"
    BY <1>3, BusyHolds DEF Close
  <2>2. /\ stage' = [stage EXCEPT ![conn[p]] = "closed"]
        /\ conn' = [conn EXCEPT ![p] = NoConn]
        /\ pc' = [pc EXCEPT ![p] = "accept"]
        /\ client' = client /\ queue' = queue
    BY <1>3 DEF Close, Forget
  <2>3. KnownOnceOpen'
    BY <2>1, <2>2 DEF KnownOnceOpen, TypeOK
  <2>4. BacklogOnce'
    <3>1. \A q \in Port : \A i \in 1 .. Len(queue[q]) :
            queue[q][i] \in Conns /\ queue[q][i] # conn[p]
      <4>. SUFFICES ASSUME NEW q \in Port, NEW i \in 1 .. Len(queue[q])
                    PROVE  queue[q][i] \in Conns /\ queue[q][i] # conn[p]
        OBVIOUS
      <4>1. stage[queue[q][i]] = "queued"
        BY DEF BacklogOnce
      <4>. QED BY <2>1, <4>1, QueuedConns
    <3>2. queue' = queue
      BY <2>2
    <3>3. ASSUME NEW q \in Port, NEW i \in 1 .. Len(queue[q])
          PROVE  stage'[queue[q][i]] = "queued"
      <4>1. stage[queue[q][i]] = "queued"
        BY DEF BacklogOnce
      <4>. QED BY <2>2, <3>1, <4>1 DEF TypeOK
    <3>. QED BY <3>2, <3>3 DEF BacklogOnce
  <2>5. HeldUntilClosed'
    <3>1. \A q \in Port : q # p => conn[q] # conn[p]
      BY <2>1, Ports, ServerAssumption DEF HeldUntilClosed
    <3>2. \A d \in Conns : stage'[d] = "served" <=> \E q \in Port : conn'[q] = d
      BY <2>1, <2>2, <3>1, ServerAssumption DEF HeldUntilClosed, TypeOK
    <3>3. \A q \in Port : conn'[q] = NoConn <=> pc'[q] \in Idle
      BY <2>2 DEF HeldUntilClosed, TypeOK
    <3>4. conn'["http"] # NoConn => conn'["http"] # conn'["tls"]
      BY <2>2, Ports DEF HeldUntilClosed, TypeOK
    <3>. QED BY <3>2, <3>3, <3>4 DEF HeldUntilClosed
  <2>. QED BY <2>3, <2>4, <2>5
<1>4. ASSUME NEW c \in Conns,
             \/ ClientSends(c) \/ ClientFinishes(c) \/ ClientLeaves(c)
             \/ ClientReads(c)
      PROVE  KnownOnceOpen' /\ BacklogOnce' /\ HeldUntilClosed'
  <2>1. UNCHANGED <<stage, queue, conn, pc>>
    BY <1>4 DEF ClientSends, ClientFinishes, ClientLeaves, ClientReads, sockets
  <2>2. \A d \in Conns : client'[d] = "away" <=> client[d] = "away"
    BY <1>4 DEF ClientSends, ClientFinishes, ClientLeaves, ClientReads, TypeOK
  <2>. QED BY <2>1, <2>2, StagesKept
<1>5. ASSUME NEW p \in Port, Start(p) \/ SendSome(p)
      PROVE  KnownOnceOpen' /\ BacklogOnce' /\ HeldUntilClosed'
  <2>1. UNCHANGED <<stage, queue, conn, client>>
    BY <1>5 DEF Start, SendSome, sockets, clients
  <2>2. \A q \in Port : pc'[q] \in Idle <=> pc[q] \in Idle
    BY <1>5 DEF Start, SendSome, TypeOK
  <2>. QED BY <2>1, <2>2, StagesKept
<1>6. CASE HttpStep
  <2>1. UNCHANGED <<stage, queue, conn, client>>
    BY <1>6 DEF HttpStep, HeaderRecv, HeaderEnds, Dispatch, UploadRefused,
       UploadBegins, BodyRecv, BodyEnds, Commit, Answer, sockets, clients
  <2>2. pc["http"] \notin Idle /\ pc'["http"] \notin Idle
    BY <1>6, Ports DEF HttpStep, HeaderRecv, HeaderEnds, Dispatch, UploadRefused,
       UploadBegins, BodyRecv, BodyEnds, Commit, Answer, TypeOK
  <2>3. pc'["tls"] = pc["tls"]
    BY <1>6, Ports DEF HttpStep, HeaderRecv, HeaderEnds, Dispatch, UploadRefused,
       UploadBegins, BodyRecv, BodyEnds, Commit, Answer, TypeOK
  <2>. QED BY <2>1, <2>2, <2>3, Ports, StagesKept
<1>7. CASE TlsRecv
  <2>1. UNCHANGED <<stage, queue, conn, client>>
    BY <1>7 DEF TlsRecv, Answer, clients
  <2>2. \A q \in Port : pc'[q] \in Idle <=> pc[q] \in Idle
    BY <1>7, Ports DEF TlsRecv, Answer, TypeOK
  <2>. QED BY <2>1, <2>2, StagesKept
<1>8. CASE UNCHANGED vars
  BY <1>8, StagesKept DEF vars
<1>. QED
  BY <1>1, <1>2, <1>3, <1>4, <1>5, <1>6, <1>7, <1>8
     DEF Next, ClientStep, ThreadStep

-----------------------------------------------------------------------------
(***************************************************************************)
(* The upload.                                                             *)
(***************************************************************************)

\* What the clients and the TLS thread do leaves the HTTP thread where it is
\* and its reading undisturbed.
LEMMA HttpThreadKept ==
  ASSUME TypeOK, HeldUntilClosed, ReadingInv,
         pc'["http"] = pc["http"], conn'["http"] = conn["http"],
         UNCHANGED upload, UNCHANGED request,
         conn["http"] # NoConn =>
           /\ sent'[Peer] \in Nat /\ total <= sent'[Peer]
           /\ SendsNoMore(Peer) => SendsNoMore(Peer)'
           /\ SendsNoMore(Peer) => sent'[Peer] <= sent[Peer]
  PROVE  ReadingInv' /\ (UploadInv => UploadInv') /\ (ContextFreed => ContextFreed')
<1>1. Peer' = Peer /\ total' = total /\ req' = req /\ written' = written
      /\ image' = image /\ ctx' = ctx
  BY DEF Peer, upload
<1>2. HeadersRead' <=> HeadersRead
  BY <1>1 DEF HeadersRead
<1>3. ASSUME conn["http"] # NoConn, SendsNoMore(Peer), Waiting = 0
      PROVE  SendsNoMore(Peer)' /\ Waiting' = 0
  <2>1. Peer \in Conns
    BY <1>3 DEF TypeOK, Peer, Port
  <2>2. sent[Peer] \in Nat /\ sent'[Peer] \in Nat /\ total \in Nat
    BY <1>3, <2>1 DEF TypeOK
  <2>3. sent'[Peer] = total
    BY <1>3, <2>2 DEF Waiting
  <2>. QED BY <1>1, <1>3, <2>2, <2>3 DEF Waiting
<1>4. ReadingInv'
  <2>1. pc["http"] = "dispatch" => conn["http"] # NoConn
    BY Ports DEF HeldUntilClosed
  <2>. QED BY <1>1, <1>2, <1>3, <2>1 DEF ReadingInv, Peer
<1>5. UploadInv => UploadInv'
  <2>1. pc["http"] \in {"body", "commit"} => conn["http"] # NoConn
    BY Ports DEF HeldUntilClosed
  <2>. QED BY <1>1, <1>2, <1>3, <2>1 DEF UploadInv
<1>6. ContextFreed => ContextFreed'
  BY <1>1 DEF ContextFreed
<1>. QED BY <1>4, <1>5, <1>6

\* Steps of the HTTP thread that end outside the upload.
LEMMA OutsideUpload ==
  ASSUME pc'["http"] \notin {"body", "commit"}
  PROVE  UploadInv' /\ (ctx' = FALSE => ContextFreed')
BY DEF UploadInv, ContextFreed

LEMMA UploadKept ==
  ASSUME TypeOK, HeldUntilClosed, ContextFreed, ReadingInv, UploadInv,
         BacklogOnce, KnownOnceOpen, [Next]_vars
  PROVE  ContextFreed' /\ ReadingInv' /\ UploadInv'
<1>. DEFINE Goal == ContextFreed' /\ ReadingInv' /\ UploadInv'
<1>1. ASSUME NEW c \in Conns, ClientStep(c) PROVE Goal
  <2>1. /\ pc' = pc /\ conn' = conn /\ UNCHANGED upload /\ UNCHANGED request
    BY <1>1 DEF ClientStep, Connect, ClientSends, ClientFinishes, ClientLeaves,
       ClientReads, upload
  <2>2. ASSUME conn["http"] # NoConn
        PROVE  /\ sent'[Peer] \in Nat /\ total <= sent'[Peer]
               /\ SendsNoMore(Peer) => SendsNoMore(Peer)'
               /\ SendsNoMore(Peer) => sent'[Peer] <= sent[Peer]
    <3>1. Peer \in Conns /\ Peer' = Peer
      BY <2>1, <2>2, Ports DEF TypeOK, Peer
    <3>2. sent[Peer] \in Nat /\ total \in Nat /\ total <= sent[Peer]
      BY <2>2, <3>1 DEF TypeOK, ReadingInv
    <3>3. stage[Peer] = "served"
      BY <3>1, Ports DEF HeldUntilClosed, Peer
    <3>4. CASE Connect(c)
      <4>1. sent' = sent /\ client' = [client EXCEPT ![c] = "open"]
        BY <3>4 DEF Connect
      <4>2. c # Peer
        BY <3>3, <3>4 DEF Connect, KnownOnceOpen
      <4>. QED BY <3>1, <3>2, <4>1, <4>2 DEF SendsNoMore, TypeOK
    <3>5. CASE ClientSends(c)
      <4>1. client' = client /\ client[c] = "open"
        BY <3>5 DEF ClientSends
      <4>2. PICK n \in 1 .. request[c].size - sent[c] :
              sent' = [sent EXCEPT ![c] = @ + n]
        BY <3>5 DEF ClientSends
      <4>3. n \in Nat
        BY RequestFields DEF TypeOK
      <4>. QED BY <3>1, <3>2, <4>1, <4>2, <4>3 DEF SendsNoMore, TypeOK
    <3>6. CASE ClientFinishes(c)
      BY <3>6, <3>1, <3>2 DEF ClientFinishes, SendsNoMore, TypeOK
    <3>7. CASE ClientLeaves(c)
      <4>1. client' = [client EXCEPT ![c] = "gone"]
        BY <3>7 DEF ClientLeaves
      <4>2. PICK kept \in (IF conn["http"] = c THEN total ELSE 0) .. sent[c] :
              sent' = [sent EXCEPT ![c] = kept]
        BY <3>7 DEF ClientLeaves
      <4>3. c = Peer => kept \in Nat /\ total <= kept /\ kept <= sent[c]
        BY <3>1, <3>2, <4>2 DEF Peer
      <4>. QED BY <3>1, <3>2, <4>1, <4>2, <4>3 DEF SendsNoMore, TypeOK
    <3>8. CASE ClientReads(c)
      BY <3>8, <3>1, <3>2 DEF ClientReads, SendsNoMore
    <3>. QED BY <1>1, <3>4, <3>5, <3>6, <3>7, <3>8 DEF ClientStep
  <2>. QED BY <2>1, <2>2, HttpThreadKept
<1>2. ASSUME NEW p \in Port, ThreadStep(p), p # "http" PROVE Goal
  <2>1. /\ pc'["http"] = pc["http"] /\ conn'["http"] = conn["http"]
        /\ UNCHANGED upload /\ UNCHANGED request /\ UNCHANGED client
    BY <1>2, Ports DEF ThreadStep, Start, Accept, SendSome, Close, Forget,
       clients, upload, TypeOK
  <2>2. ASSUME conn["http"] # NoConn
        PROVE  sent'[Peer] = sent[Peer] /\ sent[Peer] \in Nat
    <3>1. Peer \in Conns /\ Peer # conn["tls"]
      BY <2>2, Ports DEF TypeOK, Peer, HeldUntilClosed
    <3>2. sent' = sent \/ sent' = [sent EXCEPT ![conn["tls"]] = 0]
      BY <1>2, Ports DEF ThreadStep, Start, Accept, SendSome, Close, Forget, clients
    <3>. QED BY <3>1, <3>2 DEF TypeOK
  <2>3. conn["http"] # NoConn => total <= sent[Peer]
    BY DEF ReadingInv
  <2>4. SendsNoMore(Peer) => SendsNoMore(Peer)'
    BY <2>1 DEF SendsNoMore, Peer
  <2>. QED BY <2>1, <2>2, <2>3, <2>4, HttpThreadKept
<1>3. CASE TlsRecv
  <2>1. /\ pc'["http"] = pc["http"] /\ conn'["http"] = conn["http"]
        /\ UNCHANGED upload /\ UNCHANGED <<request, client, sent>>
    BY <1>3, Ports DEF TlsRecv, Answer, clients, TypeOK
  <2>2. conn["http"] # NoConn => sent[Peer] \in Nat
    BY Ports DEF TypeOK, Peer
  <2>. QED BY <2>1, <2>2, HttpThreadKept DEF ReadingInv, SendsNoMore, Peer
<1>4. CASE Start("http") \/ Accept("http") \/ Close("http")
  <2>1. ctx' = ctx /\ pc["http"] \notin {"body", "commit"}
        /\ pc'["http"] \notin {"body", "commit", "dispatch"}
    BY <1>4, Ports DEF Start, Accept, Close, Forget, upload, TypeOK
  <2>2. ctx' = FALSE
    BY <2>1 DEF ContextFreed, TypeOK
  <2>3. ReadingInv'
    <3>1. CASE Start("http")
      BY <3>1, <2>1 DEF Start, upload, clients, ReadingInv, Peer
    <3>2. CASE Accept("http")
      <4>1. conn["http"] = NoConn /\ total = 0 /\ total' = 0
        BY <3>2, Ports DEF Accept, upload, HeldUntilClosed, ReadingInv
      <4>2. conn'["http"] \in Conns /\ sent' = sent
        <5>1. Head(queue["http"]) \in Conns
          BY <3>2, Ports DEF Accept, TypeOK
        <5>. QED BY <3>2, <5>1, Ports DEF Accept, TypeOK, clients
      <4>3. sent'[Peer'] \in Nat
        BY <4>2 DEF Peer, TypeOK
      <4>. QED BY <2>1, <4>1, <4>3 DEF ReadingInv
    <3>3. CASE Close("http")
      BY <3>3, <2>1, Ports DEF Close, Forget, ReadingInv, TypeOK
    <3>. QED BY <1>4, <3>1, <3>2, <3>3
  <2>. QED BY <2>1, <2>2, <2>3, OutsideUpload
<1>5. CASE SendSome("http")
  <2>1. /\ UNCHANGED <<pc, conn, request, client, sent>> /\ UNCHANGED upload
    BY <1>5 DEF SendSome
  <2>2. conn["http"] # NoConn => sent[Peer] \in Nat /\ total <= sent[Peer]
    BY Ports DEF ReadingInv, Peer, TypeOK
  <2>3. SendsNoMore(Peer) => SendsNoMore(Peer)'
    BY <2>1 DEF SendsNoMore, Peer
  <2>4. conn["http"] # NoConn => sent'[Peer] <= sent[Peer]
    BY <2>1, <2>2
  <2>. QED BY <2>1, <2>2, <2>3, <2>4, HttpThreadKept
<1>6. CASE HeaderRecv
  <2>1. Peer \in Conns /\ Peer' = Peer
    BY <1>6, PeerRequest DEF HeaderRecv, Peer
  <2>2. PICK n \in 1 .. Smaller(Waiting, RxSize - total) : total' = total + n
    BY <1>6 DEF HeaderRecv
  <2>3. sent[Peer] \in Nat /\ total \in Nat /\ sent' = sent
    BY <1>6, <2>1 DEF TypeOK, HeaderRecv, clients
  <2>4. total' <= sent'[Peer']
    BY <2>1, <2>2, <2>3, Sizes DEF Smaller, Waiting
  <2>5. pc'["http"] = "dispatch" => HeadersRead' \/ total' = RxSize
    BY <1>6, <2>1, Ports DEF HeaderRecv, HeadersRead, TypeOK, clients
  <2>6. conn'["http"] # NoConn
    BY <1>6, <2>1, ServerAssumption DEF HeaderRecv, Peer
  <2>7. ReadingInv'
    BY <2>4, <2>5, <2>6 DEF ReadingInv
  <2>8. pc["http"] = "recv" /\ pc'["http"] \in {"recv", "dispatch"} /\ ctx' = ctx
    BY <1>6, Ports DEF HeaderRecv, TypeOK
  <2>9. ctx' = FALSE
    BY <2>8 DEF ContextFreed, TypeOK
  <2>. QED BY <2>7, <2>8, <2>9, OutsideUpload
<1>7. CASE HeaderEnds
  <2>1. /\ pc["http"] = "recv" /\ pc'["http"] = "dispatch" /\ ctx' = ctx
        /\ Peer' = Peer /\ total' = total /\ sent' = sent /\ client' = client
        /\ Waiting = 0 /\ SendsNoMore(Peer)
    BY <1>7, Ports DEF HeaderEnds, TypeOK, clients, upload, Peer
  <2>2. ctx' = FALSE
    BY <2>1 DEF ContextFreed, TypeOK
  <2>3. ReadingInv'
    BY <2>1 DEF ReadingInv, Waiting, SendsNoMore, Peer
  <2>. QED BY <2>1, <2>2, <2>3, OutsideUpload
<1>8. CASE Dispatch \/ UploadRefused
  <2>1. /\ pc["http"] = "dispatch" /\ pc'["http"] = "send" /\ ctx' = ctx
        /\ conn' = conn /\ total' = total /\ sent' = sent
    BY <1>8, Ports DEF Dispatch, UploadRefused, Answer, TypeOK, clients
  <2>2. ctx' = FALSE
    BY <2>1 DEF ContextFreed, TypeOK
  <2>3. ReadingInv'
    BY <2>1 DEF ReadingInv, Peer
  <2>. QED BY <2>1, <2>2, <2>3, OutsideUpload
<1>9. CASE UploadBegins
  <2>1. /\ pc["http"] = "dispatch" /\ pc'["http"] = "body" /\ ctx' = TRUE
        /\ Peer' = Peer /\ conn' = conn /\ total' = total /\ sent' = sent
        /\ client' = client /\ request' = request
    BY <1>9, Ports DEF UploadBegins, TypeOK, clients, Peer
  <2>2. Peer \in Conns /\ request[Peer] \in Request
    BY <2>1, PeerRequest
  <2>3. req' \in Request /\ req'.hdr = request[Peer].hdr
    BY <1>9, <2>2, ParseYieldsRequest DEF UploadBegins
  <2>4. /\ req'.hdr \in Nat /\ req'.clen \in 1 .. req'.pixels /\ req'.pixels \in Nat
        /\ written' = EarlyBody(req') /\ total \in Nat
        /\ image' = [i \in 1 .. written' |-> req'.hdr + i]
    BY <1>9, <2>3, RequestFields DEF UploadBegins, TypeOK
  <2>5. /\ written' <= req'.clen
        /\ HeadersRead => written' <= total - req'.hdr
        /\ HeadersRead /\ written' < req'.clen => total = req'.hdr + written'
        /\ ~HeadersRead => written' = 0
    BY <2>3, <2>4 DEF EarlyBody, Smaller, HeadersRead
  <2>6. \A i \in 1 .. written' : image'[i] = request[Peer].hdr + i
    BY <2>3, <2>4
  <2>7. HeadersRead' <=> HeadersRead
    BY <2>1 DEF HeadersRead
  <2>8. ASSUME ~HeadersRead, request[Peer].hdr <= RxSize
        PROVE  SendsNoMore(Peer)' /\ Waiting' = 0
    <3>1. total # RxSize
      BY <2>3, <2>4, <2>8, Sizes DEF HeadersRead
    <3>2. SendsNoMore(Peer) /\ Waiting = 0
      BY <2>1, <2>8, <3>1 DEF ReadingInv
    <3>. QED BY <2>1, <3>2 DEF SendsNoMore, Waiting
  <2>9. UploadInv'
    BY <2>1, <2>3, <2>4, <2>5, <2>6, <2>7, <2>8 DEF UploadInv
  <2>10. ContextFreed'
    BY <2>1 DEF ContextFreed
  <2>11. ReadingInv'
    BY <2>1 DEF ReadingInv
  <2>. QED BY <2>9, <2>10, <2>11
<1>10. CASE BodyRecv
  <2>1. /\ pc["http"] = "body" /\ pc' = pc /\ ctx' = ctx /\ req' = req
        /\ Peer' = Peer /\ conn' = conn /\ sent' = sent
        /\ client' = client /\ request' = request
    BY <1>10 DEF BodyRecv, clients, Peer
  <2>2. Peer \in Conns /\ request[Peer] \in Request
    BY <2>1, PeerRequest
  <2>3. PICK n \in 1 .. Smaller(Waiting, req.clen - written) :
          /\ total' = total + n
          /\ written' = written + n
          /\ image' = [i \in 1 .. written + n |->
                         IF i <= written THEN image[i] ELSE total + (i - written)]
    BY <1>10 DEF BodyRecv
  <2>4. /\ sent[Peer] \in Nat /\ total \in Nat /\ written \in Nat
        /\ req.clen \in Int /\ req.hdr \in Nat /\ request[Peer].hdr \in Nat
    BY <2>2, RequestFields DEF TypeOK
  <2>5. /\ n \in Nat /\ n > 0 /\ n <= sent[Peer] - total
        /\ n <= req.clen - written
    BY <2>3, <2>4 DEF Smaller, Waiting
  <2>6. ReadingInv'
    <3>1. total' <= sent'[Peer']
      BY <2>1, <2>3, <2>4, <2>5
    <3>2. conn["http"] # NoConn
      BY <2>1, Ports DEF HeldUntilClosed
    <3>. QED BY <2>1, <3>1, <3>2 DEF ReadingInv
  <2>7. UploadInv'
    <3>1. req'.hdr = request'[Peer'].hdr /\ req'.clen \in 1 .. req'.pixels
      BY <2>1 DEF UploadInv
    <3>2. written' <= req'.clen
      BY <2>1, <2>3, <2>4, <2>5
    <3>3. ASSUME request[Peer].hdr <= RxSize
          PROVE  /\ \A i \in 1 .. written' : image'[i] = request[Peer].hdr + i
                 /\ HeadersRead' /\ total' = req.hdr + written'
      <4>1. HeadersRead /\ total = req.hdr + written
        BY <2>1, <2>4, <2>5, <3>3 DEF UploadInv, Waiting
      <4>2. \A i \in 1 .. written : image[i] = request[Peer].hdr + i
        BY <2>1, <3>3 DEF UploadInv
      <4>3. req.hdr = request[Peer].hdr
        BY <2>1 DEF UploadInv
      <4>4. \A i \in 1 .. written' : image'[i] = request[Peer].hdr + i
        <5>. SUFFICES ASSUME NEW i \in 1 .. written'
                      PROVE  image'[i] = request[Peer].hdr + i
          OBVIOUS
        <5>1. image'[i] = IF i <= written THEN image[i] ELSE total + (i - written)
          BY <2>3
        <5>2. CASE i <= written
          BY <5>1, <5>2, <4>2, <2>4
        <5>3. CASE ~(i <= written)
          <6>1. i \in Int
            OBVIOUS
          <6>2. image'[i] = total + (i - written)
            BY <5>1, <5>3
          <6>3. total = request[Peer].hdr + written
            BY <4>1, <4>3
          <6>. QED BY <6>1, <6>2, <6>3, <2>4
        <5>. QED BY <5>2, <5>3
      <4>5. HeadersRead'
        <5>1. total >= request[Peer].hdr
          BY <4>1 DEF HeadersRead
        <5>2. total' >= request[Peer].hdr
          BY <5>1, <2>3, <2>4, <2>5
        <5>. QED BY <5>2, <2>1 DEF HeadersRead
      <4>6. total' = req.hdr + written'
        BY <2>3, <2>4, <2>5, <4>1
      <4>. QED BY <4>4, <4>5, <4>6
    <3>. QED BY <2>1, <3>1, <3>2, <3>3 DEF UploadInv
  <2>8. ContextFreed'
    BY <2>1 DEF ContextFreed
  <2>. QED BY <2>6, <2>7, <2>8
<1>11. CASE BodyEnds
  <2>1. /\ pc["http"] = "body" /\ pc'["http"] = "commit" /\ Peer' = Peer
        /\ conn' = conn /\ sent' = sent /\ request' = request
        /\ UNCHANGED <<total, req, ctx, written, image>>
    BY <1>11, Ports DEF BodyEnds, TypeOK, clients, upload, Peer
  <2>2. UploadInv'
    BY <2>1 DEF UploadInv
  <2>3. ContextFreed' /\ ReadingInv'
    BY <2>1 DEF ContextFreed, ReadingInv
  <2>. QED BY <2>2, <2>3
<1>12. CASE Commit
  <2>1. /\ pc["http"] = "commit" /\ pc'["http"] = "send" /\ ctx' = FALSE
        /\ conn' = conn /\ total' = total /\ sent' = sent
    BY <1>12, Ports DEF Commit, Answer, TypeOK, clients
  <2>2. ReadingInv'
    BY <2>1 DEF ReadingInv, Peer
  <2>. QED BY <2>1, <2>2, OutsideUpload
<1>13. CASE UNCHANGED vars
  BY <1>13 DEF vars, ContextFreed, ReadingInv, UploadInv, Peer, HeadersRead,
     Waiting, SendsNoMore
<1>. QED
  BY <1>1, <1>2, <1>3, <1>4, <1>5, <1>6, <1>7, <1>8, <1>9, <1>10, <1>11, <1>12,
     <1>13 DEF Next, HttpStep, ThreadStep

-----------------------------------------------------------------------------
(***************************************************************************)
(* The replies.                                                            *)
(***************************************************************************)

\* Steps that send nothing and close nothing.
LEMMA RepliesUntouched ==
  ASSUME TypeOK, ReplyChosen, WholeReplies,
         UNCHANGED <<reply, answered, conn>>,
         \A p \in Port : pc'[p] = "send" => pc[p] = "send",
         \A c \in Conns : stage'[c] = "closed" => stage[c] = "closed",
         \A c \in Conns : stage[c] = "closed" => client'[c] = client[c]
  PROVE  ReplyChosen' /\ WholeReplies'
BY DEF ReplyChosen, WholeReplies

\* A thread that answers is left with a reply; nothing closed is touched.
LEMMA RepliesAnswered ==
  ASSUME TypeOK, HeldUntilClosed, ReplyChosen, WholeReplies,
         NEW p \in Port, pc[p] \notin {"start", "dead", "accept", "send"},
         NEW r \in Reply \ {"none"}, Answer(p, r)
  PROVE  ReplyChosen' /\ WholeReplies'
<1>1. conn[p] \in Conns /\ stage[conn[p]] = "served"
  BY BusyHolds
<1>2. /\ reply' = [reply EXCEPT ![conn[p]] = r]
      /\ answered' = [answered EXCEPT ![conn[p]] = 0]
      /\ pc' = [pc EXCEPT ![p] = "send"]
      /\ UNCHANGED <<stage, conn, client>>
  BY DEF Answer, clients
<1>3. ASSUME NEW q \in Port, pc'[q] = "send" PROVE reply'[conn'[q]] # "none"
  <2>1. CASE conn[q] = conn[p]
    BY <1>1, <1>2, <2>1 DEF TypeOK
  <2>2. CASE conn[q] # conn[p]
    BY <1>2, <1>3, <2>2 DEF ReplyChosen, TypeOK
  <2>. QED BY <2>1, <2>2
<1>4. WholeReplies'
  BY <1>1, <1>2 DEF WholeReplies, TypeOK
<1>. QED BY <1>3, <1>4 DEF ReplyChosen

LEMMA RepliesKept ==
  ASSUME TypeOK, HeldUntilClosed, KnownOnceOpen, BacklogOnce, ReplyChosen,
         WholeReplies, [Next]_vars
  PROVE  ReplyChosen' /\ WholeReplies'
<1>1. ASSUME NEW c \in Conns, ClientStep(c) PROVE ReplyChosen' /\ WholeReplies'
  <2>1. UNCHANGED <<reply, answered, conn, pc>>
    BY <1>1 DEF ClientStep, Connect, ClientSends, ClientFinishes, ClientLeaves,
       ClientReads, sockets
  <2>2. \A d \in Conns : stage'[d] = "closed" => stage[d] = "closed"
    BY <1>1 DEF ClientStep, Connect, ClientSends, ClientFinishes, ClientLeaves,
       ClientReads, sockets, TypeOK
  <2>3. \A d \in Conns : stage[d] = "closed" => client'[d] = client[d]
    BY <1>1 DEF ClientStep, Connect, ClientSends, ClientFinishes, ClientLeaves,
       ClientReads, KnownOnceOpen, TypeOK
  <2>. QED BY <2>1, <2>2, <2>3, RepliesUntouched
<1>2. ASSUME NEW p \in Port, Start(p) PROVE ReplyChosen' /\ WholeReplies'
  BY <1>2, RepliesUntouched DEF Start, sockets, clients, TypeOK
<1>3. ASSUME NEW p \in Port, Accept(p) PROVE ReplyChosen' /\ WholeReplies'
  <2>1. /\ conn' = [conn EXCEPT ![p] = Head(queue[p])]
        /\ pc' = [pc EXCEPT ![p] = "recv"]
        /\ stage' = [stage EXCEPT ![Head(queue[p])] = "served"]
        /\ UNCHANGED <<reply, answered, client>>
    BY <1>3 DEF Accept, clients
  <2>2. ReplyChosen'
    BY <2>1 DEF ReplyChosen, TypeOK
  <2>3. WholeReplies'
    BY <2>1 DEF WholeReplies, TypeOK
  <2>. QED BY <2>2, <2>3
<1>4. ASSUME NEW p \in Port, SendSome(p) PROVE ReplyChosen' /\ WholeReplies'
  <2>1. stage[conn[p]] = "served" /\ conn[p] \in Conns
    BY <1>4, BusyHolds DEF SendSome
  <2>2. PICK n \in 1 .. Smaller(Remaining(p), Window - unread[conn[p]]) :
          answered' = [answered EXCEPT ![conn[p]] = @ + n]
    BY <1>4 DEF SendSome
  <2>3. UNCHANGED <<stage, reply, conn, pc, client>>
    BY <1>4 DEF SendSome
  <2>4. ReplyChosen'
    BY <2>3 DEF ReplyChosen
  <2>5. WholeReplies'
    BY <2>1, <2>2, <2>3 DEF WholeReplies, TypeOK
  <2>. QED BY <2>4, <2>5
<1>5. ASSUME NEW p \in Port, Close(p) PROVE ReplyChosen' /\ WholeReplies'
  <2>1. conn[p] \in Conns /\ reply[conn[p]] # "none"
    BY <1>5, BusyHolds DEF Close, ReplyChosen
  <2>2. /\ Remaining(p) = 0 \/ client[conn[p]] = "gone"
        /\ stage' = [stage EXCEPT ![conn[p]] = "closed"]
        /\ conn' = [conn EXCEPT ![p] = NoConn]
        /\ pc' = [pc EXCEPT ![p] = "accept"]
        /\ UNCHANGED <<reply, answered, client>>
    BY <1>5 DEF Close, Forget
  <2>3. Remaining(p) = 0 => answered[conn[p]] = ReplyLength(reply[conn[p]])
    <3>1. answered[conn[p]] \in Nat /\ ReplyLength(reply[conn[p]]) \in Nat
      BY <2>1, Sizes DEF TypeOK, ReplyLength
    <3>. QED BY <3>1 DEF Remaining
  <2>4. ReplyChosen'
    BY <2>2 DEF ReplyChosen, TypeOK
  <2>5. WholeReplies'
    BY <2>1, <2>2, <2>3 DEF WholeReplies, TypeOK
  <2>. QED BY <2>4, <2>5
<1>6. CASE HeaderRecv \/ HeaderEnds \/ UploadBegins \/ BodyRecv \/ BodyEnds
  <2>1. UNCHANGED <<reply, answered, conn, stage, client>>
    BY <1>6 DEF HeaderRecv, HeaderEnds, UploadBegins, BodyRecv, BodyEnds, sockets, clients
  <2>2. \A p \in Port : pc'[p] = "send" => pc[p] = "send"
    BY <1>6, Ports DEF HeaderRecv, HeaderEnds, UploadBegins, BodyRecv, BodyEnds, TypeOK
  <2>. QED BY <2>1, <2>2, RepliesUntouched
<1>7. CASE Dispatch \/ UploadRefused \/ Commit
  <2>1. pc["http"] \in {"dispatch", "commit"}
    BY <1>7 DEF Dispatch, UploadRefused, Commit
  <2>2. PICK r \in Reply \ {"none"} : Answer("http", r)
    BY <1>7 DEF Dispatch, UploadRefused, Commit, Reply
  <2>. QED BY <2>1, <2>2, Ports, RepliesAnswered
<1>8. CASE TlsRecv
  <2>1. pc["tls"] = "recv" /\ Answer("tls", "page")
    BY <1>8 DEF TlsRecv
  <2>. QED BY <2>1, Ports, RepliesAnswered DEF Reply
<1>9. CASE UNCHANGED vars
  BY <1>9, RepliesUntouched DEF vars
<1>. QED
  BY <1>1, <1>2, <1>3, <1>4, <1>5, <1>6, <1>7, <1>8, <1>9
     DEF Next, HttpStep, ThreadStep

-----------------------------------------------------------------------------

LEMMA InitInv == Init => IInv
<1>. SUFFICES ASSUME Init PROVE IInv
  OBVIOUS
<1>1. NoRequest \in Request
  BY DEF NoRequest, Request, NoLength, Port
<1>2. request \in [Conns -> Request]
  BY ServerAssumption DEF Init
<1>3. TypeOK
  <2>1. \A r \in Reply : ReplyLength(r) \in Nat
    BY Sizes DEF ReplyLength
  <2>2. \A c \in Conns : answered[c] = 0 /\ reply[c] \in Reply
    BY DEF Init, Reply
  <2>3. ASSUME NEW c \in Conns PROVE answered[c] <= ReplyLength(reply[c])
    <3>1. answered[c] = 0
      BY <2>2
    <3>2. ReplyLength(reply[c]) \in Nat
      BY <2>1, <2>2
    <3>3. \A n \in Nat : 0 <= n
      OBVIOUS
    <3>. QED BY <3>1, <3>2, <3>3
  <2>4. /\ client \in [Conns -> {"away", "open", "finished", "gone"}]
        /\ sent \in [Conns -> Nat]
        /\ unread \in [Conns -> 0 .. Window]
        /\ stage \in [Conns -> {"none", "queued", "served", "closed"}]
        /\ reply \in [Conns -> Reply]
        /\ answered \in [Conns -> Nat]
    BY Sizes DEF Init, Reply
  <2>5. queue \in [Port -> Seq(Conns)]
    BY DEF Init
  <2>6. /\ pc \in [Port -> {"start", "dead", "accept", "recv", "dispatch", "body",
                           "commit", "send"}]
        /\ pc["tls"] \notin {"dispatch", "body", "commit"}
        /\ conn \in [Port -> Conns \cup {NoConn}]
    BY Ports DEF Init
  <2>7. /\ total \in Nat /\ req \in Request /\ ctx \in BOOLEAN
        /\ written \in Nat /\ image \in [1 .. written -> Nat]
    BY <1>1 DEF Init, NoPixels
  <2>. QED BY <1>2, <2>3, <2>4, <2>5, <2>6, <2>7 DEF TypeOK
<1>4. KnownOnceOpen /\ BacklogOnce
  BY DEF Init, KnownOnceOpen, BacklogOnce
<1>5. HeldUntilClosed
  BY ServerAssumption, Ports DEF Init, HeldUntilClosed
<1>6. ContextFreed /\ ReadingInv /\ UploadInv
  BY Ports DEF Init, ContextFreed, ReadingInv, UploadInv
<1>7. ReplyChosen /\ WholeReplies
  BY DEF Init, ReplyChosen, WholeReplies
<1>. QED BY <1>3, <1>4, <1>5, <1>6, <1>7 DEF IInv

LEMMA NextInv == IInv /\ [Next]_vars => IInv'
BY TypesKept, HoldersKept, UploadKept, RepliesKept DEF IInv

\* The inductive invariant holds in every state.
THEOREM Inductive == Spec => []IInv
BY InitInv, NextInv, PTL DEF Spec

\* Every variable keeps its type: the network never takes more of a reply
\* than the reply has, and never more than its window.
THEOREM TypesCorrect == Spec => []TypeOK
<1>1. IInv => TypeOK
  BY DEF IInv
<1>. QED BY <1>1, Inductive, PTL

\* No thread loses a connection it accepted or serves two at a time.
THEOREM ConnectionsHeld == Spec => []HeldUntilClosed
<1>1. IInv => HeldUntilClosed
  BY DEF IInv
<1>. QED BY <1>1, Inductive, PTL

\* The decoder context of an upload is freed on every way out of the handler.
THEOREM ContextsFreed == Spec => []ContextFreed
<1>1. IInv => ContextFreed
  BY DEF IInv
<1>. QED BY <1>1, Inductive, PTL

\* The upload stays inside the image, each pixel at its place, however the
\* request was cut into segments.
THEOREM UploadsInPlace == Spec => []UploadInPlace
<1>1. IInv => UploadInPlace
  <2>. SUFFICES ASSUME IInv, pc["http"] \in {"body", "commit"}
                PROVE  /\ written <= req.clen /\ req.clen <= req.pixels
                       /\ request[Peer].hdr <= RxSize =>
                            \A i \in 1 .. written : image[i] = request[Peer].hdr + i
    BY DEF UploadInPlace
  <2>1. req.clen \in 1 .. req.pixels /\ req.pixels \in Nat
    BY RequestFields DEF IInv, UploadInv, TypeOK
  <2>. QED BY <2>1 DEF IInv, UploadInv
<1>. QED BY <1>1, Inductive, PTL

\* Headers are dispatched early only if they can never be whole in the buffer.
THEOREM HeadersComeWhole == Spec => []HeadersWhole
<1>1. IInv => HeadersWhole
  BY DEF IInv, ReadingInv, HeadersWhole
<1>. QED BY <1>1, Inductive, PTL

\* A closed connection had its whole reply, unless its client had left.
THEOREM RepliesWhole == Spec => []WholeReplies
<1>1. IInv => WholeReplies
  BY DEF IInv
<1>. QED BY <1>1, Inductive, PTL

-----------------------------------------------------------------------------
(* The refinement of ConnectionService. *)

\* What is answered is being sent, or is closed.
DecidedOnce ==
  \A c \in Conns :
    reply[c] # "none" =>
      stage[c] = "closed" \/ \E p \in Port : conn[p] = c /\ pc[p] = "send"

-----------------------------------------------------------------------------

\* A thread that is not yet sending has not decided.
LEMMA Undecided ==
  ASSUME TypeOK, HeldUntilClosed, DecidedOnce, NEW p \in Port,
         pc[p] \notin {"start", "dead", "accept", "send"}
  PROVE  reply[conn[p]] = "none"
<1>1. conn[p] \in Conns /\ stage[conn[p]] = "served"
  BY BusyHolds
<1>2. \A q \in Port : conn[q] = conn[p] => q = p
  BY <1>1, Ports, ServerAssumption DEF HeldUntilClosed
<1>. QED BY <1>1, <1>2 DEF DecidedOnce

\* A step of the device on p's connection that chooses an answer.
LEMMA AnswerDecides ==
  ASSUME TypeOK, HeldUntilClosed, DecidedOnce, NEW p \in Port,
         pc[p] \notin {"start", "dead", "accept", "send"},
         NEW r \in Reply \ {"none"}, Answer(p, r)
  PROVE  Service!Decide(p) /\ DecidedOnce'
<1>1. conn[p] \in Conns /\ stage[conn[p]] = "served"
  BY BusyHolds
<1>2. conn[p] # NoConn
  BY <1>1, ServerAssumption
<1>3. reply[conn[p]] = "none"
  BY Undecided
<1>4. /\ reply' = [reply EXCEPT ![conn[p]] = r]
      /\ UNCHANGED <<queue, stage, conn, client>>
      /\ pc' = [pc EXCEPT ![p] = "send"]
  BY DEF Answer, clients
<1>5. \A c \in Conns : stage[c] = "closed" => answered'[c] = answered[c] /\ reply'[c] = reply[c]
  BY <1>1 DEF Answer, TypeOK
<1>6. Progress' = Progress
  BY <1>4, <1>5 DEF Progress, ReplyLength
<1>7. Gone' = Gone
  BY <1>4 DEF Gone
<1>8. Service!Decide(p)
  BY <1>2, <1>3, <1>4, <1>6, <1>7 DEF Service!Decide
<1>9. DecidedOnce'
  <2>. SUFFICES ASSUME NEW c \in Conns, reply'[c] # "none"
                PROVE  stage'[c] = "closed" \/ \E q \in Port : conn'[q] = c /\ pc'[q] = "send"
    BY DEF DecidedOnce
  <2>1. CASE c = conn[p]
    BY <1>4, <2>1 DEF TypeOK
  <2>2. CASE c # conn[p]
    <3>1. reply[c] # "none"
      BY <1>4, <2>2 DEF TypeOK
    <3>2. stage[c] = "closed" \/ \E q \in Port : conn[q] = c /\ pc[q] = "send"
      BY <3>1 DEF DecidedOnce
    <3>. QED BY <1>4, <3>2 DEF TypeOK
  <2>. QED BY <2>1, <2>2
<1>. QED BY <1>8, <1>9

\* A step that the service does not see.
LEMMA Unseen ==
  ASSUME TypeOK, HeldUntilClosed, DecidedOnce, UNCHANGED <<queue, conn, stage, reply>>,
         \A c \in Conns : client'[c] = "gone" <=> client[c] = "gone",
         \A c \in Conns : stage[c] = "closed" => answered'[c] = answered[c],
         \A p \in Port : pc[p] = "send" => pc'[p] = "send"
  PROVE  UNCHANGED Service!vars /\ DecidedOnce'
<1>1. Progress' = Progress
  BY DEF Progress, ReplyLength
<1>2. Gone' = Gone
  BY DEF Gone
<1>3. DecidedOnce'
  BY DEF DecidedOnce
<1>. QED BY <1>1, <1>2, <1>3 DEF Service!vars

-----------------------------------------------------------------------------

LEMMA ClientStepSeen ==
  ASSUME IInv, DecidedOnce, NEW c \in Conns, ClientStep(c)
  PROVE  [Service!Next]_(Service!vars) /\ DecidedOnce'
<1>. USE DEF IInv
<1>1. CASE Connect(c)
  <2>. DEFINE p == request[c].port
  <2>1. p \in Port
    BY RequestFields DEF TypeOK
  <2>2. stage[c] = "none" /\ client[c] = "away"
    BY <1>1 DEF Connect, KnownOnceOpen
  <2>3. /\ client' = [client EXCEPT ![c] = "open"]
        /\ stage' = [stage EXCEPT ![c] = "queued"]
        /\ queue' = [queue EXCEPT ![p] = Append(@, c)]
        /\ Len(queue[p]) < Backlog
        /\ UNCHANGED <<conn, reply, answered, pc>>
    BY <1>1 DEF Connect
  <2>4. Progress[c] = "new" /\ Progress' = [Progress EXCEPT ![c] = "open"]
    BY <2>2, <2>3 DEF Progress, TypeOK, ReplyLength
  <2>5. Gone' = Gone
    BY <2>2, <2>3 DEF Gone, TypeOK
  <2>6. Service!Arrive(p, c)
    BY <2>3, <2>4, <2>5 DEF Service!Arrive
  <2>7. DecidedOnce'
    BY <2>2, <2>3 DEF DecidedOnce, TypeOK
  <2>. QED BY <2>1, <2>6, <2>7 DEF Service!Next
<1>2. CASE ClientLeaves(c)
  <2>1. /\ client' = [client EXCEPT ![c] = "gone"] /\ client[c] # "away"
        /\ stage[c] # "closed"
        /\ UNCHANGED <<queue, stage, reply, answered, pc, conn>>
    BY <1>2 DEF ClientLeaves, sockets
  <2>2. stage[c] # "none"
    BY <2>1 DEF KnownOnceOpen
  <2>3. Progress[c] = "open" /\ Progress' = Progress
    BY <2>1, <2>2 DEF Progress, ReplyLength
  <2>4. Gone' = Gone \cup {c}
    BY <2>1 DEF Gone, TypeOK
  <2>5. Service!Leave(c)
    BY <2>1, <2>3, <2>4 DEF Service!Leave
  <2>6. DecidedOnce'
    BY <2>1 DEF DecidedOnce
  <2>. QED BY <2>5, <2>6 DEF Service!Next
<1>3. CASE ClientSends(c) \/ ClientFinishes(c) \/ ClientReads(c)
  <2>1. /\ UNCHANGED <<queue, conn, stage, reply, answered, pc>>
        /\ \A d \in Conns : client'[d] = "gone" <=> client[d] = "gone"
    BY <1>3 DEF ClientSends, ClientFinishes, ClientReads, sockets, TypeOK
  <2>. QED BY <2>1, Unseen
<1>. QED BY <1>1, <1>2, <1>3 DEF ClientStep

LEMMA ThreadStepSeen ==
  ASSUME IInv, DecidedOnce, NEW p \in Port, ThreadStep(p)
  PROVE  [Service!Next]_(Service!vars) /\ DecidedOnce'
<1>. USE DEF IInv
<1>1. CASE Start(p)
  <2>1. UNCHANGED <<queue, conn, stage, reply, answered, client>>
    BY <1>1 DEF Start, clients, sockets
  <2>2. \A q \in Port : pc[q] = "send" => pc'[q] = "send"
    BY <1>1 DEF Start, TypeOK
  <2>. QED BY <2>1, <2>2, Unseen
<1>2. CASE Accept(p)
  <2>. DEFINE h == Head(queue[p])
  <2>1. /\ pc[p] = "accept" /\ queue[p] # <<>>
        /\ conn' = [conn EXCEPT ![p] = h]
        /\ queue' = [queue EXCEPT ![p] = Tail(@)]
        /\ stage' = [stage EXCEPT ![h] = "served"]
        /\ pc' = [pc EXCEPT ![p] = "recv"]
        /\ UNCHANGED <<reply, answered, client>>
    BY <1>2 DEF Accept, clients
  <2>2. h = queue[p][1] /\ 1 \in 1 .. Len(queue[p])
    BY <2>1 DEF TypeOK
  <2>3. h \in Conns /\ stage[h] = "queued"
    BY <2>2, QueuedConns DEF BacklogOnce
  <2>4. conn[p] = NoConn
    BY <2>1 DEF HeldUntilClosed
  <2>5. Progress' = Progress
    BY <2>1, <2>3 DEF Progress, TypeOK, ReplyLength
  <2>6. Gone' = Gone
    BY <2>1 DEF Gone
  <2>7. Service!Take(p)
    BY <2>1, <2>4, <2>5, <2>6 DEF Service!Take
  <2>8. DecidedOnce'
    BY <2>1, <2>3, <2>4, ServerAssumption, SMTT(30) DEF DecidedOnce, TypeOK
  <2>. QED BY <2>7, <2>8 DEF Service!Next
<1>3. CASE SendSome(p)
  <2>1. conn[p] \in Conns /\ stage[conn[p]] = "served"
    BY <1>3, BusyHolds DEF SendSome
  <2>2. UNCHANGED <<queue, conn, stage, reply, client, pc>>
    BY <1>3 DEF SendSome
  <2>3. PICK n : answered' = [answered EXCEPT ![conn[p]] = @ + n]
    BY <1>3 DEF SendSome
  <2>4. \A c \in Conns : stage[c] = "closed" => answered'[c] = answered[c]
    BY <2>1, <2>3 DEF TypeOK
  <2>. QED BY <2>2, <2>4, Unseen
<1>4. CASE Close(p)
  <2>. DEFINE c == conn[p]
  <2>1. c \in Conns /\ stage[c] = "served" /\ c # NoConn
    BY <1>4, BusyHolds, ServerAssumption DEF Close
  <2>2. /\ pc[p] = "send"
        /\ stage' = [stage EXCEPT ![c] = "closed"]
        /\ conn' = [conn EXCEPT ![p] = NoConn]
        /\ pc' = [pc EXCEPT ![p] = "accept"]
        /\ UNCHANGED <<client, queue, reply, answered>>
    BY <1>4 DEF Close, Forget
  <2>3. reply[c] # "none"
    BY <2>2 DEF ReplyChosen
  <2>4. answered[c] = ReplyLength(reply[c]) \/ client[c] = "gone"
    <3>1. ReplyLength(reply[c]) \in Nat /\ answered[c] \in Nat
      BY <2>1, Sizes DEF ReplyLength, TypeOK
    <3>2. ReplyLength(reply[c]) - answered[c] = 0 \/ client[c] = "gone"
      BY <1>4 DEF Close, Remaining
    <3>. QED BY <3>1, <3>2
  <2>5. Gone' = Gone
    BY <2>2 DEF Gone
  <2>0. /\ Progress = [d \in Conns |-> Progress[d]]
        /\ Progress' = [d \in Conns |-> Progress'[d]]
    BY DEF Progress
  <2>6. \/ Progress' = [Progress EXCEPT ![c] = "answered"]
        \/ c \in Gone /\ Progress' = [Progress EXCEPT ![c] = "dropped"]
    <3>1. CASE answered[c] = ReplyLength(reply[c])
      <4>1. \A d \in Conns : stage'[d] = IF d = c THEN "closed" ELSE stage[d]
        BY <2>1, <2>2 DEF TypeOK
      <4>2. \A d \in Conns : Progress'[d] = IF d = c THEN "answered" ELSE Progress[d]
        BY <2>2, <3>1, <4>1 DEF Progress, ReplyLength
      <4>3. Progress' = [Progress EXCEPT ![c] = "answered"]
        BY <2>0, <4>2
      <4>. QED BY <4>3
    <3>2. CASE answered[c] # ReplyLength(reply[c])
      <4>1. c \in Gone
        BY <2>1, <2>4, <3>2 DEF Gone
      <4>2. \A d \in Conns : stage'[d] = IF d = c THEN "closed" ELSE stage[d]
        BY <2>1, <2>2 DEF TypeOK
      <4>3. \A d \in Conns : Progress'[d] = IF d = c THEN "dropped" ELSE Progress[d]
        BY <2>2, <3>2, <4>2 DEF Progress, ReplyLength
      <4>4. Progress' = [Progress EXCEPT ![c] = "dropped"]
        BY <2>0, <4>3
      <4>. QED BY <4>1, <4>4
    <3>. QED BY <3>1, <3>2
  <2>7. Service!Finish(p)
    BY <2>1, <2>2, <2>3, <2>5, <2>6 DEF Service!Finish
  <2>8. DecidedOnce'
    BY <2>1, <2>2 DEF DecidedOnce, TypeOK
  <2>. QED BY <2>7, <2>8 DEF Service!Next
<1>. QED BY <1>1, <1>2, <1>3, <1>4 DEF ThreadStep

LEMMA HttpStepSeen ==
  ASSUME IInv, DecidedOnce, HttpStep \/ TlsRecv
  PROVE  [Service!Next]_(Service!vars) /\ DecidedOnce'
<1>. USE DEF IInv
<1>1. CASE HeaderRecv \/ HeaderEnds \/ UploadBegins \/ BodyRecv \/ BodyEnds
  <2>1. UNCHANGED <<queue, conn, stage, reply, answered, client>>
    BY <1>1 DEF HeaderRecv, HeaderEnds, UploadBegins, BodyRecv, BodyEnds, clients, sockets
  <2>2. \A q \in Port : pc[q] = "send" => pc'[q] = "send"
    BY <1>1 DEF HeaderRecv, HeaderEnds, UploadBegins, BodyRecv, BodyEnds, TypeOK
  <2>. QED BY <2>1, <2>2, Unseen
<1>2. CASE Dispatch \/ UploadRefused \/ Commit
  <2>1. pc["http"] \in {"dispatch", "commit"}
    BY <1>2 DEF Dispatch, UploadRefused, Commit
  <2>2. PICK r \in Reply \ {"none"} : Answer("http", r)
    BY <1>2 DEF Dispatch, UploadRefused, Commit, Reply
  <2>3. Service!Decide("http") /\ DecidedOnce'
    BY <2>1, <2>2, AnswerDecides, Ports
  <2>. QED BY <2>3, Ports DEF Service!Next
<1>3. CASE TlsRecv
  <2>1. pc["tls"] = "recv" /\ Answer("tls", "page")
    BY <1>3 DEF TlsRecv
  <2>2. Service!Decide("tls") /\ DecidedOnce'
    BY <2>1, AnswerDecides, Ports DEF Reply
  <2>. QED BY <2>2, Ports DEF Service!Next
<1>. QED BY <1>1, <1>2, <1>3 DEF HttpStep

LEMMA StepSeen ==
  IInv /\ DecidedOnce /\ [Next]_vars => [Service!Next]_(Service!vars) /\ DecidedOnce'
<1>. SUFFICES ASSUME IInv, DecidedOnce, [Next]_vars
              PROVE  [Service!Next]_(Service!vars) /\ DecidedOnce'
  OBVIOUS
<1>1. CASE Next
  BY <1>1, ClientStepSeen, ThreadStepSeen, HttpStepSeen DEF Next
<1>2. CASE UNCHANGED vars
  <2>1. UNCHANGED <<queue, conn, stage, reply, answered, client, pc>>
    BY <1>2 DEF vars
  <2>. QED BY <2>1, Unseen DEF IInv
<1>. QED BY <1>1, <1>2

LEMMA InitSeen == Init => Service!Init /\ DecidedOnce
<1>. SUFFICES ASSUME Init PROVE Service!Init /\ DecidedOnce
  OBVIOUS
<1>1. Progress = [c \in Conns |-> "new"] /\ Gone = {}
  BY DEF Init, Progress, Gone
<1>. QED BY <1>1 DEF Init, Service!Init, DecidedOnce

\* http_server.c 122-195: whatever clients and network do, the threads behave
\* like a service that takes connections in order, one at a time on each port,
\* gives each one answer and closes it only with the whole of it or when its
\* client left.
THEOREM ImplementsService == Spec => Service!SafeSpec
<1>1. Init => Service!Init /\ DecidedOnce
  BY InitSeen
<1>2. IInv /\ DecidedOnce /\ [Next]_vars => [Service!Next]_(Service!vars) /\ DecidedOnce'
  BY StepSeen
<1>. QED BY <1>1, <1>2, Inductive, PTL DEF Spec, Service!SafeSpec

=============================================================================
