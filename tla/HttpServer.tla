----------------------------- MODULE HttpServer -----------------------------
(***************************************************************************)
(* The two server threads of src/src/access-point/http/src/http_server.c   *)
(* and the streaming upload handler_qr_decode_stream of http_handlers.c,   *)
(* with the clients at the other end of the sockets.  Each thread serves   *)
(* one connection at a time, from accept to close.  http_thread_fn reads   *)
(* up to the end of the headers, dispatches and sends the reply;           *)
(* tls_thread_fn reads once and sends the captive portal page.             *)
(*                                                                         *)
(* A byte stream is a count of units: a request has hdr units up to and    *)
(* including its blank line and size units in all.  A recv returns, and a  *)
(* send takes, any number of units that the two ends allow.                *)
(***************************************************************************)
EXTENDS Integers, Sequences

CONSTANTS
  Conns,         \* connections, each opened at most once
  NoConn,        \* a thread between two connections
  Scripts,       \* what the clients may send: a request for each
  RxSize,        \* units the header buffer holds: HTTP_RX_BUF_SIZE - 1
  Backlog,       \* HTTP_BACKLOG
  Window,        \* units the network takes before the client reads any
  PageLength     \* units of a page; every other reply is one unit

Port == {"http", "tls"}

NoLength == -1   \* the request has no Content-Length

Request ==
  [port   : Port,
   path   : {"upload", "page", "bad"},  \* /qr_decode, any other, no request line
   hdr    : Nat \ {0},                  \* units to the end of the blank line
   size   : Nat,                        \* units the client has to send
   pixels : Nat,                        \* w * h; 0: missing or out of range
   clen   : Int]                        \* the value of Content-Length

ASSUME ServerAssumption ==
  /\ NoConn \notin Conns
  /\ Scripts \subseteq [Conns -> Request]
  /\ RxSize \in Nat \ {0}
  /\ Backlog \in Nat \ {0}
  /\ Window \in Nat \ {0}
  /\ PageLength \in Nat \ {0}

\* The header bytes were never parsed.
NoRequest == [port |-> "http", path |-> "bad", hdr |-> 1, size |-> 0,
              pixels |-> 0, clen |-> NoLength]

Reply == {"none", "page", "share", "bad_request", "too_large", "server_error",
          "unprocessable"}

ReplyLength(r) == IF r = "page" THEN PageLength ELSE 1

VARIABLES
  \* the clients
  client,     \* "away", "open", "finished" (sends no more) or "gone" (reset)
  request,    \* what each client sends
  sent,       \* units of it that reached the device
  unread,     \* units of the reply the client has not read
  \* the sockets
  queue,      \* connections waiting on each port
  stage,      \* "none", "queued", "served" or "closed"
  reply,      \* what each connection is answered with
  answered,   \* units of that reply the network has taken
  \* the threads
  pc,         \* where each thread is
  conn,       \* client_fd of each thread
  \* the HTTP thread's own
  total,      \* units it read from its connection
  req,        \* the parsed request
  ctx,        \* a QR decoder context is allocated
  written,    \* pixels written to its image buffer
  image       \* the stream position each written pixel came from

clients == <<client, request, sent, unread>>
sockets == <<queue, stage, reply, answered>>
upload  == <<total, req, ctx, written, image>>
vars    == <<client, request, sent, unread, queue, stage, reply, answered, pc,
             conn, total, req, ctx, written, image>>

-----------------------------------------------------------------------------

Smaller(a, b) == IF a < b THEN a ELSE b

NoPixels == [i \in 1 .. 0 |-> 0]

Init ==
  /\ client = [c \in Conns |-> "away"]
  /\ request \in Scripts
  /\ sent = [c \in Conns |-> 0]
  /\ unread = [c \in Conns |-> 0]
  /\ queue = [p \in Port |-> <<>>]
  /\ stage = [c \in Conns |-> "none"]
  /\ reply = [c \in Conns |-> "none"]
  /\ answered = [c \in Conns |-> 0]
  /\ pc = [p \in Port |-> "start"]
  /\ conn = [p \in Port |-> NoConn]
  /\ total = 0
  /\ req = NoRequest
  /\ ctx = FALSE
  /\ written = 0
  /\ image = NoPixels

-----------------------------------------------------------------------------
(***************************************************************************)
(* The clients.  A client may stop at any point and keep its connection;   *)
(* once the device has closed it, what the client does matters no more.    *)
(***************************************************************************)

\* The device takes a connection while a thread listens and its backlog has
\* room.
Connect(c) ==
  LET p == request[c].port
  IN  /\ client[c] = "away"
      /\ pc[p] \notin {"start", "dead"}
      /\ Len(queue[p]) < Backlog
      /\ client' = [client EXCEPT ![c] = "open"]
      /\ queue' = [queue EXCEPT ![p] = Append(@, c)]
      /\ stage' = [stage EXCEPT ![c] = "queued"]
      /\ UNCHANGED <<request, sent, unread, reply, answered, pc, conn>>
      /\ UNCHANGED upload

ClientSends(c) ==
  /\ client[c] = "open"
  /\ stage[c] # "closed"
  /\ \E n \in 1 .. request[c].size - sent[c] : sent' = [sent EXCEPT ![c] = @ + n]
  /\ UNCHANGED <<client, request, unread, pc, conn>>
  /\ UNCHANGED sockets /\ UNCHANGED upload

\* The client shuts its sending side.
ClientFinishes(c) ==
  /\ client[c] = "open"
  /\ stage[c] # "closed"
  /\ client' = [client EXCEPT ![c] = "finished"]
  /\ UNCHANGED <<request, sent, unread, pc, conn>>
  /\ UNCHANGED sockets /\ UNCHANGED upload

\* The client resets the connection: some of what the device has not read
\* yet is lost.
ClientLeaves(c) ==
  /\ client[c] \in {"open", "finished"}
  /\ stage[c] # "closed"
  /\ client' = [client EXCEPT ![c] = "gone"]
  /\ \E kept \in (IF conn["http"] = c THEN total ELSE 0) .. sent[c] :
       sent' = [sent EXCEPT ![c] = kept]
  /\ UNCHANGED <<request, unread, pc, conn>>
  /\ UNCHANGED sockets /\ UNCHANGED upload

ClientReads(c) ==
  /\ client[c] \in {"open", "finished"}
  /\ stage[c] # "closed"
  /\ unread[c] > 0
  /\ unread' = [unread EXCEPT ![c] = 0]
  /\ UNCHANGED <<client, request, sent, pc, conn>>
  /\ UNCHANGED sockets /\ UNCHANGED upload

-----------------------------------------------------------------------------
(***************************************************************************)
(* Both threads: socket, bind and listen; accept; send and close.          *)
(***************************************************************************)

\* A thread whose socket, bind or listen fails returns, and nobody is told.
Start(p) ==
  /\ pc[p] = "start"
  /\ \E outcome \in {"accept", "dead"} : pc' = [pc EXCEPT ![p] = outcome]
  /\ UNCHANGED clients /\ UNCHANGED sockets /\ UNCHANGED conn /\ UNCHANGED upload

\* A backlog that hands out its newest connection first.
AcceptNewest(p) ==
  LET n == Len(queue[p])
  IN  /\ pc[p] = "accept"
      /\ n > 0
      /\ conn' = [conn EXCEPT ![p] = queue[p][n]]
      /\ queue' = [queue EXCEPT ![p] = SubSeq(@, 1, n - 1)]
      /\ stage' = [stage EXCEPT ![queue[p][n]] = "served"]
      /\ pc' = [pc EXCEPT ![p] = "recv"]
      /\ UNCHANGED <<reply, answered>>
      /\ UNCHANGED clients /\ UNCHANGED upload

Accept(p) ==
  /\ pc[p] = "accept"
  /\ queue[p] # <<>>
  /\ conn' = [conn EXCEPT ![p] = Head(queue[p])]
  /\ queue' = [queue EXCEPT ![p] = Tail(@)]
  /\ stage' = [stage EXCEPT ![Head(queue[p])] = "served"]
  /\ pc' = [pc EXCEPT ![p] = "recv"]
  /\ UNCHANGED <<reply, answered>>
  /\ UNCHANGED clients /\ UNCHANGED upload

\* The thread answers its connection with r from its first byte.
Answer(p, r) ==
  /\ reply' = [reply EXCEPT ![conn[p]] = r]
  /\ answered' = [answered EXCEPT ![conn[p]] = 0]
  /\ pc' = [pc EXCEPT ![p] = "send"]
  /\ UNCHANGED <<queue, stage, conn>>
  /\ UNCHANGED clients

Remaining(p) == ReplyLength(reply[conn[p]]) - answered[conn[p]]

\* A loop that sends on without subtracting what was sent.
SendForever(p) ==
  /\ pc[p] = "send"
  /\ \E n \in 1 .. Smaller(ReplyLength(reply[conn[p]]), Window - unread[conn[p]]) :
       /\ answered' = [answered EXCEPT ![conn[p]] = @ + n]
       /\ unread' = [unread EXCEPT ![conn[p]] = @ + n]
  /\ UNCHANGED <<client, request, sent, queue, stage, reply, pc, conn>>
  /\ UNCHANGED upload

\* zsock_send takes what the window allows.
SendSome(p) ==
  /\ pc[p] = "send"
  /\ \E n \in 1 .. Smaller(Remaining(p), Window - unread[conn[p]]) :
       /\ answered' = [answered EXCEPT ![conn[p]] = @ + n]
       /\ unread' = [unread EXCEPT ![conn[p]] = @ + n]
  /\ UNCHANGED <<client, request, sent, queue, stage, reply, pc, conn>>
  /\ UNCHANGED upload

\* With the socket go its buffers, and with the turn of the loop its locals.
Forget(p) ==
  /\ sent' = [sent EXCEPT ![conn[p]] = 0]
  /\ unread' = [unread EXCEPT ![conn[p]] = 0]
  /\ IF p = "http" THEN total' = 0 /\ req' = NoRequest ELSE UNCHANGED <<total, req>>
  /\ UNCHANGED <<client, request, queue, reply, answered, ctx, written, image>>

\* A close after one send, whatever it took.
CloseAfterOneSend(p) ==
  /\ pc[p] = "send"
  /\ answered[conn[p]] > 0 \/ client[conn[p]] = "gone"
  /\ stage' = [stage EXCEPT ![conn[p]] = "closed"]
  /\ conn' = [conn EXCEPT ![p] = NoConn]
  /\ pc' = [pc EXCEPT ![p] = "accept"]
  /\ Forget(p)

\* The loop ends when all is sent, or when zsock_send fails.
Close(p) ==
  /\ pc[p] = "send"
  /\ Remaining(p) = 0 \/ client[conn[p]] = "gone"
  /\ stage' = [stage EXCEPT ![conn[p]] = "closed"]
  /\ conn' = [conn EXCEPT ![p] = NoConn]
  /\ pc' = [pc EXCEPT ![p] = "accept"]
  /\ Forget(p)

-----------------------------------------------------------------------------
(***************************************************************************)
(* http_thread_fn: the headers and the dispatch.                           *)
(***************************************************************************)

Peer == conn["http"]

Waiting == sent[Peer] - total          \* units a recv can return now

SendsNoMore(c) == client[c] \in {"finished", "gone"}

\* The blank line is in the buffer.
HeadersRead == total >= request[Peer].hdr

\* One recv, and no second one.
HeaderRecvOnce ==
  /\ pc["http"] = "recv"
  /\ \E n \in 1 .. Smaller(Waiting, RxSize - total) : total' = total + n
  /\ pc' = [pc EXCEPT !["http"] = "dispatch"]
  /\ UNCHANGED clients /\ UNCHANGED sockets
  /\ UNCHANGED <<conn, req, ctx, written, image>>

\* One recv of the header loop; it is the last one when the blank line has
\* come or the buffer is full.  This recv has no timeout.
HeaderRecv ==
  /\ pc["http"] = "recv"
  /\ \E n \in 1 .. Smaller(Waiting, RxSize - total) : total' = total + n
  /\ pc' = [pc EXCEPT !["http"] =
              IF total' >= request[Peer].hdr \/ total' = RxSize
              THEN "dispatch" ELSE "recv"]
  /\ UNCHANGED clients /\ UNCHANGED sockets
  /\ UNCHANGED <<conn, req, ctx, written, image>>

\* recv returns 0 or an error: what has come is dispatched as it is.
HeaderEnds ==
  /\ pc["http"] = "recv"
  /\ Waiting = 0
  /\ SendsNoMore(Peer)
  /\ pc' = [pc EXCEPT !["http"] = "dispatch"]
  /\ UNCHANGED clients /\ UNCHANGED sockets /\ UNCHANGED <<conn>>
  /\ UNCHANGED upload

\* What router_parse and the search for Content-Length can make of the bytes
\* in the buffer: the request itself when its headers are whole; otherwise
\* its request line, its path or its length may be cut short or missing.
Parse ==
  IF HeadersRead THEN req' = request[Peer]
  ELSE \E path \in {request[Peer].path, "page", "bad"},
          n \in NoLength .. request[Peer].clen :
         req' = [request[Peer] EXCEPT !.path = path, !.clen = n]

\* A thread that goes back to accept when nothing came.
DispatchDropsEmpty ==
  /\ pc["http"] = "dispatch"
  /\ \/ /\ total = 0
        /\ pc' = [pc EXCEPT !["http"] = "accept"]
        /\ conn' = [conn EXCEPT !["http"] = NoConn]
        /\ UNCHANGED req
        /\ UNCHANGED clients /\ UNCHANGED sockets
     \/ /\ total > 0
        /\ Parse /\ req'.path # "upload"
        /\ Answer("http", IF req'.path = "bad" THEN "bad_request" ELSE "page")
  /\ UNCHANGED <<total, ctx, written, image>>

\* Nothing came, router_parse failed, or router_dispatch found a handler or
\* fell back to the captive portal.
Dispatch ==
  /\ pc["http"] = "dispatch"
  /\ \/ /\ total = 0
        /\ req' = req
        /\ Answer("http", "bad_request")
     \/ /\ total > 0
        /\ Parse /\ req'.path # "upload"
        /\ Answer("http", IF req'.path = "bad" THEN "bad_request" ELSE "page")
  /\ UNCHANGED <<total, ctx, written, image>>

\* handler_qr_decode_stream answers before it allocates anything.
UploadRefused ==
  /\ pc["http"] = "dispatch"
  /\ total > 0
  /\ Parse /\ req'.path = "upload"
  /\ \/ /\ req'.pixels = 0 \/ req'.clen = NoLength
        /\ Answer("http", "bad_request")
     \/ /\ req'.pixels > 0 /\ req'.clen # NoLength
        /\ req'.clen <= 0 \/ req'.clen > req'.pixels
        /\ Answer("http", "too_large")
     \/ /\ req'.pixels > 0 /\ req'.clen \in 1 .. req'.pixels
        /\ Answer("http", "server_error")    \* out of memory
  /\ UNCHANGED <<total, ctx, written, image>>

\* Body units that came with the headers, as many as the length announces.
EarlyBody(r) == IF HeadersRead THEN Smaller(total - r.hdr, r.clen) ELSE 0

\* The early body copied, but written left at 0.
UploadBeginsAtZero ==
  /\ pc["http"] = "dispatch"
  /\ total > 0
  /\ Parse /\ req'.path = "upload"
  /\ req'.pixels > 0 /\ req'.clen \in 1 .. req'.pixels
  /\ ctx' = TRUE
  /\ written' = 0
  /\ image' = NoPixels
  /\ pc' = [pc EXCEPT !["http"] = "body"]
  /\ UNCHANGED clients /\ UNCHANGED sockets /\ UNCHANGED <<conn, total>>

\* qr_decode_begin succeeds, and the early body is copied into the image.
UploadBegins ==
  /\ pc["http"] = "dispatch"
  /\ total > 0
  /\ Parse /\ req'.path = "upload"
  /\ req'.pixels > 0 /\ req'.clen \in 1 .. req'.pixels
  /\ ctx' = TRUE
  /\ written' = EarlyBody(req')
  /\ image' = [i \in 1 .. written' |-> req'.hdr + i]
  /\ pc' = [pc EXCEPT !["http"] = "body"]
  /\ UNCHANGED clients /\ UNCHANGED sockets /\ UNCHANGED <<conn, total>>

-----------------------------------------------------------------------------
(***************************************************************************)
(* handler_qr_decode_stream: the body and the decoding.                    *)
(***************************************************************************)

\* One recv of the body loop, straight into the image.
BodyRecv ==
  /\ pc["http"] = "body"
  /\ \E n \in 1 .. Smaller(Waiting, req.clen - written) :
       /\ total' = total + n
       /\ written' = written + n
       /\ image' = [i \in 1 .. written + n |->
                      IF i <= written THEN image[i] ELSE total + (i - written)]
  /\ UNCHANGED clients /\ UNCHANGED sockets /\ UNCHANGED <<pc, conn, req, ctx>>

\* A body loop that waits for the client without a timeout.
BodyEndsUntimed ==
  /\ pc["http"] = "body"
  /\ written >= req.clen \/ (Waiting = 0 /\ SendsNoMore(Peer))
  /\ pc' = [pc EXCEPT !["http"] = "commit"]
  /\ UNCHANGED clients /\ UNCHANGED sockets /\ UNCHANGED conn
  /\ UNCHANGED upload

\* The loop ends when the announced length is there, when the client sends
\* no more, or when nothing has come for SO_RCVTIMEO: then the image is
\* decoded with what it has.
BodyEnds ==
  /\ pc["http"] = "body"
  /\ written >= req.clen \/ Waiting = 0
  /\ pc' = [pc EXCEPT !["http"] = "commit"]
  /\ UNCHANGED clients /\ UNCHANGED sockets /\ UNCHANGED conn
  /\ UNCHANGED upload

\* A decoding that frees the context only when it found a share.
CommitLeaksOnFailure ==
  /\ pc["http"] = "commit"
  /\ \E r \in {"share", "unprocessable"} :
       /\ Answer("http", r)
       /\ ctx' = (r = "unprocessable")
  /\ written' = 0
  /\ image' = NoPixels
  /\ UNCHANGED <<total, req>>

\* qr_decode_commit, qr_decode_destroy and the conversion of the payload:
\* any of the two readings may fail.
Commit ==
  /\ pc["http"] = "commit"
  /\ \E r \in {"share", "unprocessable"} : Answer("http", r)
  /\ ctx' = FALSE
  /\ written' = 0
  /\ image' = NoPixels
  /\ UNCHANGED <<total, req>>

\* tls_thread_fn: one recv, then the page.
TlsRecv ==
  /\ pc["tls"] = "recv"
  /\ sent[conn["tls"]] > 0 \/ SendsNoMore(conn["tls"])
  /\ Answer("tls", "page")
  /\ UNCHANGED upload

-----------------------------------------------------------------------------

ClientStep(c) ==
  \/ Connect(c)
  \/ ClientSends(c)
  \/ ClientFinishes(c)
  \/ ClientLeaves(c)
  \/ ClientReads(c)

HttpStep ==
  \/ HeaderRecv
  \/ HeaderEnds
  \/ Dispatch
  \/ UploadRefused
  \/ UploadBegins
  \/ BodyRecv
  \/ BodyEnds
  \/ Commit

ThreadStep(p) == Start(p) \/ Accept(p) \/ SendSome(p) \/ Close(p)

Next ==
  \/ \E c \in Conns : ClientStep(c)
  \/ HttpStep
  \/ TlsRecv
  \/ \E p \in Port : ThreadStep(p)

(***************************************************************************)
(* Both threads have one priority and block only in socket calls, so each  *)
(* is scheduled again while it can move.  A client is trusted with two     *)
(* things only: it completes the headers it began, or closes, and it reads *)
(* its reply, or resets.  Nothing is assumed of the body of an upload.     *)
(***************************************************************************)
Fairness ==
  /\ WF_vars(HttpStep)
  /\ WF_vars(TlsRecv)
  /\ \A p \in Port : WF_vars(ThreadStep(p))
  /\ \A c \in Conns :
       /\ WF_vars(/\ sent[c] < Smaller(request[c].hdr, request[c].size)
                  /\ ClientSends(c) \/ ClientFinishes(c) \/ ClientLeaves(c))
       /\ WF_vars(/\ unread[c] > 0
                  /\ ClientReads(c) \/ ClientLeaves(c))

Spec == Init /\ [][Next]_vars /\ Fairness

-----------------------------------------------------------------------------

\* Types; the network has never taken more of a reply than there is.
TypeOK ==
  /\ client \in [Conns -> {"away", "open", "finished", "gone"}]
  /\ request \in [Conns -> Request]
  /\ sent \in [Conns -> Nat]
  /\ unread \in [Conns -> 0 .. Window]
  /\ queue \in [Port -> Seq(Conns)]
  /\ stage \in [Conns -> {"none", "queued", "served", "closed"}]
  /\ reply \in [Conns -> Reply]
  /\ answered \in [Conns -> Nat]
  /\ \A c \in Conns : answered[c] <= ReplyLength(reply[c])
  /\ pc \in [Port -> {"start", "dead", "accept", "recv", "dispatch", "body",
                      "commit", "send"}]
  /\ pc["tls"] \notin {"dispatch", "body", "commit"}
  /\ conn \in [Port -> Conns \cup {NoConn}]
  /\ total \in Nat
  /\ req \in Request
  /\ ctx \in BOOLEAN
  /\ written \in Nat
  /\ image \in [1 .. written -> Nat]

\* No connection is lost or served twice: each one a thread accepted and has
\* not closed is the one some thread holds, and a thread holds one exactly
\* between accept and close.
HeldUntilClosed ==
  /\ \A c \in Conns : stage[c] = "served" <=> \E p \in Port : conn[p] = c
  /\ \A p \in Port : conn[p] = NoConn <=> pc[p] \in {"start", "dead", "accept"}
  /\ conn["http"] # NoConn => conn["http"] # conn["tls"]

\* The decoder context is allocated only inside the upload handler: on every
\* way out of it, a failed decoding or a client that stalled or left
\* included, the memory of the image is free again.
ContextFreed == ctx <=> pc["http"] \in {"body", "commit"}

\* The upload never writes outside the image, and each pixel is the body byte
\* of its own position, however the body was cut between the header buffer
\* and the later receives; this needs headers that fit in the buffer.
UploadInPlace ==
  pc["http"] \in {"body", "commit"} =>
    /\ written <= req.clen /\ req.clen <= req.pixels
    /\ request[Peer].hdr <= RxSize =>
         \A i \in 1 .. written : image[i] = request[Peer].hdr + i

\* A connection the device closed was answered, and unless its client left,
\* with the whole reply.
WholeReplies ==
  \A c \in Conns :
    stage[c] = "closed" /\ client[c] # "gone" =>
      reply[c] # "none" /\ answered[c] = ReplyLength(reply[c])

\* The HTTP thread stops reading headers only when they are whole, the buffer
\* is full or the client has ended: headers that arrive in several segments
\* are not dispatched early.
HeadersWhole ==
  pc["http"] = "dispatch" =>
    HeadersRead \/ total = RxSize \/ SendsNoMore(Peer)

\* No client makes the device forget another one: every connection in the
\* backlog is at last closed, whatever the clients before it do with the body
\* of an upload.
EveryConnectionCloses ==
  \A c \in Conns : stage[c] = "queued" ~> stage[c] = "closed"

=============================================================================
