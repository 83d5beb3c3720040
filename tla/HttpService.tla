------------------------------ MODULE HttpService -----------------------------
(***************************************************************************)
(* The two server threads implement ConnectionService.                     *)
(***************************************************************************)
EXTENDS HttpServer

\* How far the service has come with each connection.
Progress ==
  [c \in Conns |-> IF stage[c] = "none" THEN "new"
                  ELSE IF stage[c] # "closed" THEN "open"
                  ELSE IF answered[c] = ReplyLength(reply[c]) THEN "answered"
                  ELSE "dropped"]

Gone == {c \in Conns : client[c] = "gone"}

Service == INSTANCE ConnectionService WITH
  Ports   <- Port,
  Answers <- Reply \ {"none"},
  None    <- "none",
  Room    <- Backlog,
  waiting <- queue,
  serving <- conn,
  state   <- Progress,
  answer  <- reply,
  left    <- Gone

\* http_server.c 122-195 and 236-258: whatever the segments, the time-outs of
\* an upload and the resets, each port serves its connections one by one in
\* the order they came, decides one answer for each, never another one, and
\* closes it only when the whole answer is sent or its client left; and it
\* always goes on to the next.
ServesInOrder == Service!Spec

=============================================================================
