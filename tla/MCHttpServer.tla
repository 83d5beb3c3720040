---------------------------- MODULE MCHttpServer ----------------------------
(***************************************************************************)
(* HttpServer with two clients.  Either of two equal clients may come      *)
(* first, so each pair of requests is listed in one order only.            *)
(***************************************************************************)
EXTENDS HttpService, TLC

CONSTANTS c1, c2

\* An upload of two pixels, and one of one pixel followed by a unit that was
\* not announced: it may come in one segment with the headers.
Upload == [port |-> "http", path |-> "upload", hdr |-> 1, size |-> 3,
           pixels |-> 2, clen |-> 2]
Surplus == [Upload EXCEPT !.clen = 1]

\* More announced than the image holds.
TooLarge == [Upload EXCEPT !.size = 1, !.pixels = 1]

\* Headers that do not fit in the buffer.
LongHeader == [Upload EXCEPT !.hdr = 4, !.size = 4, !.clen = 1]

Page == [port |-> "http", path |-> "page", hdr |-> 1, size |-> 1, pixels |-> 0,
         clen |-> NoLength]

TwoSegments == [Page EXCEPT !.hdr = 2, !.size = 2]

Tls == [Page EXCEPT !.port = "tls"]

MCScripts ==
  {(c1 :> pair[1]) @@ (c2 :> pair[2]) :
     pair \in {<<Upload, Upload>>, <<Upload, TwoSegments>>, <<Surplus, Page>>,
               <<TooLarge, Page>>, <<LongHeader, Page>>, <<Tls, Tls>>,
               <<Tls, Surplus>>}}

=============================================================================
