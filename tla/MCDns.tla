--------------------------------- MODULE MCDns --------------------------------
(***************************************************************************)
(* Two domains, and datagrams that come close to asking for them.          *)
(***************************************************************************)
EXTENDS Dns

MCLower == "relic" :> "relic" @@ "RELIC" :> "relic" @@ "co" :> "co" @@ "www" :> "www"
             @@ "captive" :> "captive" @@ "apple" :> "apple" @@ "com" :> "com"

MCLength == "relic" :> 5 @@ "RELIC" :> 5 @@ "co" :> 2 @@ "www" :> 3
              @@ "captive" :> 7 @@ "apple" :> 5 @@ "com" :> 3

MCDomains == {<<"relic", "co">>, <<"captive", "apple", "com">>}

\* A question for the name of these labels, with type and class.
Q(labels) ==
  [header |-> TRUE, response |-> FALSE, labels |-> [i \in DOMAIN labels |-> <<labels[i]>>],
   end |-> "root", behind |-> 4]

Relic == Q(<<"relic", "co">>)

Captive == Q(<<"captive", "apple", "com">>)

\* An OPT record behind the question, and padding up to the buffer's end.
WithOpt == [Captive EXCEPT !.behind = 4 + 11]
Padded == [Relic EXCEPT !.behind = DNS_BUF_SIZE - NameEnd(Relic)]

\* Both domains, one in capitals, the other in a long question; a subdomain, a
\* label with a dot in it, an answer, padding, and names that do not end.
MCQueries ==
  {Q(<<"RELIC", "co">>), Q(<<"www", "relic", "co">>),
   [Relic EXCEPT !.labels = <<<<"relic", "co">>>>],
   [Relic EXCEPT !.response = TRUE], WithOpt, Padded,
   [Relic EXCEPT !.end = "between", !.behind = 0], [Relic EXCEPT !.header = FALSE]}

\* A question and a datagram of another station.
MCPaddedQueries == {Padded, Relic}

=============================================================================
