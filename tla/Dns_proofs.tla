----------------------------- MODULE Dns_proofs ------------------------------
(***************************************************************************)
(* The safety of the boot, for any number of waiting events, and of the    *)
(* DNS interceptor it is composed with, for any traffic and any domains.   *)
(*                                                                         *)
(* What makes the boot work is that the semaphore is a memory of the       *)
(* driver's report: it is above 0 only if the handler has seen the access  *)
(* point up, whenever that was, and nothing resets it between the request  *)
(* and the wait.  The interceptor does not disturb it.                     *)
(***************************************************************************)
EXTENDS Dns, TLAPS

\* The semaphore is only given for a report of success.
SemRemembers == sem > 0 => upHandled

\* Nothing is requested before the step that requests it, and the wait comes
\* after the attempt at DHCP.
RequestedLate ==
  /\ pc \in {"sem_init", "register", "iface", "enable"} => ap = "off"
  /\ pc = "take" => dhcp # "off"

\* wifi_mgr_init returns after a request only from its wait.
ReturnsUp == InitReturned /\ ap # "off" => upHandled /\ dhcp # "off"

ThreadsLast == threads # {} => InitReturned

IInv == TypeOK /\ SemRemembers /\ RequestedLate /\ ReturnsUp /\ ThreadsLast

-----------------------------------------------------------------------------

LEMMA InitInv == Init => IInv
<1>1. Init => TypeOK
  <2>. SUFFICES ASSUME Init PROVE TypeOK
    OBVIOUS
  <2>1. events \in Seq({"ap_enabled", "ap_enable_failed", "ap_disabled",
                        "sta_connected", "sta_disconnected"})
    BY DEF Init
  <2>2. registered \in BOOLEAN /\ upHandled \in BOOLEAN
    BY DEF Init
  <2>3. sem \in 0 .. 1 /\ threads \subseteq Server
    BY DEF Init
  <2>4. /\ pc = "sem_init" /\ ret = "error" /\ ap = "off" /\ dhcp = "off"
    BY DEF Init
  <2>. QED BY <2>1, <2>2, <2>3, <2>4 DEF TypeOK
<1>. QED BY <1>1 DEF Init, IInv, SemRemembers, RequestedLate, ReturnsUp, ThreadsLast, InitReturned

LEMMA MainKeeps ==
  ASSUME IInv, MainStep
  PROVE  IInv'
<1>. USE DEF IInv, SemRemembers, RequestedLate, ReturnsUp, ThreadsLast, InitReturned, TypeOK, Server
<1>1. CASE SemInit
  BY <1>1 DEF SemInit
<1>2. CASE Register
  BY <1>2 DEF Register
<1>3. CASE GetInterface
  BY <1>3 DEF GetInterface
<1>4. CASE EnableApMode
  BY <1>4 DEF EnableApMode
<1>5. CASE DhcpServerStart
  BY <1>5 DEF DhcpServerStart
<1>6. CASE SemTake
  BY <1>6 DEF SemTake
<1>7. CASE DnsInterceptorStart
  BY <1>7 DEF DnsInterceptorStart
<1>8. CASE HttpServerStart
  BY <1>8 DEF HttpServerStart
<1>. QED BY <1>1, <1>2, <1>3, <1>4, <1>5, <1>6, <1>7, <1>8 DEF MainStep

\* A report changes nothing but the radio and the queue.
LEMMA DriverKeeps ==
  ASSUME IInv, ApResult \/ ApDown \/ ApBack \/ StationEvent
  PROVE  IInv'
<1>. DEFINE Event == {"ap_enabled", "ap_enable_failed", "ap_disabled",
                      "sta_connected", "sta_disconnected"}
<1>1. /\ ap \in {"starting", "up", "down"} /\ ap' \in {"up", "failed", "down"}
      /\ \E event \in Event : events' = Append(events, event)
      /\ UNCHANGED <<pc, ret, registered, sem, upHandled, dhcp, threads>>
  BY DEF ApResult, ApDown, ApBack, StationEvent, Driver, Report
<1>2. TypeOK'
  BY <1>1 DEF IInv, TypeOK
<1>. QED BY <1>1, <1>2 DEF IInv, SemRemembers, RequestedLate, ReturnsUp, ThreadsLast, InitReturned

LEMMA HandlerKeeps ==
  ASSUME IInv, HandleEvent
  PROVE  IInv'
<1>1. TypeOK'
  <2>1. events' \in Seq({"ap_enabled", "ap_enable_failed", "ap_disabled",
                         "sta_connected", "sta_disconnected"})
    BY DEF IInv, TypeOK, HandleEvent
  <2>2. UNCHANGED <<pc, ret, registered, ap, dhcp, threads>>
    BY DEF HandleEvent
  <2>3. sem' \in 0 .. 1
    BY DEF IInv, TypeOK, HandleEvent
  <2>4. upHandled' \in BOOLEAN
    BY DEF IInv, TypeOK, HandleEvent
  <2>. QED BY <2>1, <2>2, <2>3, <2>4 DEF IInv, TypeOK
<1>2. /\ UNCHANGED <<pc, ap, dhcp, threads>>
      /\ (sem' = 1 /\ upHandled' = TRUE) \/ UNCHANGED <<sem, upHandled>>
  BY DEF HandleEvent
<1>. QED BY <1>1, <1>2 DEF IInv, SemRemembers, RequestedLate, ReturnsUp, ThreadsLast, InitReturned

LEMMA NextInv == IInv /\ [Next]_vars => IInv'
<1>. SUFFICES ASSUME IInv, [Next]_vars PROVE IInv'
  OBVIOUS
<1>1. CASE Next
  BY <1>1, MainKeeps, DriverKeeps, HandlerKeeps DEF Next
<1>2. CASE UNCHANGED vars
  BY <1>2 DEF vars, IInv, TypeOK, SemRemembers, RequestedLate, ReturnsUp, ThreadsLast, InitReturned
<1>. QED BY <1>1, <1>2

\* The inductive invariant of the boot.
THEOREM BootInductive == Spec => []IInv
BY InitInv, NextInv, PTL DEF Spec

\* wifi_mgr.c: the semaphore never exceeds its limit of 1, and every variable
\* keeps its type.
THEOREM BootTypes == Spec => []TypeOK
<1>1. IInv => TypeOK
  BY DEF IInv
<1>. QED BY <1>1, BootInductive, PTL

\* main.c 17-26: no server thread exists before the driver reported the access
\* point that was requested, and DHCP was tried.
THEOREM ServersFollowAp == Spec => []ServersAfterAp
<1>1. IInv => ServersAfterAp
  BY DEF IInv, ThreadsLast, ReturnsUp, ServersAfterAp
<1>. QED BY <1>1, BootInductive, PTL

-----------------------------------------------------------------------------
(* The interceptor. *)

\* Each reply was built from a question that passed the thread's checks.
RepliesBuilt ==
  \A reply \in toStation :
    LET q == reply.query
    IN  reply = build_dns_response(q) /\ Answered(q)

\* A step of the device with the interceptor is a step of the boot, or none.
LEMMA StepOfBoot == DnsNext => [Next]_vars
<1>. SUFFICES ASSUME DnsNext, ~Next PROVE UNCHANGED vars
  OBVIOUS
<1>. QED BY DEF DnsNext, DnsOpen, DnsTurn, StationAsks, OtherTraffic, Arrives, StationReceives

\* main.c 17-26: with the interceptor's thread running and whatever comes over
\* the radio, the device boots as WifiBoot says, its fairness included: what
\* is true of the boot stays true.
THEOREM BootUndisturbed == DnsSpec => Spec
<1>1. DnsInit => Init
  BY DEF DnsInit
<1>2. [DnsNext]_<<vars, dnsVars>> => [Next]_vars
  BY StepOfBoot
<1>. QED BY <1>1, <1>2, PTL DEF DnsSpec, Spec

LEMMA BuiltFrom ==
  ASSUME NEW q
  PROVE  build_dns_response(q).query = q
BY DEF build_dns_response

LEMMA RepliesKept ==
  RepliesBuilt /\ [DnsNext]_<<vars, dnsVars>> => RepliesBuilt'
<1>. SUFFICES ASSUME RepliesBuilt, [DnsNext]_<<vars, dnsVars>> PROVE RepliesBuilt'
  OBVIOUS
<1>1. ASSUME toStation' \subseteq toStation PROVE RepliesBuilt'
  BY <1>1 DEF RepliesBuilt
<1>2. ASSUME NEW q \in toPort, DnsTurn(q) PROVE RepliesBuilt'
  <2>1. CASE Answered(q) /\ toStation' = InAir(build_dns_response(q))
    <3>1. toStation' \subseteq toStation \cup {build_dns_response(q)}
      BY <2>1 DEF InAir
    <3>. QED BY <2>1, <3>1, BuiltFrom DEF RepliesBuilt
  <2>2. CASE toStation' = toStation
    BY <2>2, <1>1
  <2>. QED BY <1>2, <2>1, <2>2 DEF DnsTurn
<1>3. CASE Next /\ UNCHANGED dnsVars
  BY <1>1, <1>3 DEF dnsVars
<1>4. CASE DnsOpen \/ StationAsks \/ OtherTraffic
  BY <1>1, <1>4 DEF DnsOpen, StationAsks, OtherTraffic, Arrives
<1>5. CASE StationReceives \/ Lost
  BY <1>1, <1>5 DEF StationReceives, Lost
<1>6. CASE UNCHANGED <<vars, dnsVars>>
  BY <1>1, <1>6 DEF dnsVars
<1>. QED BY <1>2, <1>3, <1>4, <1>5, <1>6 DEF DnsNext

\* A built reply answers an allowed question and can be read.
LEMMA BuiltIsRight == RepliesBuilt => OnlyAllowedAnswered
<1>. SUFFICES ASSUME RepliesBuilt, NEW reply \in toStation
              PROVE  /\ Allowed(reply.query) /\ ~reply.query.response
                     /\ Plain(reply.query) => reply.size <= DNS_BUF_SIZE /\ Reads(reply)
  BY DEF OnlyAllowedAnswered
<1>. DEFINE q == reply.query
<1>1. reply = build_dns_response(q) /\ Answered(q)
  BY DEF RepliesBuilt
<1>2. Allowed(q)
  BY <1>1 DEF Allowed, Answered, query_is_for_portal
<1>3. ASSUME Plain(q) PROVE reply.size <= DNS_BUF_SIZE /\ Reads(reply)
  <2>1. NameLen(q.labels) \in 0 .. DNS_NAME_MAX_LEN
    BY <1>1 DEF Answered, query_is_for_portal
  <2>2. NameEnd(q) = DNS_HEADER_LEN + NameLen(q.labels) + 1 + 1
    BY <1>3 DEF Plain, NameEnd
  <2>3. NameEnd(q) \in Nat /\ NameEnd(q) + 4 <= 12 + 64 + 2 + 4
    BY <2>1, <2>2 DEF DNS_HEADER_LEN, DNS_NAME_MAX_LEN
  <2>4. DNS_BUF_SIZE \in Nat /\ DNS_BUF_SIZE >= 12 + 64 + 2 + 4 + 16
    BY DnsAssumption DEF DNS_HEADER_LEN, DNS_NAME_MAX_LEN
  \* Such a datagram is received whole.
  <2>5. Size(q) = NameEnd(q) + 4
    BY <1>3, <2>3, <2>4 DEF Plain, Size
  <2>6. reply.size = Size(q) + 16 /\ reply.answerAt = Size(q)
    BY <1>1 DEF build_dns_response
  <2>. QED BY <2>3, <2>4, <2>5, <2>6 DEF Reads
<1>. QED BY <1>1, <1>2, <1>3 DEF Answered

\* dns.c 301-338: whatever reaches the port, only a question is ever answered whose
\* name, written with its dots and in lower case, is an allowed domain.  If it is
\* plain, with nothing behind its class, the reply fits its buffer and the answer
\* is where the reply's header says.
THEOREM AnswersOnlyAllowed == DnsSpec => []OnlyAllowedAnswered
<1>1. DnsInit => RepliesBuilt
  BY DEF DnsInit, RepliesBuilt
<1>. QED BY <1>1, RepliesKept, BuiltIsRight, PTL DEF DnsSpec

\* The servers start after the access point in this device, too.
THEOREM ServersStillFollowAp == DnsSpec => []ServersAfterAp
BY BootUndisturbed, ServersFollowAp, PTL

=============================================================================
