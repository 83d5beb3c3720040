------------------------------ MODULE WifiBoot ------------------------------
(***************************************************************************)
(* The start of the device: main of src/src/main.c, wifi_mgr_init with its *)
(* event handler (access-point/wifi/src/wifi_mgr.c), the start of the DHCP *)
(* server and of the threads of the DNS and HTTP servers.  The main thread *)
(* runs against the network management thread, which handles the events of *)
(* the Wi-Fi driver one by one.                                            *)
(*                                                                         *)
(* The driver is external: it accepts or refuses the request to enable the *)
(* access point and later reports whether it came up; stations come and go *)
(* while it is up.                                                         *)
(***************************************************************************)
EXTENDS Naturals, Sequences

CONSTANT MaxEvents    \* bound: events of the driver that wait to be handled

ASSUME BootAssumption == MaxEvents \in Nat \ {0}

VARIABLES
  pc,           \* the next step of the main thread
  ret,          \* ret of wifi_mgr_init: "error" or 0
  registered,   \* wifi_event_handler is in the list of callbacks
  sem,          \* ap_ready_sem
  ap,           \* the radio: "off", "starting", "up", "failed" or "down"
  events,       \* reported by the driver and not yet handled
  upHandled,    \* the handler has seen a successful AP_ENABLE_RESULT
  dhcp,         \* "off", "on" or "failed"
  threads       \* the servers' threads that were created

vars == <<pc, ret, registered, sem, ap, events, upHandled, dhcp, threads>>

Server == {"dns", "http", "https"}

-----------------------------------------------------------------------------

Init ==
  /\ pc = "sem_init"
  /\ ret = "error"
  /\ registered = FALSE
  /\ sem = 0
  /\ ap = "off"
  /\ events = <<>>
  /\ upHandled = FALSE
  /\ dhcp = "off"
  /\ threads = {}

-----------------------------------------------------------------------------
(* The main thread, in wifi_mgr_init after its five seconds' sleep. *)

\* k_sem_init(&ap_ready_sem, 0, 1); an error of it leaves at once.
SemInit ==
  /\ pc = "sem_init"
  /\ \/ ret' = "0" /\ sem' = 0 /\ pc' = "register"
     \/ ret' = "error" /\ pc' = "returned" /\ UNCHANGED sem
  /\ UNCHANGED <<registered, ap, events, upHandled, dhcp, threads>>

\* net_mgmt_add_event_callback.
Register ==
  /\ pc = "register"
  /\ registered' = TRUE
  /\ pc' = "iface"
  /\ UNCHANGED <<ret, sem, ap, events, upHandled, dhcp, threads>>

\* net_if_get_wifi_sap: without an interface the function returns the value
\* k_sem_init left in ret.
GetInterface ==
  /\ pc = "iface"
  /\ pc' \in {"enable", "returned"}
  /\ UNCHANGED <<ret, registered, sem, ap, events, upHandled, dhcp, threads>>

\* enable_ap_mode: no usable link address or a long SSID, or the driver
\* refuses; else the access point starts.
EnableApMode ==
  /\ pc = "enable"
  /\ \/ ret' = "error" /\ pc' = "returned" /\ UNCHANGED ap
     \/ ap' = "starting" /\ pc' = "dhcp" /\ UNCHANGED ret
  /\ UNCHANGED <<registered, sem, events, upHandled, dhcp, threads>>

\* A semaphore that is initialised only before the wait.
DhcpThenSemInit ==
  /\ pc = "dhcp"
  /\ dhcp' \in {"on", "failed"}
  /\ ret' = "0"
  /\ sem' = 0
  /\ pc' = "take"
  /\ UNCHANGED <<registered, ap, events, upHandled, threads>>

\* dhcp_server_start right after the request; its result is not looked at.
DhcpServerStart ==
  /\ pc = "dhcp"
  /\ dhcp' \in {"on", "failed"}
  /\ ret' = "0"
  /\ pc' = "take"
  /\ UNCHANGED <<registered, sem, ap, events, upHandled, threads>>

\* k_sem_take(&ap_ready_sem, K_FOREVER).
SemTake ==
  /\ pc = "take"
  /\ sem > 0
  /\ sem' = sem - 1
  /\ ret' = "0"
  /\ pc' = "returned"
  /\ UNCHANGED <<registered, ap, events, upHandled, dhcp, threads>>

\* main goes on whatever wifi_mgr_init returned.
DnsInterceptorStart ==
  /\ pc = "returned"
  /\ threads' = threads \cup {"dns"}
  /\ pc' = "http"
  /\ UNCHANGED <<ret, registered, sem, ap, events, upHandled, dhcp>>

HttpServerStart ==
  /\ pc = "http"
  /\ threads' = threads \cup {"http", "https"}
  /\ pc' = "done"
  /\ UNCHANGED <<ret, registered, sem, ap, events, upHandled, dhcp>>

MainStep ==
  \/ SemInit
  \/ Register
  \/ GetInterface
  \/ EnableApMode
  \/ DhcpServerStart
  \/ SemTake
  \/ DnsInterceptorStart
  \/ HttpServerStart

-----------------------------------------------------------------------------
(* The driver and the stations. *)

Report(event) == Len(events) < MaxEvents /\ events' = Append(events, event)

Driver(before, after, event) ==
  /\ ap = before
  /\ ap' = after
  /\ Report(event)
  /\ UNCHANGED <<pc, ret, registered, sem, upHandled, dhcp, threads>>

ApResult ==
  \/ Driver("starting", "up", "ap_enabled")
  \/ Driver("starting", "failed", "ap_enable_failed")

\* The driver may take the access point down and bring it up again.
ApDown == Driver("up", "down", "ap_disabled")
ApBack == Driver("down", "up", "ap_enabled")

StationEvent ==
  \/ Driver("up", "up", "sta_connected")
  \/ Driver("up", "up", "sta_disconnected")

-----------------------------------------------------------------------------
(* The network management thread. *)

\* A semaphore without a limit.
HandleEventUnlimited ==
  /\ events # <<>>
  /\ events' = Tail(events)
  /\ IF registered /\ Head(events) = "ap_enabled"
     THEN sem' = sem + 1 /\ upHandled' = TRUE
     ELSE UNCHANGED <<sem, upHandled>>
  /\ UNCHANGED <<pc, ret, registered, ap, dhcp, threads>>

\* A handler that gives the semaphore whatever the status is.
HandleEventAnyStatus ==
  /\ events # <<>>
  /\ events' = Tail(events)
  /\ IF registered /\ Head(events) \in {"ap_enabled", "ap_enable_failed"}
     THEN sem' = 1 /\ upHandled' = (upHandled \/ Head(events) = "ap_enabled")
     ELSE UNCHANGED <<sem, upHandled>>
  /\ UNCHANGED <<pc, ret, registered, ap, dhcp, threads>>

\* wifi_event_handler: only a successful AP_ENABLE_RESULT does more than log;
\* k_sem_give stops at the limit of 1.
HandleEvent ==
  /\ events # <<>>
  /\ events' = Tail(events)
  /\ IF registered /\ Head(events) = "ap_enabled"
     THEN sem' = 1 /\ upHandled' = TRUE
     ELSE UNCHANGED <<sem, upHandled>>
  /\ UNCHANGED <<pc, ret, registered, ap, dhcp, threads>>

-----------------------------------------------------------------------------

Next ==
  \/ MainStep
  \/ ApResult
  \/ ApDown
  \/ ApBack
  \/ StationEvent
  \/ HandleEvent

\* Both threads are scheduled while they can move, and the driver reports the
\* outcome of a request it accepted.
Fairness ==
  /\ WF_vars(MainStep)
  /\ WF_vars(HandleEvent)
  /\ WF_vars(ApResult)

Spec == Init /\ [][Next]_vars /\ Fairness

-----------------------------------------------------------------------------

\* wifi_mgr_init has returned.
InitReturned == pc \in {"returned", "http", "done"}

\* Types; the semaphore stays within its limit.
TypeOK ==
  /\ pc \in {"sem_init", "register", "iface", "enable", "dhcp", "take",
             "returned", "http", "done"}
  /\ ret \in {"error", "0"}
  /\ registered \in BOOLEAN
  /\ sem \in 0 .. 1
  /\ ap \in {"off", "starting", "up", "failed", "down"}
  /\ events \in Seq({"ap_enabled", "ap_enable_failed", "ap_disabled",
                     "sta_connected", "sta_disconnected"})
  /\ upHandled \in BOOLEAN
  /\ dhcp \in {"off", "on", "failed"}
  /\ threads \subseteq Server

\* If the request to enable the access point was accepted, the servers start
\* only after the driver reported that it is up, and after an attempt to
\* start the DHCP server: however early that report comes.
ServersAfterAp ==
  threads # {} /\ ap # "off" => upHandled /\ dhcp # "off"

\* The report that the access point is up is never lost between the request
\* and the wait for it: the boot ends with all servers started, unless the
\* driver reports a failure.
BootCompletes == <>(threads = Server \/ ap = "failed")

\* wifi_mgr.h: "Block until NET_EVENT_WIFI_AP_ENABLE_RESULT is received" and
\* "negative error code on failure": the function returns once the driver has
\* reported the outcome, whatever it is.
FailureReturns == ap = "failed" ~> InitReturned

=============================================================================
