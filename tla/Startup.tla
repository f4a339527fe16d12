------------------------------ MODULE Startup ------------------------------
(***************************************************************************)
(* From reset to the main loop: azure_thread_entry (app/main.c) with the   *)
(* network bring-up of each board, sntp_start and sample_entry call by     *)
(* call, together with the SNTP thread of SntpClient, which takes all of   *)
(* it up to the wait for the time as one step.                             *)
(*                                                                         *)
(* A board's bring-up is a ladder of calls; each creates an object or      *)
(* enables something on one, and each failure has a clean-up of its own.   *)
(* The three ladders are platform_init (MXChip), stm32_network_init        *)
(* (STM32L4) and network_init of the common code, which neither board of   *)
(* this repository compiles in.                                            *)
(***************************************************************************)
EXTENDS SntpClient, Sequences

VARIABLES
  board,    \* which ladder
  step,     \* the call to be made next
  live,     \* the objects that exist
  misused,  \* history: the calls made, or clean-ups begun, on objects not fit for it
  resolver  \* the name server the DNS client was given, "garbage" if no use

bootVars == <<board, step, live, misused, resolver>>
allVars == <<bootVars, vars>>

Objects == {"txPool", "rxPool", "ip", "dhcp", "dns", "flags", "mutex", "iot"}

FirstCall == [mxchip |-> "txPool", stm32 |-> "wifiOn", common |-> "txPool"]

\* The call after each; one that is named like an object creates it.
NextCall ==
  [mxchip |->
     [txPool |-> "rxPool", rxPool |-> "wifiOn", wifiOn |-> "join", join |-> "ip", ip |-> "arp",
      arp |-> "icmp", icmp |-> "tcp", tcp |-> "udp", udp |-> "dhcp", dhcp |-> "dhcpWait",
      dhcpWait |-> "dns", dns |-> "dnsPool", dnsPool |-> "dnsServer", dnsServer |-> "flags"],
   stm32 |->
     [wifiOn |-> "join", join |-> "address", address |-> "txPool", txPool |-> "ip",
      ip |-> "nxWifi", nxWifi |-> "dns", dns |-> "dnsPool", dnsPool |-> "dnsAddress",
      dnsAddress |-> "dnsServer", dnsServer |-> "flags"],
   common |->
     [txPool |-> "ip", ip |-> "arp", arp |-> "tcp", tcp |-> "udp", udp |-> "icmp",
      icmp |-> "dhcp", dhcp |-> "dhcpWait", dhcpWait |-> "dns", dns |-> "dnsPool",
      dnsPool |-> "dnsServer", dnsServer |-> "flags"]]

Calls(b) == DOMAIN NextCall[b]

\* The objects without which a call fails, because NetX looks at them: not the
\* packet pool of an IP instance that exists.
Needs(c) ==
  CASE c = "ip" -> {"txPool"}
    [] c \in {"arp", "icmp", "tcp", "udp", "nxWifi", "dhcp", "dhcpWait", "dns"} -> {"ip"}
    [] c \in {"dnsPool", "dnsAddress", "dnsServer"} -> {"ip", "dns"}
    [] c = "iot" -> {"ip", "dns"}
    [] OTHER -> {}

\* An object is not to be deleted while these use it.
Users == [txPool |-> {"ip"}, rxPool |-> {"ip"}, ip |-> {"dhcp", "dns"}, dhcp |-> {}, dns |-> {}]

\* Mutated form: the DHCP client is left behind.
CleanUpWithoutDhcp(b, c) ==
  CASE c = "rxPool" \/ (c = "ip" /\ b # "mxchip") -> <<"txPool">>
    [] c \in {"wifiOn", "ip"} /\ b = "mxchip" -> <<"txPool", "rxPool">>
    [] c \in {"arp", "icmp", "tcp", "udp", "nxWifi", "dns"} ->
         IF b = "mxchip" THEN <<"ip", "txPool", "rxPool">> ELSE <<"ip", "txPool">>
    [] c \in {"dnsPool", "dnsAddress", "dnsServer"} ->
         IF b = "mxchip" THEN <<"dns", "ip", "txPool", "rxPool">> ELSE <<"dns", "ip", "txPool">>
    [] OTHER -> <<>>

\* What is deleted, in this order, when call c fails.
CleanUp(b, c) ==
  CASE b = "mxchip" ->
         (CASE c = "rxPool" -> <<"txPool">>
            [] c \in {"wifiOn", "ip"} -> <<"txPool", "rxPool">>
            [] c \in {"arp", "icmp", "tcp", "udp"} -> <<"ip", "txPool", "rxPool">>
            [] c = "dns" -> <<"dhcp", "ip", "txPool", "rxPool">>
            [] c \in {"dnsPool", "dnsServer"} -> <<"dns", "dhcp", "ip", "txPool", "rxPool">>
            [] OTHER -> <<>>)
    [] b = "stm32" ->
         (CASE c = "ip" -> <<"txPool">>
            [] c \in {"nxWifi", "dns"} -> <<"ip", "txPool">>
            [] c \in {"dnsPool", "dnsAddress", "dnsServer"} -> <<"dns", "ip", "txPool">>
            [] OTHER -> <<>>)
    [] b = "common" ->
         (CASE c = "ip" -> <<"txPool">>
            [] c \in {"arp", "icmp", "tcp", "udp"} -> <<"ip", "txPool">>
            [] c = "dns" -> <<"dhcp", "ip", "txPool">>
            [] c \in {"dnsPool", "dnsServer"} -> <<"dns", "dhcp", "ip", "txPool">>
            [] OTHER -> <<>>)

Before(s, i) == {s[j] : j \in 1..(i - 1)}

\* Nothing that uses the object is left when its turn comes.
Unused(s, i) == Users[s[i]] \cap live \subseteq Before(s, i)

\* nx_ip_delete refuses an instance with sockets bound to it, which the DHCP and
\* DNS clients have; any other object goes, whatever uses it.
Gone(s) == {s[i] : i \in {j \in 1..Len(s) : s[j] = "ip" => Unused(s, j)}}

\* Every object of the sequence exists, and is unused, when its turn comes.
InOrder(s) == \A i \in 1..Len(s) : s[i] \in live \ Before(s, i) /\ Unused(s, i)

\* The clean-up after call c: no result of a deletion is looked at.
Delete(c, s) ==
  /\ live' = live \ Gone(s)
  /\ misused' = IF InOrder(s) /\ Needs(c) \subseteq live THEN misused ELSE misused \cup {c}

-----------------------------------------------------------------------------
(***************************************************************************)
(* The bring-up.  A join that fails is tried again for ever.               *)
(***************************************************************************)
InBringUp == app = "boot" /\ step \in Calls(board)

\* Only the MXChip's code can take an uninitialized name server; without the packet
\* pool it is up to the library whether a query gets a packet.
CallSucceeds ==
  /\ InBringUp
  /\ Needs(step) \subseteq live
  /\ live' = live \cup ({step} \cap Objects)
  /\ step' = NextCall[board][step]
  /\ IF step = "dnsServer"
     THEN resolver' \in IF board = "mxchip" \/ "txPool" \notin live
                        THEN {"offered", "garbage"} ELSE {"offered"}
     ELSE UNCHANGED resolver
  /\ UNCHANGED <<board, misused, vars>>

\* Mutated form: a failure is cleaned up after and not returned.
FailureNotReturned ==
  /\ InBringUp
  /\ step \notin {"join", "dhcp", "dhcpWait"}
  /\ Delete(step, CleanUp(board, step))
  /\ step' = "flags"
  /\ Fault
  /\ UNCHANGED <<board, resolver, app, thread, client, server, flags, events, timeSet, valid>>

\* A call fails by itself or, because NetX checks its arguments, on an object
\* that is gone.
CallFails ==
  /\ InBringUp
  /\ step \notin {"join", "dhcp", "dhcpWait"}
  /\ Delete(step, CleanUp(board, step))
  /\ step' = "platformFailed"
  /\ app' = "returned"
  /\ Fault
  /\ UNCHANGED <<board, resolver, thread, client, server, flags, events, timeSet, valid>>

\* The results of nx_dhcp_create and nx_dhcp_start are not looked at, and
\* without a DHCP client the wait for an address never ends.
DhcpFails ==
  /\ InBringUp
  /\ step = "dhcp"
  /\ live' \in {live, live \cup {"dhcp"}}
  /\ step' = "dhcpHung"
  /\ UNCHANGED <<board, misused, resolver, vars>>

\* In the common code a wait that fails is cleaned up after, and the bring-up goes
\* on.  The DHCP client, if there is one, stays, and with it the IP instance.
DhcpWaitFails ==
  /\ app = "boot"
  /\ step \in {"dhcpWait", "dhcpHung"}
  /\ board = "common"
  /\ Delete("dhcpWait", <<"ip", "txPool">>)
  /\ step' = "dns"
  /\ UNCHANGED <<board, resolver, vars>>

-----------------------------------------------------------------------------
(***************************************************************************)
(* sntp_start.  Flags that cannot be created are reported as success, and  *)
(* the wait for them fails at once; so every failure ends the thread.      *)
(***************************************************************************)
\* Mutated form: the mutex is followed by a call that nobody makes.
AfterSntpCallAstray == [flags |-> "mutex", mutex |-> "start"]

AfterSntpCall == [flags |-> "mutex", mutex |-> "thread"]

SntpCallSucceeds ==
  /\ app = "boot"
  /\ step \in {"flags", "mutex"}
  /\ live' = live \cup {step}
  /\ step' = AfterSntpCall[step]
  /\ UNCHANGED <<board, misused, resolver, vars>>

\* Mutated form: the result of tx_thread_create is ignored.
ThreadTakenForCreated ==
  /\ app = "boot"
  /\ step = "thread"
  /\ step' = "components"
  /\ app' = "waiting"
  /\ Fault
  /\ UNCHANGED <<board, live, misused, resolver, thread, client, server, flags, events,
                 timeSet, valid>>

SntpCallFails ==
  /\ app = "boot"
  /\ step \in {"flags", "mutex", "thread"}
  /\ step' = "sntpFailed"
  /\ app' = "returned"
  /\ Fault
  /\ UNCHANGED <<board, live, misused, resolver, thread, client, server, flags, events,
                 timeSet, valid>>

\* Mutated form: the sample is started without waiting for the time.
StartWithoutTime ==
  /\ app = "boot"
  /\ step = "thread"
  /\ step' = "components"
  /\ app' = "sample"
  /\ thread' = "start"
  /\ UNCHANGED <<board, live, misused, resolver, client, server, flags, events, timeSet,
                 valid, faults>>

SntpThreadCreated ==
  /\ app = "boot"
  /\ step = "thread"
  /\ step' = "components"
  /\ app' = "waiting"
  /\ thread' = "start"
  /\ UNCHANGED <<board, live, misused, resolver, client, server, flags, events, timeSet,
                 valid, faults>>

-----------------------------------------------------------------------------
(***************************************************************************)
(* sample_entry, up to the main loop.                                      *)
(***************************************************************************)
AfterSampleCall == [components |-> "iot", iot |-> "rootCertificate", rootCertificate |-> "loop"]

SampleCallSucceeds ==
  /\ app = "sample"
  /\ step \in DOMAIN AfterSampleCall
  /\ Needs(step) \subseteq live
  /\ live' = live \cup ({step} \cap Objects)
  /\ step' = AfterSampleCall[step]
  /\ UNCHANGED <<board, misused, resolver, vars>>

SampleCallFails ==
  /\ app = "sample"
  /\ step \in DOMAIN AfterSampleCall
  /\ live' = live \ (IF step = "rootCertificate" THEN {"iot"} ELSE {})
  /\ step' = "ended"
  /\ UNCHANGED <<board, misused, resolver, vars>>

-----------------------------------------------------------------------------
BootInit ==
  /\ Init
  /\ board \in DOMAIN FirstCall
  /\ step = FirstCall[board]
  /\ live = {}
  /\ misused = {}
  /\ resolver = "none"

\* The SNTP thread and library; with a garbage name server no name is ever resolved.
Sntp(A) ==
  /\ A
  /\ resolver = "garbage" => server' = server /\ client' # "running"
  /\ UNCHANGED bootVars

AzureThreadBoot ==
  \/ CallSucceeds
  \/ CallFails
  \/ DhcpFails
  \/ SntpCallSucceeds
  \/ SntpCallFails
  \/ SntpThreadCreated
  \/ Sntp(sntp_sync_wait)
  \/ SampleCallSucceeds
  \/ SampleCallFails

BootNext ==
  \/ AzureThreadBoot
  \/ DhcpWaitFails
  \/ Sntp(SntpThread)
  \/ Sntp(time_update_callback)
  \/ Sntp(ServerFallsSilent)

BootSpec == BootInit /\ [][BootNext]_allVars

\* As for SntpClient; the network the device is set up for lets it join in the end.
BootFairness ==
  /\ WF_allVars(AzureThreadBoot)
  /\ WF_allVars(Sntp(SntpThread))
  /\ SF_allVars(Sntp(time_update_callback))

BootFairSpec == BootSpec /\ BootFairness

-----------------------------------------------------------------------------
(***************************************************************************)
(* Properties.                                                             *)
(***************************************************************************)

\* Every variable of the bring-up has a value the program can give it.
BootTypeOK ==
  /\ board \in DOMAIN FirstCall
  /\ step \in Calls(board) \cup {"dhcpHung", "platformFailed", "flags", "mutex", "thread",
                                 "sntpFailed", "components", "iot", "rootCertificate", "loop",
                                 "ended"}
  /\ live \subseteq Objects
  /\ misused \subseteq Calls(board)
  /\ resolver \in {"none", "offered", "garbage"}

\* A bring-up that fails, wherever it fails, has deleted all that it created,
\* each object once and only after those that use it.  The one exception is the
\* common code after a failed wait for an address, which has deleted the packet
\* pool by then, under an IP instance that stayed.
FailedBringUpCleansUp ==
  /\ step = "platformFailed" => live = {}
  /\ board # "common" => misused = {}

\* The SNTP thread resolves names, and the sample connects, over an IP instance
\* and a DNS client that are there for as long as either may run.  So is the packet
\* pool, except in the common code: when the wait for an address fails there, the
\* pool is deleted, the IP instance refuses to be, and the bring-up may succeed.
NetworkOutlivesItsUsers ==
  thread \notin {"none", "ended"} \/ app = "sample" =>
    /\ {"ip", "dns", "flags"} \subseteq live
    /\ "txPool" \in live \/ (board = "common" /\ "dhcpWait" \in misused)

\* The sample runs only on a device that can resolve names: with the
\* uninitialized server address, which the MXChip takes when DHCP offered none,
\* it never gets past the wait for the time.
SampleCanResolve == app = "sample" => resolver = "offered"

\* Start-up, with the bring-up in it, is what SntpClient takes it for.
ImplementsSntpClient == Spec

\* The start ends: the sample's loop runs or the thread returns, except when DHCP
\* failed unnoticed, and when the SNTP thread gave up or lost its client before
\* the first time came, for which the application waits for ever.
StartDecided ==
  <>(step \in {"loop", "ended", "platformFailed", "sntpFailed", "dhcpHung"}
     \/ thread = "ended" \/ client = "deleted")
=============================================================================
