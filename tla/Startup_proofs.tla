--------------------------- MODULE Startup_proofs ---------------------------
(***************************************************************************)
(* Proofs about Startup, for every number of servers and of failures.      *)
(***************************************************************************)
EXTENDS Startup, SntpClient_proofs

\* Call by call, start-up does what the one step Start of SntpClient says: the
\* SNTP thread begins when all of it succeeded, or the application returns.
THEOREM BootImplements == BootSpec => ImplementsSntpClient
<1>1. BootInit => Init
  BY DEF BootInit
<1>2. [BootNext]_allVars => [Next]_vars
  <2> SUFFICES ASSUME [BootNext]_allVars PROVE Next \/ UNCHANGED vars
    OBVIOUS
  <2>1. CASE CallFails \/ SntpCallFails
    <3>1. Start
      BY <2>1 DEF CallFails, SntpCallFails, InBringUp, Start
    <3>2. QED
      BY <3>1 DEF Next, AzureThread
  <2>2. CASE SntpThreadCreated
    <3>1. Start
      BY <2>2 DEF SntpThreadCreated, Start, NoFault
    <3>2. QED
      BY <3>1 DEF Next, AzureThread
  <2>3. CASE \/ CallSucceeds \/ DhcpFails \/ DhcpWaitFails \/ SntpCallSucceeds
             \/ SampleCallSucceeds \/ SampleCallFails
    BY <2>3 DEF CallSucceeds, DhcpFails, DhcpWaitFails, SntpCallSucceeds, SampleCallSucceeds,
       SampleCallFails
  <2>4. CASE Sntp(sntp_sync_wait) \/ Sntp(SntpThread) \/ Sntp(time_update_callback)
             \/ Sntp(ServerFallsSilent)
    BY <2>4 DEF Sntp, Next, AzureThread
  <2>5. CASE UNCHANGED allVars
    BY <2>5 DEF allVars
  <2>6. QED
    BY <2>1, <2>2, <2>3, <2>4, <2>5 DEF BootNext, AzureThreadBoot
<1>3. QED
  BY <1>1, <1>2, PTL DEF BootSpec, Spec, ImplementsSntpClient

\* Hence the sample waits for a time with the bring-up in it as well.
THEOREM TimeBeforeSampleAtBoot == BootSpec => []StartsWithTime
  BY BootImplements, TimeBeforeSample, PTL DEF ImplementsSntpClient

-----------------------------------------------------------------------------
(***************************************************************************)
(* The network under the threads.                                          *)
(***************************************************************************)

Started == app \in {"waiting", "sample"} \/ thread \notin {"none", "ended"}

\* The pool is gone only if the common code's wait for an address failed.
PoolOrException == "txPool" \in live \/ (board = "common" /\ "dhcpWait" \in misused)

\* What sntp_start and everything after it finds.
NetworkInv ==
  /\ app \in {"boot", "waiting", "sample", "returned"}
  /\ board \in {"mxchip", "stm32", "common"}
  /\ app = "boot" => thread = "none" /\ flags = {} /\ client = "none"
  /\ app = "boot" /\ "ip" \in live => PoolOrException
  /\ app = "boot" /\ step \in {"flags", "mutex", "thread"} =>
       {"ip", "dns"} \subseteq live /\ resolver # "none"
  /\ app = "boot" /\ step \in {"mutex", "thread"} => "flags" \in live
  /\ Started => {"ip", "dns", "flags"} \subseteq live /\ PoolOrException /\ resolver # "none"
  /\ app = "returned" => thread = "none"

\* With the garbage address the SNTP thread gets no further than its first run.
GarbageInv ==
  resolver = "garbage" =>
    /\ thread \in {"none", "start", "firstRun", "ended"}
    /\ client \notin {"running"}
    /\ flags = {}
    /\ app # "sample"

BootInv == NetworkInv /\ GarbageInv

\* The SNTP thread and the wait change no object, and start nothing that was not
\* started.
LEMMA SntpKeepsNetwork ==
  ASSUME BootInv,
         Sntp(sntp_sync_wait) \/ Sntp(SntpThread) \/ Sntp(time_update_callback)
           \/ Sntp(ServerFallsSilent)
  PROVE  BootInv'
<1> USE DEF BootInv, NetworkInv, GarbageInv, Started, PoolOrException, Sntp, bootVars
<1>1. CASE Sntp(sntp_sync_wait)
  BY <1>1 DEF sntp_sync_wait
<1>2. CASE Sntp(time_update_callback) \/ Sntp(ServerFallsSilent)
  BY <1>2 DEF time_update_callback, ServerFallsSilent
<1>3. CASE Sntp(SntpThread)
  <2>1. CASE CreateClient
    BY <1>3, <2>1 DEF CreateClient
  <2>2. CASE FirstRun
    <3>1. thread = "firstRun" /\ thread' \in {"wait", "ended"} /\ UNCHANGED <<app, flags>>
      BY <2>2 DEF FirstRun
    <3>2. CASE RunSucceeds
      <4>1. resolver # "garbage"
        BY <1>3, <3>2 DEF RunSucceeds
      <4>2. QED
        BY <1>3, <2>2, <3>1, <3>2, <4>1 DEF FirstRun, RunSucceeds
    <3>3. CASE ~RunSucceeds
      BY <1>3, <2>2, <3>1, <3>3 DEF FirstRun, NameNotResolved, RunFails
    <3>4. QED
      BY <3>2, <3>3
  <2>3. CASE WaitForUpdate
    BY <1>3, <2>3 DEF WaitForUpdate
  <2>4. CASE CheckFails \/ Restart
    BY <1>3, <2>4 DEF CheckFails, Restart
  <2>5. CASE StoreTime
    BY <1>3, <2>5 DEF StoreTime
  <2>6. QED
    BY <1>3, <2>1, <2>2, <2>3, <2>4, <2>5 DEF SntpThread
<1>4. QED
  BY <1>1, <1>2, <1>3

\* The network under the SNTP thread and under the sample is never taken away,
\* whatever fails, and on every board.
THEOREM NetworkInvariance == BootSpec => []BootInv
<1>1. BootInit => BootInv
  BY DEF BootInit, Init, BootInv, NetworkInv, GarbageInv, Started, FirstCall
<1>2. BootInv /\ [BootNext]_allVars => BootInv'
  <2> SUFFICES ASSUME BootInv, [BootNext]_allVars PROVE BootInv'
    OBVIOUS
  <2> USE DEF BootInv, NetworkInv, GarbageInv, Started, PoolOrException, vars
  <2>1. CASE CallSucceeds
    <3>1. app = "boot" /\ UNCHANGED <<board, misused, vars>> /\ Needs(step) \subseteq live
          /\ live' = live \cup ({step} \cap Objects) /\ step' = NextCall[board][step]
      BY <2>1 DEF CallSucceeds, InBringUp
    <3>2. step \in Calls(board)
      BY <2>1 DEF CallSucceeds, InBringUp
    <3>3. "ip" \in live' => PoolOrException'
      <4>1. CASE step = "ip"
        BY <3>1, <4>1 DEF Needs
      <4>2. CASE step # "ip"
        BY <3>1, <4>2
      <4>3. QED
        BY <4>1, <4>2
    <3>4. step' \in {"flags", "mutex", "thread"} => step = "dnsServer" /\ step' = "flags"
      <4>1. CASE board = "mxchip"
        BY <3>1, <3>2, <4>1 DEF NextCall, Calls
      <4>2. CASE board = "stm32"
        BY <3>1, <3>2, <4>2 DEF NextCall, Calls
      <4>3. CASE board = "common"
        BY <3>1, <3>2, <4>3 DEF NextCall, Calls
      <4>4. QED
        BY <4>1, <4>2, <4>3
    <3>5. step = "dnsServer" => {"ip", "dns"} \subseteq live /\ resolver' \in {"offered", "garbage"}
      BY <2>1, <3>1 DEF Needs, CallSucceeds
    <3>6. GarbageInv'
      BY <3>1
    <3>7. QED
      BY <3>1, <3>3, <3>4, <3>5, <3>6
  <2>2. CASE CallFails \/ SntpCallFails
    BY <2>2 DEF CallFails, SntpCallFails, InBringUp
  <2>3. CASE DhcpFails
    BY <2>3 DEF DhcpFails, InBringUp
  <2>4. CASE DhcpWaitFails
    <3> DEFINE s == <<"ip", "txPool">>
    <3>1. /\ board = "common" /\ app = "boot" /\ step' = "dns" /\ Delete("dhcpWait", s)
          /\ UNCHANGED <<board, resolver, vars>>
      BY <2>4 DEF DhcpWaitFails
    <3>2. Len(s) = 2 /\ s[1] = "ip"
      OBVIOUS
    <3> HIDE DEF s
    <3>3. CASE Unused(s, 1)
      BY <3>1, <3>2, <3>3 DEF Delete, Gone
    <3>4. CASE ~Unused(s, 1)
      BY <3>1, <3>2, <3>4 DEF Delete, InOrder
    <3>5. QED
      BY <3>1, <3>3, <3>4
  <2>5. CASE SntpCallSucceeds
    BY <2>5 DEF SntpCallSucceeds, AfterSntpCall
  <2>6. CASE SntpThreadCreated
    BY <2>6 DEF SntpThreadCreated
  <2>7. CASE SampleCallSucceeds \/ SampleCallFails
    BY <2>7 DEF SampleCallSucceeds, SampleCallFails
  <2>8. CASE Sntp(sntp_sync_wait) \/ Sntp(SntpThread) \/ Sntp(time_update_callback)
             \/ Sntp(ServerFallsSilent)
    BY <2>8, SntpKeepsNetwork
  <2>9. CASE UNCHANGED allVars
    BY <2>9 DEF allVars, bootVars
  <2>10. QED
    BY <2>1, <2>2, <2>3, <2>4, <2>5, <2>6, <2>7, <2>8, <2>9 DEF BootNext, AzureThreadBoot
<1>3. QED
  BY <1>1, <1>2, PTL DEF BootSpec

\* Both threads have their IP instance and DNS client for as long as they may run,
\* and their packet pool unless the common code's wait for an address failed.
THEOREM NetworkStays == BootSpec => []NetworkOutlivesItsUsers
<1>1. BootInv => NetworkOutlivesItsUsers
  BY DEF BootInv, NetworkInv, Started, PoolOrException, NetworkOutlivesItsUsers
<1>2. QED
  BY <1>1, NetworkInvariance, PTL

\* The values the address of the name server takes.
ResolverInv == resolver \in {"none", "offered", "garbage"}

\* A device that took an uninitialized server address never starts the sample.
THEOREM OnlyResolvingSamples == BootSpec => []SampleCanResolve
<1>1. BootInv /\ ResolverInv => SampleCanResolve
  BY DEF BootInv, NetworkInv, GarbageInv, Started, SampleCanResolve, ResolverInv
<1>2. BootInit => ResolverInv
  BY DEF BootInit, ResolverInv
<1>3. ResolverInv /\ [BootNext]_allVars => ResolverInv'
  BY DEF BootNext, AzureThreadBoot, allVars, bootVars, CallSucceeds, CallFails, DhcpFails,
     DhcpWaitFails, SntpCallSucceeds, SntpCallFails, SntpThreadCreated, SampleCallSucceeds,
     SampleCallFails, Sntp, ResolverInv
<1>4. QED
  BY <1>1, <1>2, <1>3, NetworkInvariance, PTL DEF BootSpec

-----------------------------------------------------------------------------
(***************************************************************************)
(* The ladders of the bring-up.                                            *)
(***************************************************************************)

\* The objects that exist when call c of board b is to be made.
Made(b, c) ==
  CASE b = "mxchip" ->
         (CASE c = "txPool" -> {}
            [] c = "rxPool" -> {"txPool"}
            [] c \in {"wifiOn", "join", "ip"} -> {"txPool", "rxPool"}
            [] c \in {"arp", "icmp", "tcp", "udp", "dhcp"} -> {"txPool", "rxPool", "ip"}
            [] c \in {"dhcpWait", "dns"} -> {"txPool", "rxPool", "ip", "dhcp"}
            [] c \in {"dnsPool", "dnsServer"} -> {"txPool", "rxPool", "ip", "dhcp", "dns"})
    [] b = "stm32" ->
         (CASE c \in {"wifiOn", "join", "address", "txPool"} -> {}
            [] c = "ip" -> {"txPool"}
            [] c \in {"nxWifi", "dns"} -> {"txPool", "ip"}
            [] c \in {"dnsPool", "dnsAddress", "dnsServer"} -> {"txPool", "ip", "dns"})
    [] b = "common" ->
         (CASE c = "txPool" -> {}
            [] c = "ip" -> {"txPool"}
            [] c \in {"arp", "icmp", "tcp", "udp", "dhcp"} -> {"txPool", "ip"}
            [] c \in {"dhcpWait", "dns"} -> {"txPool", "ip", "dhcp"}
            [] c \in {"dnsPool", "dnsServer"} -> {"txPool", "ip", "dhcp", "dns"})

\* The common code has deleted the pool already when it goes on after a failed wait
\* for an address, and the IP instance too if there was no DHCP client.
LadderInv ==
  /\ app = "boot" /\ step \in Calls(board) =>
       \/ live = Made(board, step)
       \/ /\ board = "common"
          /\ step \in {"dns", "dnsPool", "dnsServer"}
          /\ live \subseteq Made(board, step) \ {"txPool"}
  /\ board = "common" /\ step = "dhcpHung" => live \subseteq Made(board, "dhcpWait")
  /\ step = "platformFailed" => live = {}
  /\ board # "common" => misused = {}

\* Every call leaves one of the three ladders at its end only.
LEMMA CallsAre ==
  /\ Calls("mxchip") = {"txPool", "rxPool", "wifiOn", "join", "ip", "arp", "icmp", "tcp", "udp",
                        "dhcp", "dhcpWait", "dns", "dnsPool", "dnsServer"}
  /\ Calls("stm32") = {"wifiOn", "join", "address", "txPool", "ip", "nxWifi", "dns", "dnsPool",
                       "dnsAddress", "dnsServer"}
  /\ Calls("common") = {"txPool", "ip", "arp", "tcp", "udp", "icmp", "dhcp", "dhcpWait", "dns",
                        "dnsPool", "dnsServer"}
  BY DEF Calls, NextCall

\* The call after one that succeeded finds what it created.
LEMMA Climbs ==
  ASSUME NEW b \in DOMAIN FirstCall, NEW c \in Calls(b)
  PROVE  /\ NextCall[b][c] \in Calls(b) \cup {"flags"}
         /\ NextCall[b][c] \in Calls(b) => Made(b, NextCall[b][c]) = Made(b, c) \cup ({c} \cap Objects)
<1> DEFINE n == NextCall[b][c]
<1>1. b \in {"mxchip", "stm32", "common"}
  BY DEF FirstCall
<1>2. {c} \cap Objects = IF c \in Objects THEN {c} ELSE {}
  OBVIOUS
<1>3. CASE b = "mxchip"
  <2>1. /\ c = "txPool" => n = "rxPool"
        /\ c = "rxPool" => n = "wifiOn"
        /\ c = "wifiOn" => n = "join"
        /\ c = "join" => n = "ip"
        /\ c = "ip" => n = "arp"
        /\ c = "arp" => n = "icmp"
        /\ c = "icmp" => n = "tcp"
        /\ c = "tcp" => n = "udp"
        /\ c = "udp" => n = "dhcp"
        /\ c = "dhcp" => n = "dhcpWait"
        /\ c = "dhcpWait" => n = "dns"
        /\ c = "dns" => n = "dnsPool"
        /\ c = "dnsPool" => n = "dnsServer"
        /\ c = "dnsServer" => n = "flags"
    BY <1>3 DEF NextCall
  <2> HIDE DEF n
  <2>2. n \in Calls(b) \cup {"flags"}
    BY <1>3, <2>1, CallsAre
  <2>3. c = "txPool" => Made(b, n) = Made(b, c) \cup {c}
    BY <1>3, <2>1 DEF Made
  <2>4. c = "rxPool" => Made(b, n) = Made(b, c) \cup {c}
    BY <1>3, <2>1 DEF Made
  <2>5. c = "ip" => Made(b, n) = Made(b, c) \cup {c}
    BY <1>3, <2>1 DEF Made
  <2>6. c = "dhcp" => Made(b, n) = Made(b, c) \cup {c}
    BY <1>3, <2>1 DEF Made
  <2>7. c = "dns" => Made(b, n) = Made(b, c) \cup {c}
    BY <1>3, <2>1 DEF Made
  <2>8. c \in Calls(b) \cap Objects => c \in {"txPool", "rxPool", "ip", "dhcp", "dns"}
    BY <1>3, CallsAre DEF Objects
  <2>9. c \notin Objects /\ n \in Calls(b) => Made(b, n) = Made(b, c)
    BY <1>3, <2>1, CallsAre DEF Made, Objects
  <2>10. n \in Calls(b) => Made(b, n) = Made(b, c) \cup ({c} \cap Objects)
    BY <1>2, <2>3, <2>4, <2>5, <2>6, <2>7, <2>8, <2>9
  <2>11. QED
    BY <2>2, <2>10 DEF n
<1>4. CASE b = "stm32"
  <2>1. /\ c = "wifiOn" => n = "join"
        /\ c = "join" => n = "address"
        /\ c = "address" => n = "txPool"
        /\ c = "txPool" => n = "ip"
        /\ c = "ip" => n = "nxWifi"
        /\ c = "nxWifi" => n = "dns"
        /\ c = "dns" => n = "dnsPool"
        /\ c = "dnsPool" => n = "dnsAddress"
        /\ c = "dnsAddress" => n = "dnsServer"
        /\ c = "dnsServer" => n = "flags"
    BY <1>4 DEF NextCall
  <2> HIDE DEF n
  <2>2. n \in Calls(b) \cup {"flags"}
    BY <1>4, <2>1, CallsAre
  <2>3. c = "txPool" => Made(b, n) = Made(b, c) \cup {c}
    BY <1>4, <2>1 DEF Made
  <2>4. c = "ip" => Made(b, n) = Made(b, c) \cup {c}
    BY <1>4, <2>1 DEF Made
  <2>5. c = "dns" => Made(b, n) = Made(b, c) \cup {c}
    BY <1>4, <2>1 DEF Made
  <2>6. c \in Calls(b) \cap Objects => c \in {"txPool", "ip", "dns"}
    BY <1>4, CallsAre DEF Objects
  <2>7. c \notin Objects /\ n \in Calls(b) => Made(b, n) = Made(b, c)
    BY <1>4, <2>1, CallsAre DEF Made, Objects
  <2>8. n \in Calls(b) => Made(b, n) = Made(b, c) \cup ({c} \cap Objects)
    BY <1>2, <2>3, <2>4, <2>5, <2>6, <2>7
  <2>9. QED
    BY <2>2, <2>8 DEF n
<1>5. CASE b = "common"
  <2>1. /\ c = "txPool" => n = "ip"
        /\ c = "ip" => n = "arp"
        /\ c = "arp" => n = "tcp"
        /\ c = "tcp" => n = "udp"
        /\ c = "udp" => n = "icmp"
        /\ c = "icmp" => n = "dhcp"
        /\ c = "dhcp" => n = "dhcpWait"
        /\ c = "dhcpWait" => n = "dns"
        /\ c = "dns" => n = "dnsPool"
        /\ c = "dnsPool" => n = "dnsServer"
        /\ c = "dnsServer" => n = "flags"
    BY <1>5 DEF NextCall
  <2> HIDE DEF n
  <2>2. n \in Calls(b) \cup {"flags"}
    BY <1>5, <2>1, CallsAre
  <2>3. c = "txPool" => Made(b, n) = Made(b, c) \cup {c}
    BY <1>5, <2>1 DEF Made
  <2>4. c = "ip" => Made(b, n) = Made(b, c) \cup {c}
    BY <1>5, <2>1 DEF Made
  <2>5. c = "dhcp" => Made(b, n) = Made(b, c) \cup {c}
    BY <1>5, <2>1 DEF Made
  <2>6. c = "dns" => Made(b, n) = Made(b, c) \cup {c}
    BY <1>5, <2>1 DEF Made
  <2>7. c \in Calls(b) \cap Objects => c \in {"txPool", "ip", "dhcp", "dns"}
    BY <1>5, CallsAre DEF Objects
  <2>8. c \notin Objects /\ n \in Calls(b) => Made(b, n) = Made(b, c)
    BY <1>5, <2>1, CallsAre DEF Made, Objects
  <2>9. n \in Calls(b) => Made(b, n) = Made(b, c) \cup ({c} \cap Objects)
    BY <1>2, <2>3, <2>4, <2>5, <2>6, <2>7, <2>8
  <2>10. QED
    BY <2>2, <2>9 DEF n
<1>6. QED
  BY <1>1, <1>3, <1>4, <1>5

\* The order in which every clean-up deletes: what uses an object goes before it.
Rank == [dns |-> 1, dhcp |-> 2, ip |-> 3, txPool |-> 4, rxPool |-> 5]

Ascending(s) ==
  /\ \A i \in 1..Len(s) : s[i] \in DOMAIN Rank
  /\ \A i, j \in 1..Len(s) : i < j => Rank[s[i]] < Rank[s[j]]

SeqElements(s) == {s[i] : i \in 1..Len(s)}

\* Deleting in this order whatever exists of these objects deletes all of it; and
\* if all of them exist, each once and after its users.
LEMMA AscendingInOrder ==
  ASSUME NEW s, Len(s) \in Nat, Ascending(s), live \subseteq SeqElements(s)
  PROVE  /\ Gone(s) = SeqElements(s)
         /\ live = SeqElements(s) => InOrder(s)
<1>1. DOMAIN Rank = {"dns", "dhcp", "ip", "txPool", "rxPool"} /\ \A o \in DOMAIN Rank : Rank[o] \in Nat
  BY DEF Rank
<1>2. \A o \in DOMAIN Rank, u \in DOMAIN Rank : u \in Users[o] => Rank[u] < Rank[o]
  BY DEF Rank, Users
<1>3. ASSUME NEW i \in 1..Len(s)
      PROVE  /\ s[i] \notin Before(s, i)
             /\ Unused(s, i)
  <2>1. s[i] \in DOMAIN Rank
    BY DEF Ascending
  <2>2. ASSUME NEW j \in 1..(i - 1) PROVE s[j] # s[i]
    <3>1. j \in 1..Len(s) /\ j < i
      OBVIOUS
    <3>2. Rank[s[j]] < Rank[s[i]] /\ Rank[s[i]] \in Nat
      BY <1>1, <2>1, <3>1 DEF Ascending
    <3>3. QED
      BY <3>2
  <2>3. ASSUME NEW u \in Users[s[i]] \cap live PROVE u \in Before(s, i)
    <3>1. PICK k \in 1..Len(s) : u = s[k]
      BY DEF SeqElements
    <3>2. Rank[s[k]] < Rank[s[i]] /\ Rank[s[i]] \in Nat /\ Rank[s[k]] \in Nat
      BY <1>1, <1>2, <2>1, <3>1 DEF Ascending
    <3>3. ~(i < k) /\ k # i
      BY <3>2 DEF Ascending
    <3>4. k \in 1..(i - 1)
      BY <3>3
    <3>5. QED
      BY <3>1, <3>4 DEF Before
  <2>4. s[i] \notin Before(s, i)
    BY <2>2 DEF Before
  <2>5. QED
    BY <2>3, <2>4 DEF Unused
<1>4. Gone(s) = SeqElements(s)
  BY <1>3 DEF Gone, SeqElements
<1>5. live = SeqElements(s) => InOrder(s)
  BY <1>3 DEF InOrder, SeqElements
<1>6. QED
  BY <1>4, <1>5

\* The sequences that are deleted.
Deleted ==
  {<<>>, <<"txPool">>, <<"txPool", "rxPool">>, <<"ip", "txPool">>, <<"ip", "txPool", "rxPool">>,
   <<"dns", "ip", "txPool">>, <<"dhcp", "ip", "txPool">>,
   <<"dhcp", "ip", "txPool", "rxPool">>, <<"dns", "dhcp", "ip", "txPool">>,
   <<"dns", "dhcp", "ip", "txPool", "rxPool">>}

\* Each of them names objects in that order.
LEMMA DeletedAscending == \A s \in Deleted : Len(s) \in Nat /\ Ascending(s)
<1>1. Len(<<>>) \in Nat /\ Ascending(<<>>)
  BY DEF Ascending, Rank
<1>2. Len(<<"txPool">>) \in Nat /\ Ascending(<<"txPool">>)
  BY DEF Ascending, Rank
<1>3. Len(<<"txPool", "rxPool">>) \in Nat /\ Ascending(<<"txPool", "rxPool">>)
  BY DEF Ascending, Rank
<1>4. Len(<<"ip", "txPool">>) \in Nat /\ Ascending(<<"ip", "txPool">>)
  BY DEF Ascending, Rank
<1>5. Len(<<"ip", "txPool", "rxPool">>) \in Nat /\ Ascending(<<"ip", "txPool", "rxPool">>)
  BY DEF Ascending, Rank
<1>6. Len(<<"dns", "ip", "txPool">>) \in Nat /\ Ascending(<<"dns", "ip", "txPool">>)
  BY DEF Ascending, Rank
<1>7. Len(<<"dhcp", "ip", "txPool">>) \in Nat /\ Ascending(<<"dhcp", "ip", "txPool">>)
  BY DEF Ascending, Rank
<1>8. /\ Len(<<"dhcp", "ip", "txPool", "rxPool">>) \in Nat
      /\ Ascending(<<"dhcp", "ip", "txPool", "rxPool">>)
  BY DEF Ascending, Rank
<1>9. Len(<<"dns", "dhcp", "ip", "txPool">>) \in Nat /\ Ascending(<<"dns", "dhcp", "ip", "txPool">>)
  BY DEF Ascending, Rank
<1>10. /\ Len(<<"dns", "dhcp", "ip", "txPool", "rxPool">>) \in Nat
       /\ Ascending(<<"dns", "dhcp", "ip", "txPool", "rxPool">>)
  BY DEF Ascending, Rank
<1>11. QED
  BY <1>1, <1>2, <1>3, <1>4, <1>5, <1>6, <1>7, <1>8, <1>9, <1>10 DEF Deleted

\* A call that fails deletes all that the calls before it created.
LEMMA CleanUpIsWhole ==
  ASSUME NEW b \in DOMAIN FirstCall, NEW c \in Calls(b), c \notin {"join", "dhcp", "dhcpWait"}
  PROVE  CleanUp(b, c) \in Deleted /\ SeqElements(CleanUp(b, c)) = Made(b, c)
<1>1. b \in {"mxchip", "stm32", "common"}
  BY DEF FirstCall
<1>2. /\ SeqElements(<<>>) = {}
      /\ SeqElements(<<"txPool">>) = {"txPool"}
      /\ SeqElements(<<"txPool", "rxPool">>) = {"txPool", "rxPool"}
      /\ SeqElements(<<"ip", "txPool">>) = {"ip", "txPool"}
      /\ SeqElements(<<"ip", "txPool", "rxPool">>) = {"ip", "txPool", "rxPool"}
      /\ SeqElements(<<"dns", "ip", "txPool">>) = {"dns", "ip", "txPool"}
      /\ SeqElements(<<"dhcp", "ip", "txPool">>) = {"dhcp", "ip", "txPool"}
      /\ SeqElements(<<"dhcp", "ip", "txPool", "rxPool">>) = {"dhcp", "ip", "txPool", "rxPool"}
      /\ SeqElements(<<"dns", "dhcp", "ip", "txPool">>) = {"dns", "dhcp", "ip", "txPool"}
      /\ SeqElements(<<"dns", "dhcp", "ip", "txPool", "rxPool">>)
           = {"dns", "dhcp", "ip", "txPool", "rxPool"}
  <2>1. SeqElements(<<>>) = {}
    BY DEF SeqElements
  <2>2. SeqElements(<<"txPool">>) = {"txPool"}
    BY DEF SeqElements
  <2>3. SeqElements(<<"txPool", "rxPool">>) = {"txPool", "rxPool"}
    BY DEF SeqElements
  <2>4. SeqElements(<<"ip", "txPool">>) = {"ip", "txPool"}
    BY DEF SeqElements
  <2>5. SeqElements(<<"ip", "txPool", "rxPool">>) = {"ip", "txPool", "rxPool"}
    BY DEF SeqElements
  <2>6. SeqElements(<<"dns", "ip", "txPool">>) = {"dns", "ip", "txPool"}
    BY DEF SeqElements
  <2>7. SeqElements(<<"dhcp", "ip", "txPool">>) = {"dhcp", "ip", "txPool"}
    BY DEF SeqElements
  <2>8. SeqElements(<<"dhcp", "ip", "txPool", "rxPool">>) = {"dhcp", "ip", "txPool", "rxPool"}
    BY DEF SeqElements
  <2>9. SeqElements(<<"dns", "dhcp", "ip", "txPool">>) = {"dns", "dhcp", "ip", "txPool"}
    BY DEF SeqElements
  <2>10. SeqElements(<<"dns", "dhcp", "ip", "txPool", "rxPool">>)
          = {"dns", "dhcp", "ip", "txPool", "rxPool"}
    BY DEF SeqElements
  <2>11. QED
    BY <2>1, <2>2, <2>3, <2>4, <2>5, <2>6, <2>7, <2>8, <2>9, <2>10
<1>3. CASE b = "mxchip"
  <2>1. CASE c = "txPool"
    <3>1. CleanUp(b, c) = <<>>
      BY <1>3, <2>1 DEF CleanUp
    <3>2. Made(b, c) = {}
      BY <1>3, <2>1 DEF Made
    <3>3. QED
      BY <1>2, <3>1, <3>2 DEF Deleted
  <2>2. CASE c = "rxPool"
    <3>1. CleanUp(b, c) = <<"txPool">>
      BY <1>3, <2>2 DEF CleanUp
    <3>2. Made(b, c) = {"txPool"}
      BY <1>3, <2>2 DEF Made
    <3>3. QED
      BY <1>2, <3>1, <3>2 DEF Deleted
  <2>3. CASE c \in {"wifiOn", "ip"}
    <3>1. CleanUp(b, c) = <<"txPool", "rxPool">>
      BY <1>3, <2>3 DEF CleanUp
    <3>2. Made(b, c) = {"txPool", "rxPool"}
      BY <1>3, <2>3 DEF Made
    <3>3. QED
      BY <1>2, <3>1, <3>2 DEF Deleted
  <2>4. CASE c \in {"arp", "icmp", "tcp", "udp"}
    <3>1. CleanUp(b, c) = <<"ip", "txPool", "rxPool">>
      BY <1>3, <2>4 DEF CleanUp
    <3>2. Made(b, c) = {"ip", "txPool", "rxPool"}
      BY <1>3, <2>4 DEF Made
    <3>3. QED
      BY <1>2, <3>1, <3>2 DEF Deleted
  <2>5. CASE c = "dns"
    <3>1. CleanUp(b, c) = <<"dhcp", "ip", "txPool", "rxPool">>
      BY <1>3, <2>5 DEF CleanUp
    <3>2. Made(b, c) = {"dhcp", "ip", "txPool", "rxPool"}
      BY <1>3, <2>5 DEF Made
    <3>3. QED
      BY <1>2, <3>1, <3>2 DEF Deleted
  <2>6. CASE c \in {"dnsPool", "dnsServer"}
    <3>1. CleanUp(b, c) = <<"dns", "dhcp", "ip", "txPool", "rxPool">>
      BY <1>3, <2>6 DEF CleanUp
    <3>2. Made(b, c) = {"dns", "dhcp", "ip", "txPool", "rxPool"}
      BY <1>3, <2>6 DEF Made
    <3>3. QED
      BY <1>2, <3>1, <3>2 DEF Deleted
  <2>7. QED
    BY <1>3, <2>1, <2>2, <2>3, <2>4, <2>5, <2>6, CallsAre
<1>4. CASE b = "stm32"
  <2>1. CASE c \in {"wifiOn", "address", "txPool"}
    <3>1. CleanUp(b, c) = <<>>
      BY <1>4, <2>1 DEF CleanUp
    <3>2. Made(b, c) = {}
      BY <1>4, <2>1 DEF Made
    <3>3. QED
      BY <1>2, <3>1, <3>2 DEF Deleted
  <2>2. CASE c = "ip"
    <3>1. CleanUp(b, c) = <<"txPool">>
      BY <1>4, <2>2 DEF CleanUp
    <3>2. Made(b, c) = {"txPool"}
      BY <1>4, <2>2 DEF Made
    <3>3. QED
      BY <1>2, <3>1, <3>2 DEF Deleted
  <2>3. CASE c \in {"nxWifi", "dns"}
    <3>1. CleanUp(b, c) = <<"ip", "txPool">>
      BY <1>4, <2>3 DEF CleanUp
    <3>2. Made(b, c) = {"ip", "txPool"}
      BY <1>4, <2>3 DEF Made
    <3>3. QED
      BY <1>2, <3>1, <3>2 DEF Deleted
  <2>4. CASE c \in {"dnsPool", "dnsAddress", "dnsServer"}
    <3>1. CleanUp(b, c) = <<"dns", "ip", "txPool">>
      BY <1>4, <2>4 DEF CleanUp
    <3>2. Made(b, c) = {"dns", "ip", "txPool"}
      BY <1>4, <2>4 DEF Made
    <3>3. QED
      BY <1>2, <3>1, <3>2 DEF Deleted
  <2>5. QED
    BY <1>4, <2>1, <2>2, <2>3, <2>4, CallsAre
<1>5. CASE b = "common"
  <2>1. CASE c = "txPool"
    <3>1. CleanUp(b, c) = <<>>
      BY <1>5, <2>1 DEF CleanUp
    <3>2. Made(b, c) = {}
      BY <1>5, <2>1 DEF Made
    <3>3. QED
      BY <1>2, <3>1, <3>2 DEF Deleted
  <2>2. CASE c = "ip"
    <3>1. CleanUp(b, c) = <<"txPool">>
      BY <1>5, <2>2 DEF CleanUp
    <3>2. Made(b, c) = {"txPool"}
      BY <1>5, <2>2 DEF Made
    <3>3. QED
      BY <1>2, <3>1, <3>2 DEF Deleted
  <2>3. CASE c \in {"arp", "icmp", "tcp", "udp"}
    <3>1. CleanUp(b, c) = <<"ip", "txPool">>
      BY <1>5, <2>3 DEF CleanUp
    <3>2. Made(b, c) = {"ip", "txPool"}
      BY <1>5, <2>3 DEF Made
    <3>3. QED
      BY <1>2, <3>1, <3>2 DEF Deleted
  <2>4. CASE c = "dns"
    <3>1. CleanUp(b, c) = <<"dhcp", "ip", "txPool">>
      BY <1>5, <2>4 DEF CleanUp
    <3>2. Made(b, c) = {"dhcp", "ip", "txPool"}
      BY <1>5, <2>4 DEF Made
    <3>3. QED
      BY <1>2, <3>1, <3>2 DEF Deleted
  <2>5. CASE c \in {"dnsPool", "dnsServer"}
    <3>1. CleanUp(b, c) = <<"dns", "dhcp", "ip", "txPool">>
      BY <1>5, <2>5 DEF CleanUp
    <3>2. Made(b, c) = {"dns", "dhcp", "ip", "txPool"}
      BY <1>5, <2>5 DEF Made
    <3>3. QED
      BY <1>2, <3>1, <3>2 DEF Deleted
  <2>6. QED
    BY <1>5, <2>1, <2>2, <2>3, <2>4, <2>5, CallsAre
<1>6. QED
  BY <1>1, <1>3, <1>4, <1>5

\* What a call works on was created before it.
LEMMA NeedsMet ==
  ASSUME NEW b \in DOMAIN FirstCall, NEW c \in Calls(b)
  PROVE  Needs(c) \subseteq Made(b, c)
<1>1. b \in {"mxchip", "stm32", "common"}
  BY DEF FirstCall
<1>2. /\ c \in {"txPool", "rxPool", "wifiOn", "join", "address"} => Needs(c) = {}
      /\ c = "ip" => Needs(c) = {"txPool"}
      /\ c \in {"arp", "icmp", "tcp", "udp", "nxWifi", "dhcp", "dhcpWait", "dns"} => Needs(c) = {"ip"}
      /\ c \in {"dnsPool", "dnsAddress", "dnsServer"} => Needs(c) = {"ip", "dns"}
  BY DEF Needs
<1>3. CASE b = "mxchip"
  <2>1. /\ c = "ip" => "txPool" \in Made(b, c)
        /\ c \in {"arp", "icmp", "tcp", "udp", "dhcp", "dhcpWait", "dns"} => "ip" \in Made(b, c)
        /\ c \in {"dnsPool", "dnsServer"} => {"ip", "dns"} \subseteq Made(b, c)
    BY <1>3 DEF Made
  <2>2. QED
    BY <1>2, <1>3, <2>1, CallsAre
<1>4. CASE b = "stm32"
  <2>1. /\ c = "ip" => "txPool" \in Made(b, c)
        /\ c \in {"nxWifi", "dns"} => "ip" \in Made(b, c)
        /\ c \in {"dnsPool", "dnsAddress", "dnsServer"} => {"ip", "dns"} \subseteq Made(b, c)
    BY <1>4 DEF Made
  <2>2. QED
    BY <1>2, <1>4, <2>1, CallsAre
<1>5. CASE b = "common"
  <2>1. /\ c = "ip" => "txPool" \in Made(b, c)
        /\ c \in {"arp", "icmp", "tcp", "udp", "dhcp", "dhcpWait", "dns"} => "ip" \in Made(b, c)
        /\ c \in {"dnsPool", "dnsServer"} => {"ip", "dns"} \subseteq Made(b, c)
    BY <1>5 DEF Made
  <2>2. QED
    BY <1>2, <1>5, <2>1, CallsAre
<1>6. QED
  BY <1>1, <1>3, <1>4, <1>5

\* The steps after the bring-up are no calls of a ladder.
LEMMA AfterLadder ==
  ASSUME NEW b \in DOMAIN FirstCall
  PROVE  /\ {"dhcpHung", "platformFailed", "flags", "mutex", "thread", "sntpFailed", "components",
             "iot", "rootCertificate", "loop", "ended"} \cap Calls(b) = {}
         /\ FirstCall[b] \in Calls(b)
  BY CallsAre DEF FirstCall

\* Every value start-up gives a variable of its own is one the program has.
THEOREM BootTypeCorrect == BootSpec => []BootTypeOK
<1>1. BootInit => BootTypeOK
  BY AfterLadder DEF BootInit, BootTypeOK
<1>2. BootTypeOK /\ [BootNext]_allVars => BootTypeOK'
  <2> SUFFICES ASSUME BootTypeOK, [BootNext]_allVars PROVE BootTypeOK'
    OBVIOUS
  <2> USE DEF BootTypeOK
  <2>1. CASE CallSucceeds
    <3>1. step' \in Calls(board) \cup {"flags"}
      BY <2>1, Climbs DEF CallSucceeds, InBringUp
    <3>2. QED
      BY <2>1, <3>1 DEF CallSucceeds
  <2>2. CASE CallFails
    BY <2>2 DEF CallFails, InBringUp, Delete
  <2>3. CASE DhcpFails
    BY <2>3 DEF DhcpFails, Objects
  <2>4. CASE DhcpWaitFails
    <3>1. {"dns", "dhcpWait"} \subseteq Calls(board)
      BY <2>4, CallsAre DEF DhcpWaitFails
    <3>2. QED
      BY <2>4, <3>1 DEF DhcpWaitFails, Delete
  <2>5. CASE SntpCallSucceeds
    <3>1. /\ step' \in {"mutex", "thread"} /\ live' \subseteq live \cup {"flags", "mutex"}
          /\ UNCHANGED <<board, misused, resolver>>
      BY <2>5 DEF SntpCallSucceeds, AfterSntpCall
    <3>2. live' \subseteq Objects
      BY <3>1 DEF Objects
    <3>3. QED
      BY <3>1, <3>2
  <2>6. CASE SntpCallFails \/ SntpThreadCreated
    BY <2>6 DEF SntpCallFails, SntpThreadCreated
  <2>7. CASE SampleCallSucceeds \/ SampleCallFails
    BY <2>7 DEF SampleCallSucceeds, SampleCallFails, AfterSampleCall
  <2>8. CASE \/ Sntp(sntp_sync_wait) \/ Sntp(SntpThread) \/ Sntp(time_update_callback)
             \/ Sntp(ServerFallsSilent) \/ UNCHANGED allVars
    BY <2>8 DEF Sntp, allVars, bootVars
  <2>9. QED
    BY <2>1, <2>2, <2>3, <2>4, <2>5, <2>6, <2>7, <2>8 DEF BootNext, AzureThreadBoot
<1>3. QED
  BY <1>1, <1>2, PTL DEF BootSpec

\* Nothing but CallSucceeds and DhcpWaitFails moves along a ladder.
LEMMA LadderLeft ==
  ASSUME BootTypeOK, LadderInv, board' = board,
         step' \notin {"platformFailed", "dhcpHung"} \/ UNCHANGED <<step, live>>,
         app' = "boot" /\ step' \in Calls(board) => UNCHANGED <<app, step, live>>,
         misused' = misused
  PROVE  LadderInv'
  BY DEF LadderInv

\* Each failure of a bring-up finds exactly the objects its clean-up deletes, and
\* deletes them in order.
THEOREM LadderInvariance == BootSpec => [](BootTypeOK /\ LadderInv)
<1>1. BootInit => LadderInv
  <2> SUFFICES ASSUME BootInit PROVE LadderInv
    OBVIOUS
  <2>1. board \in {"mxchip", "stm32", "common"} /\ step = FirstCall[board] /\ live = {} /\ misused = {}
    BY DEF BootInit, FirstCall
  <2>2. Made(board, step) = {} /\ step # "platformFailed"
    BY <2>1 DEF Made, FirstCall
  <2>3. QED
    BY <2>1, <2>2 DEF LadderInv
<1>2. BootTypeOK /\ LadderInv /\ [BootNext]_allVars => LadderInv'
  <2> SUFFICES ASSUME BootTypeOK, LadderInv, [BootNext]_allVars PROVE LadderInv'
    OBVIOUS
  <2>1. board \in DOMAIN FirstCall
    BY DEF BootTypeOK
  <2>2. CASE CallSucceeds
    <3>1. /\ step \in Calls(board) /\ app = "boot" /\ Needs(step) \subseteq live
          /\ live' = live \cup ({step} \cap Objects) /\ step' = NextCall[board][step]
          /\ board' = board /\ misused' = misused
      BY <2>2 DEF CallSucceeds, InBringUp
    <3>2. /\ step' \in Calls(board) \cup {"flags"}
          /\ step' \in Calls(board) => Made(board, step') = Made(board, step) \cup ({step} \cap Objects)
      BY <2>1, <3>1, Climbs
    <3>3. step' \notin {"platformFailed", "dhcpHung"}
      BY <2>1, <3>2, AfterLadder
    <3>4. CASE live = Made(board, step)
      BY <3>1, <3>2, <3>3, <3>4 DEF LadderInv
    <3>5. CASE /\ board = "common"
               /\ step \in {"dns", "dnsPool", "dnsServer"}
               /\ live \subseteq Made(board, step) \ {"txPool"}
      <4>1. step' \in {"dnsPool", "dnsServer", "flags"}
        BY <3>1, <3>5 DEF NextCall
      <4>2. step # "txPool"
        BY <3>5
      <4>3. step' \in Calls(board) => live' \subseteq Made(board, step') \ {"txPool"}
        BY <3>1, <3>2, <3>5, <4>2
      <4>4. "flags" \notin Calls(board)
        BY <2>1, AfterLadder
      <4>5. QED
        BY <3>1, <3>3, <3>5, <4>1, <4>3, <4>4 DEF LadderInv
    <3>6. QED
      BY <3>1, <3>4, <3>5 DEF LadderInv
  <2>3. CASE CallFails
    <3>1. /\ step \in Calls(board) /\ app = "boot" /\ step \notin {"join", "dhcp", "dhcpWait"}
          /\ Delete(step, CleanUp(board, step)) /\ step' = "platformFailed" /\ board' = board
      BY <2>3 DEF CallFails, InBringUp
    <3>2. CleanUp(board, step) \in Deleted /\ SeqElements(CleanUp(board, step)) = Made(board, step)
      BY <2>1, <3>1, CleanUpIsWhole
    <3>3. live \subseteq Made(board, step)
      BY <3>1 DEF LadderInv
    <3>4. live' = {}
      <4>1. Gone(CleanUp(board, step)) = Made(board, step)
        BY <3>2, <3>3, DeletedAscending, AscendingInOrder
      <4>2. QED
        BY <3>1, <3>3, <4>1 DEF Delete
    <3>5. board # "common" => misused' = {}
      <4> SUFFICES ASSUME board # "common" PROVE misused' = {}
        OBVIOUS
      <4>1. live = Made(board, step) /\ misused = {}
        BY <3>1 DEF LadderInv
      <4>2. InOrder(CleanUp(board, step))
        BY <3>2, <4>1, DeletedAscending, AscendingInOrder
      <4>3. Needs(step) \subseteq live
        BY <2>1, <3>1, <4>1, NeedsMet
      <4>4. QED
        BY <3>1, <4>1, <4>2, <4>3 DEF Delete
    <3>6. step' \notin Calls(board)
      BY <2>1, <3>1, AfterLadder
    <3>7. QED
      BY <3>1, <3>4, <3>5, <3>6 DEF LadderInv
  <2>4. CASE DhcpWaitFails
    <3> DEFINE s == <<"ip", "txPool">>
    <3>1. /\ step \in {"dhcpWait", "dhcpHung"} /\ app = "boot" /\ board = "common"
          /\ Delete("dhcpWait", s) /\ step' = "dns" /\ board' = board
      BY <2>4 DEF DhcpWaitFails
    <3>2. Made(board, "dhcpWait") = {"txPool", "ip", "dhcp"} /\ Made(board, "dns") = {"txPool", "ip", "dhcp"}
      BY <3>1 DEF Made
    <3>3. live \subseteq Made(board, "dns")
      BY <3>1, <3>2, CallsAre DEF LadderInv
    <3>4. "txPool" \in Gone(s)
      <4>1. Len(s) = 2 /\ s[2] = "txPool"
        OBVIOUS
      <4> HIDE DEF s
      <4>2. QED
        BY <4>1 DEF Gone
    <3>5. live' \subseteq Made(board, "dns") \ {"txPool"}
      BY <3>1, <3>3, <3>4 DEF Delete
    <3>6. QED
      BY <3>1, <3>5 DEF LadderInv
  <2>5. CASE DhcpFails
    <3>1. /\ step' = "dhcpHung" /\ board' = board /\ misused' = misused
          /\ live' \subseteq live \cup {"dhcp"} /\ step = "dhcp" /\ app = "boot"
          /\ step \in Calls(board)
      BY <2>5 DEF DhcpFails, InBringUp
    <3>2. board = "common" => live' \subseteq Made(board, "dhcpWait")
      <4> SUFFICES ASSUME board = "common" PROVE live' \subseteq Made(board, "dhcpWait")
        OBVIOUS
      <4>1. live = Made(board, "dhcp")
        BY <3>1 DEF LadderInv
      <4>2. /\ Made(board, "dhcp") = {"txPool", "ip"}
            /\ Made(board, "dhcpWait") = {"txPool", "ip", "dhcp"}
        BY DEF Made
      <4>3. QED
        BY <3>1, <4>1, <4>2
    <3>3. step' \notin Calls(board)
      BY <2>1, <3>1, AfterLadder
    <3>4. QED
      BY <3>1, <3>2, <3>3 DEF LadderInv
  <2>6. CASE SntpCallSucceeds
    <3>1. step' \in {"mutex", "thread"} /\ board' = board /\ misused' = misused
      BY <2>6 DEF SntpCallSucceeds, AfterSntpCall
    <3>2. QED
      BY <2>1, <3>1, AfterLadder, LadderLeft
  <2>7. CASE SntpCallFails \/ SntpThreadCreated
    <3>1. step' \in {"sntpFailed", "components"} /\ board' = board /\ misused' = misused
      BY <2>7 DEF SntpCallFails, SntpThreadCreated
    <3>2. QED
      BY <2>1, <3>1, AfterLadder, LadderLeft
  <2>8. CASE SampleCallSucceeds \/ SampleCallFails
    <3>1. /\ step' \in {"iot", "rootCertificate", "loop", "ended"}
          /\ board' = board /\ misused' = misused
      BY <2>8 DEF SampleCallSucceeds, SampleCallFails, AfterSampleCall
    <3>2. QED
      BY <2>1, <3>1, AfterLadder, LadderLeft
  <2>9. CASE \/ Sntp(sntp_sync_wait) \/ Sntp(SntpThread) \/ Sntp(time_update_callback)
             \/ Sntp(ServerFallsSilent)
    <3>1. UNCHANGED bootVars
      BY <2>9 DEF Sntp
    <3>2. app' = "boot" => app = "boot"
      BY <2>9 DEF Sntp, sntp_sync_wait, SntpThread, time_update_callback, ServerFallsSilent,
         CreateClient, FirstRun, WaitForUpdate, CheckFails, Restart, StoreTime
    <3>3. QED
      BY <3>1, <3>2, LadderLeft DEF bootVars
  <2>10. CASE UNCHANGED allVars
    BY <2>10, LadderLeft DEF allVars, bootVars, vars
  <2>11. QED
    BY <2>2, <2>3, <2>4, <2>5, <2>6, <2>7, <2>8, <2>9, <2>10 DEF BootNext, AzureThreadBoot
<1>3. QED
  BY <1>1, <1>2, BootTypeCorrect, PTL DEF BootSpec

\* A bring-up that failed has deleted all that it created, wherever it failed, and
\* on the two boards of the repository in an order that leaves no user behind.
THEOREM CleansUp == BootSpec => []FailedBringUpCleansUp
<1>1. LadderInv => FailedBringUpCleansUp
  BY DEF LadderInv, FailedBringUpCleansUp
<1>2. QED
  BY <1>1, LadderInvariance, PTL

=============================================================================
