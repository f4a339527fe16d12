# Verification of the Verified Telemetry device sample

TLA+ modules, TLC runs and TLAPS proofs about the device sample in `src/`: the
firmware that connects an MXChip AZ3166 or an STM32L4 board to Azure IoT Hub,
sends its telemetry with sensor fingerprints, and serves commands and twin
updates. The two boards have the same application logic; line numbers below are
those of the MXChip copy (`src/MXChip/AZ3166/app/`).

The vendored parts (HAL and BSP drivers, the Wi-Fi SDK, startup code, and the
STM32L4 board's own cut of NetX Duo with its Wi-Fi porting layer) and the
submodules, which are empty here (ThreadX, NetX Duo with the Azure IoT client,
the Verified Telemetry library, jsmn), are not verified. Where the sample calls
them they are modelled from the way it uses them and marked external in
`PROJECT.json`.

## Inventory

| Component | State it keeps | Operations | Interacts with | Hard because | What makes it correct |
|---|---|---|---|---|---|
| Sample event loop, `app/sample_pnp_iot_device.c` | `state`, event flags, `sample_connection_status`, `exponential_retry_count`, tick of the last periodic work | one handler per flag, recovery, trigger, provisioning, callbacks | client library (calls, callbacks from the cloud thread), device component, VT library | flags coalesce and lose their order, handlers return early in the wrong state, receives wait for ever, a status word is shared by two threads | never blocks for ever; never acts on a flag left over from another connection; every lost connection is noticed; always recovers |
| Device component, `app/sample_pnp_device_component.c` | LED state, sensor values | `setLedState`, telemetry, `ledState` report | event loop, twin, GPIO | a report may fail or its acknowledgement be lost; the pin has two owners; a reset forgets what the twin keeps | twin, LED state and pin agree |
| VT drivers, `app/sample_vt_device_driver.c`, `app/sample_nx_verified_telemetry_init.c` | supply pins, ADC set-up, a 16 bit timer | `gpio_on/off`, `adc_*`, `tick_*` | VT library, device component | shared hardware, timer wrap | a fingerprint evaluation leaves the hardware as the sensors' readers need it |
| Thread entry, `app/main.c` | none | bring up the network, start SNTP, wait, run the sample | all | waits for ever for the first synchronization | the sample starts only with a network and a time, and does start |
| SNTP client, `core/src/sntp_client.c` | SNTP client, server index, time pair under a mutex, flags | thread, update callback, `sntp_time_get`, `sntp_sync_wait`, `sntp_start` | DNS, SNTP library, token generation | a failed first run ends the thread; a failed later run deletes the client; `events` survives a `continue`; tick arithmetic wraps | time is set before it is used, is one consistent pair, and is refreshed for ever |
| Network bring-up, `core/src/networking.c`, `app/wwd_networking.c`, `app/stm_networking.c` | pools, IP instance, DHCP and DNS clients | create, wait, clean up; join Wi-Fi; check the module's version | NetX Duo, Wi-Fi driver | each of a dozen steps may fail; the DHCP failure path deletes objects and goes on | what was created before a failure is deleted once; what the threads use exists, with the exceptions named |
| Provisioning, `sample_dps_entry` | DPS client in a union with the hub client | initialize, set credentials, register, read hub and device id, deinitialize | event loop | memory shared with the hub client; many failure points | the union holds one live client; hub and device id are valid on success |
| NX client wrapper, `core/src/azure_iot_nx/azure_iot_nx_client.c` | hub client, event flags, timer, thread | connect, disconnect, publish, event thread | client library | an event thread with flags like the loop's; a thread created by every connect | like the event loop |
| Plug and play helpers, `core/src/azure_iot_nx/nx_azure_iot_pnp_helpers.c` | none | walk twin documents, build messages | JSON reader | token walk with nested objects | every component property is visited once |
| MQTT wrapper, `core/src/azure_iot_mqtt/azure_iot_mqtt.c` | MQTT client, request id, desired version | connect, publish, respond, callbacks | NetX MQTT | reconnect loop inside a callback, one slot for a request id | a response goes to its request |
| DPS over MQTT, `core/src/azure_iot_mqtt/azure_iot_dps_mqtt.c` | MQTT client, flags, assigned hub | register, poll, notify | NetX MQTT | 30 s time-out against a late answer; retry timer | the names a success leaves are those assigned in this attempt, or missing |
| Tokens and digests, `sas_token.c`, `sha256.c`, `hmac_sha256.c` | hash state | base64, URL encoding, SHA-256, HMAC | MQTT wrapper | padding, lengths, 32 bit arithmetic | agree with the definition |
| JSON utilities, `core/src/json_utils.c` | none | find a key | DPS, MQTT wrapper | token walk | agrees with the definition |
| Vendored network stack of the STM32L4 board: `lib/netxduo/common`, `lib/netx_driver/src` | socket table, packet pools | sockets over the Wi-Fi module, a receiving thread | network bring-up, client library | a thread polls every socket | third-party; not modelled |
| Board support: `board_init.c`, `console.c`, `screen.c`, `newlib_nano.c` | registers | set-up, output | | no protocol | not modelled |

The hazards of this code, each at its line and with the properties that watch
it, are listed in `PROJECT.json`.

## Modules

| Module | What it is |
|---|---|
| `Connection` | abstract: what the event loop promises about the connection |
| `SampleEventLoop` | the event loop, the callbacks and the client library's side of the contract; implements `Connection` |
| `Provisioning` | the ladder of calls behind `sample_initialize_iothub`, inside the event loop; implements `SampleEventLoop` |
| `LedReporting` | the LED: command, report to the twin, and the pin shared with a sensor's supply |
| `SntpClient` | the SNTP thread, the library's callback, and the thread that waits for the first time |
| `Startup` | from reset to the main loop, call by call, on three boards' ladders; extends `SntpClient` and implements it |
| `DpsMqtt` | provisioning of the older MQTT wrapper: two threads, the service, the time-out |
| `SasToken` | base64, SHA-256's buffering and padding, and HMAC, byte by byte |
| `MC...` | the modules TLC runs, one for each of the above but `Connection` |
| `..._proofs` | theorems and their proofs, one for each of the above but `Connection` |

How they compose: `Startup` ends where `SampleEventLoop` begins (`step = "loop"`,
the state INIT and its flag set). `Provisioning` INSTANCEs `SampleEventLoop` with
its hub client given by the union, and uses that module's own actions for the
rest of the loop. `SampleEventLoop` INSTANCEs `Connection`. `LedReporting` and
`DpsMqtt` stand alone: the first shares with the loop only that its handlers run
on the loop's thread, the second is the older wrapper, which the sample does not
link into its application code.

### Connection and SampleEventLoop

`Connection` has two variables, what the loop believes and what the connection
is, and five actions. The belief may lag; it may not be wrong in a way that
abandons an open connection, opens a second one over it, or takes a pending
attempt for an open connection. `View` maps the loop's state to the belief.

The application thread's position is `app`: waiting in `tx_event_flags_get`
("get"), in the stages of a turn ("stages"), or in one of recovery's two sleeps.
`EventsGet` takes all flags into `appEvents`; then the stages run in the source's
order, which is `Rank`. A handler is `Enter(e)` and its effects; a handler that
finds itself in the wrong state is the one action `EarlyReturn(e)`, with the
states each handler accepts in `ActsIn`. The turn ends in `EndOfTurn`, which
includes `sample_trigger_action`. Recovery is split where the thread sleeps,
since the cloud thread goes on running meanwhile: the status word is read before
the sleep, the client deinitialized and the state changed after it.

The cloud thread is `cloud`: idle, about to write the status word, about to set
the connection flag, or about to set a message flag. `connection_status_callback`
is two steps, the write of the status word and the flag with the back-off reset,
because the loop can run between the callback's first statement and its flag.
(The two threads have the same priority, so nothing comes between setting the
flag and resetting the back-off.)

What the model takes from the client library, whose source is not here:

- a connection is opened, refused or lost once, and the cloud thread notifies the
  sample of each of those once, in order, one callback at a time;
- `connect` returns success, "connecting" or an error; an error is notified
  before `connect` returns or not at all;
- `disconnect` and `deinitialize` of an open connection notify from the calling
  thread, with a status other than success;
- the queues of received messages are emptied by `disconnect` and `deinitialize`
  and by nothing else; a message is queued before its callback is called;
- a request for the twin is answered at most once; it dies with the connection.

The properties about left-over flags hold under this contract, and would not if
the library notified a failed `connect` after returning from it (a hazard
without a property, since no code here decides it).

Abstracted: the contents of messages and of the twin; the status word is
"success", "reinit" (DNS failure, bad credentials) or "retry"; the jitter, which
only scales the sleep; whether a handler's own sends succeed, which changes no
state of the loop. The initialization is one step that succeeds or fails;
`Provisioning` shows that to be right.

### Provisioning

`call` is the call of the ladder to be made next; `NextCall` is the order of the
source for both kinds of credential, with and without `ENABLE_DPS` (`naming`).
`union` says which client lives in the union and `configured` which calls have
succeeded on it. A failure (`CallFails`) is one action: the client is
deinitialized if it was initialized, and the handler returns with the state
still INIT, to be entered again at once. The hub client of `SampleEventLoop` is
live when the union holds a hub client on which every call of `HubSetup`
succeeded, so an action that went to CONNECT with less would not be a step of
`SampleEventLoop`. The service may name another hub in every round, which is what
makes the static buffer of the name worth watching.

A call of the ladder blocks the application thread. While it does the state is
INIT, the connection is down and the cloud thread has nothing to say
(`QuietInv` of `SampleEventLoop_proofs`), so the only other actor is the clock.

### LedReporting

The report handler is two actions, `ReportOnce` and `ReportWhenChanged`, since a
reset can come between its two sends; commands cannot, for everything runs on
one thread. A send is acknowledged, fails, or is applied with its
acknowledgement lost. `setLedState` has four payloads; with the empty one the
code goes on with a local it never assigned, so either level may result. `pin`
is GPIOC 13, which is the LED and the supply of the second sensor on the MXChip.
On the STM32L4 boards the LED has a pin of its own; the report logic is the same.

### SntpClient and Startup

`thread` is the position of `sntp_thread_entry`, `app` that of
`azure_thread_entry`, `client` what the thread has done with its `NX_SNTP_CLIENT`.
The turn of the thread's loop is `WaitForUpdate` and then one of `CheckFails`,
`Restart` and `StoreTime`, the three ways through its body; `events` survives the
first two and a wait that times out, as in the code. `sntp_client_run` is three
operators, one per way out: it succeeds, the name does not resolve (the server's
index is not advanced), or the library's client cannot be initialized or run
(which deletes it). Taken from the library: a client just started has no server
that answers, `receiving_updates` refuses a deleted client, and the callback comes
with an update. `client = "deleted"` and `thread = "ended"` are states the model
stops or spins in because the program does; so these runs do not check for
deadlock.

`Startup` replaces `SntpClient`'s one step `Start` by the calls it stands for.
`board` chooses the ladder: `platform_init` (MXChip), `stm32_network_init`
(STM32L4) or `network_init` of `core/src/networking.c`, which is compiled only
where `DISABLE_COMMON_NETWORK` is not defined and so by neither board's build
here; it is modelled because it is the repository's own code and the one with the
double deletion. `live` is the set of objects that exist; `CleanUp(b, c)` the
sequence of deletions in the failure path of call `c`; `misused` remembers every
call that worked on, or deleted, an object that was not there or still in use.
`Delete` carries a sequence out as NetX does, with no result looked at: an IP
instance with a socket on it, such as a DHCP or a DNS client has, refuses to be
deleted (`_nx_ip_delete` of the cut of NetX Duo in this repository), any other object
goes, a packet pool under an IP instance included.
The failures of DHCP are actions of their own: on the two boards with a DHCP client
the results of creating and starting it are ignored and the wait that follows has no
end (`step = "dhcpHung"`), and the common code goes on after a failed wait: having
asked for the deletion of the IP instance, which its DHCP client prevents, and of the
packet pool, which goes. The DNS calls may then succeed, for they look at the IP
instance only. What can still be sent without the pool depends on the library,
hence both values of `resolver` then: "garbage" is a name server that never
resolves a name. On the MXChip that is an address from an array that was never
written. Then come
`sntp_start` and, once the time is there, `sample_entry` up to its loop.

### DpsMqtt

`step` is the call `azure_iot_mqtt_create_with_dps` makes next, down through
`azure_iot_dps_create`, `_register` and `_delete` and
`azure_iot_mqtt_create_common`. The deletion is three steps, `DeleteFlags`,
`Disconnect` and `DeleteClient`, because the MQTT thread runs between them. That
thread is `mqtt`: idle, or asleep inside its callback (`process_retry` sleeps for
as long as the service says and then polls). `inbox` is the client's receive
queue; an answer is a "success" (200), a "retry" (202) or one the callback ignores,
with the names that can be read in it. A success may have both, one or none: each
is looked for on its own, and the callback reads neither the outcome of the search
nor the status in the payload, so that an answer 200 that assigns nothing counts as
well. That the names in an answer are those assigned in this attempt is taken from
the service. Requests may be lost or
delivered twice and answers lost; an answer travels on the connection its request
came on, so it dies with it, but what is already in the queue does not. The
time-out is an action that is enabled whenever the flag is not set. The service
assigns a device once per attempt and stands by it. `names` are the two buffers the
callback fills, for the hub's and the device's name, each name represented by the
identity it is part of, so that a mixture of two would be seen; `clientNames` is what
was in them when the hub client was created (the code keeps a pointer to the one and
connects to the other later, hence `IdentityStays`).

`azure_iot_dps_create` returns `false`, which is `NX_SUCCESS`, when the flags cannot
be created (`FlagsFail`): the registration then fails at its first use of the
client, which was never made.

### SasToken

What is at stake is which byte reaches which block, so bytes are not computed: a
byte is a pair of where it comes from and which one it is, and the state of the
hash is the sequence of blocks transformed. The 64 byte buffer, the position in
it, the padding loop and the length are the code's, at their real sizes. base64
is computed on the bytes of the key, since its result decides the key's length. The reference
definitions at the end are written from the padding rule of FIPS 180-4 and the
definition of RFC 2104, without a buffer or a position.

## What the runs check

| Run | Configuration | Result |
|---|---|---|
| `event_loop_safety` | at most 2 queued messages of a kind, 5 failures, back-off 3, 6, 12 against a maximum of 10 | passes, about 206 000 states |
| `event_loop_liveness` | 1 message, 2 failures, back-off 3, 6 against 5 | passes, about 21 600 states |
| `provisioning` | 1 message, 2 failures, 2 hubs, the four builds | passes, about 131 000 states |
| `led_reporting` | 3 failed reports, 1 lost acknowledgement, 2 resets | passes, 1326 states |
| `sntp_client` | three boards, 4 servers, 4 failures | passes, about 19 800 states |
| `dps_mqtt` | 2 identities, 2 attempts, 4 failures | passes, about 50 700 states |
| `sas_token` | 16 keys of 1 to 66 bytes, 8 texts of 1 to 119 bytes | passes, about 40 900 states |
| `command_wakeup` | 2 messages | finds that two commands can share one wake-up |
| `twin_fetch` | 2 failures | finds that a failed request for the twin is never repeated |
| `led_twin` | 1 failed report | finds a twin that stays wrong |
| `led_pin` | no failure | finds that telemetry lights a disabled LED |
| `sntp_reconnect` | 4 servers, 2 failures | finds a restart that ends synchronization for ever |

`event_loop_safety`: `NoBlockForever` (a receive never waits for a message that
is gone), `HealthyLinkKept` and `ConnectedMeansOpened` (no flag is applied to a
connection it is not about), `EndOfLinkReported` and `OpenLinkReported` (early
returns lose no notice the loop needs), `RecoverySeesFailure` (recovery never
finds "already connected", which would make the loop spin), `UnionExclusive`
(provisioning never overwrites a live hub client), `BackoffBounded`, and
`ConnectionFollowed`, the refinement of `Connection`. Five failures
are enough for a connection lost during the notice of another, twice over, with
a re-initialization between; two messages of a kind are enough for a flag to
stand for more than one message, and for one message to be left when its flag is
gone. The delays are scaled: what matters is that the back-off grows at least
twice before it saturates.

`event_loop_liveness`: `EventuallyConnected`, `TelemetryKeepsFlowing`, and
`ConnectionFollowedInTime`, the refinement of `Connection` with its fairness: every
end is noticed. Two failures can hit any two of: initialization, connect, the
open connection, the twin request, the receive.

`provisioning`: `BuiltInEmptyUnion`, `ConnectsWhole`, `AsksAgainAfterRefusal`,
`ImplementsLoop` (with it everything `event_loop_safety` checks holds of the loop
with the ladder in it) and `EventuallyConnected` once more, now with failures
inside the ladder. Two failures allow a failed round of provisioning after a
refused connection, and two failed rounds in a row.

`led_reporting`: `InStepWithoutFailure`, `StaysInStep`, `ReportAcknowledged`.

`sntp_client`: `FailedBringUpCleansUp`, `NetworkOutlivesItsUsers` and
`SampleCanResolve` for the bring-up; `StartsWithTime`; `StartDecided` and
`ReconnectsUnlessDeleted`, which name exactly the ways in which the start-up can hang
and synchronization can end; `ImplementsSntpClient`. Four failures allow a full
round of the servers, and a silent server, a failed name and a failed restart in
one behaviour.

`dps_mqtt`: `RegisteredMeansAssigned`, `IdentityStays`, `FailedCreateCleansUp`,
`CreateDecided`. Two attempts are what it takes for something of the first to
reach the second; four failures allow a repeated request, a lost answer and a
lost connection in one attempt and a failed call in the other.

`sas_token`: `NothingLost` while a message is fed in pieces, and `SignsAsDefined`
at the end. The lengths of the keys are on both sides of a block and of every
remainder modulo three; those of the texts, 55, 56, 63 and 64 among them, on both
sides of the two boundaries of the padding.

The runs that end in a violation each show a sentence of the documentation
to be untrue of the code; `PROJECT.json` quotes them under "findings".

Four things the passing runs show that a reader may not expect, though no
document says otherwise: on a network whose DHCP offers no DNS server the MXChip
takes an uninitialized address, in general no name server's, and then never gets a time (`SampleCanResolve` is
stated for that); a DHCP client that cannot be created hangs the board without a
message (the exception in `StartDecided`); in the common code, a wait for an address
that fails may leave the sample running over a packet pool that was deleted (the
exception in `NetworkOutlivesItsUsers`); and an answer 200 in which the name of the
hub, that of the device, or both are missing is reported as a successful
registration with that name empty (the exception in `RegisteredMeansAssigned`).

### Bounds

`ServerCount` is the length of the sample's list. `MaxMessages`, `MaxFaults`, `MaxFailures`,
`MaxLostAcks`, `MaxResets` and `MaxAttempts` bound TLC's runs only; the theorems hold for every
value of them. `MaxRetry` is not a bound but the count at which the configured
delays saturate, and `BackoffAssumption` says what is required of the delays: they
saturate before the shift overflows. With the sample's 3 and 600 seconds that is
at a count of 8; `LoopAssumption` says the same for `Provisioning`. In the run of
`SasToken` block, length and digest have their real sizes, and only the inputs are
chosen: 16 keys (`MCKeys`) and 8 lengths of text. `SizesAssumption` and
`InputsAssumption` are what its theorems ask of them: a length field shorter than a
block, a digest no longer than one, and keys that are not empty. The byte count of a
message stays far below the width of the code's: the buffers of the key and the text
have 96 and 128 bytes.
No symmetry is used.

### Fairness

Weak fairness of the application thread and of the callbacks: ThreadX runs a
ready thread of the highest ready priority, and both threads block in every turn.
Weak fairness of `PeriodElapsed`: the tick interrupt. Weak fairness of
`LinkOpened`: the library ends an attempt that it reported as pending, with
success unless a failure (a counted one) comes first. Strong fairness of the twin's arrival: the hub
answers a request if the connection is up again and again. Failures are finite
in number, which is what "once the failures end" means. `Provisioning` has the
same, and its calls return, `register` with `NX_WAIT_FOREVER` included.
`Connection` is fair only to the end of a pending attempt and to the notice of an end.
In `LedReporting`, weak
fairness of the two halves of the report handler: a connected loop triggers it
every five seconds (`TelemetryKeepsFlowing` is the same fact, checked, for the
telemetry flag set together with it). In `SntpClient` and `Startup`, weak fairness of
the two threads and strong fairness of an update from a server that is asked again
and again; a Wi-Fi join succeeds in the end, as the code repeats it for ever. In
`DpsMqtt`, weak fairness of the two threads, which with the time-out is all that
`CreateDecided` needs: neither the service nor the network is fair.

## What is proved

Every theorem is for every value of the constants, under the assumptions named
in the modules.

`SampleEventLoop_proofs`, under `BackoffAssumption` and `BoundsAssumption`:

- `TypeCorrect`: `Spec => []TypeOK`.
- `NeverBlocksForever`, `ConnectedIsNotPending`, `EndIsReported`,
  `OpeningIsReported`, `RecoveryFromFailure`, `UnionNeverShared`: the safety
  invariants; `KeepsHealthyLink`: the action property; all from `Invariance`.
- `ImplementsConnection`: every step of the loop is a step or a stutter of
  `Connection`, from the same invariant.
- `BackoffStaysBounded`: by an invariant of its own.

None of the safety properties is inductive. `Inv` adds what makes them so:

- `AppInv`: while the thread sleeps it has no flags left to serve (`RECONNECT`
  is the last stage, `ReconnectIsLast`) and the state is DISCONNECTED; the union
  holds a hub client exactly outside INIT.
- `QuietInv`: outside CONNECTING and CONNECTED the connection is down and the
  cloud thread has nothing to say, and when the loop is in INIT or CONNECT no
  flag set by the cloud thread is pending any more. This is the core of the argument:
  between `disconnect` and the next `connect` the loop goes through a whole turn
  (RECONNECT is only set at the end of one), and that turn drops every left-over flag
  through its early returns.
- `CloudInv`: what the cloud thread is about to say is true of the connection.
- `FlagInv`: a DISCONNECT flag pending in CONNECTING or CONNECTED means the
  connection is down and its status word no success.
- `QueueInv`: each message flag pending, taken or about to be set has a message
  of its own in the queue.
- `LinkInv`: `EndOfLinkReported` and `OpenLinkReported`.

`Provisioning_proofs`: `TypeCorrect`, `OnlyWholeClients`, `HubIsTheOneNamed`,
`UnionReused`, and `RefinesLoop`, the refinement of `SampleEventLoop`. The
invariant is `LadderInv`, which says what the union holds at each place of the
ladder (exactly the calls before it, by `Order`), and `ReadyInv`, which says that
outside INIT the hub client is whole and its hub the one named last. `RestKeepsInit`
shows that the rest of the loop neither enters nor leaves INIT. The theorems about
the loop with the single step are then taken over by instantiation (`LoopProofs`,
with `SameLoop` and `SameBounds`): `LoopSafety` is the loop's seven safety
invariants, `LoopKeepsHealthyLink` its action property, and `LoopFollowsConnection`
the composition of the two refinements, from the calls of the ladder up to
`Connection`.

`LedReporting_proofs`: `TypeCorrect`; `AgreementLasts` (`StaysInStep`, from
the type invariant and `ReportOutcome`); `InStepUnlessFailed`, from `PassInv`,
which says what holds between the two halves of a pass.

`SntpClient_proofs`, from `ServerAssumption`: `TypeCorrect`, for a list of any
length (`NextServerInList`), and `TimeBeforeSample`, from `Announced`: the flag the
application waits for is only set over a time.

`Startup_proofs`: `BootImplements`, the safety part of the refinement of
`SntpClient`, through which `TimeBeforeSampleAtBoot` follows from `TimeBeforeSample`;
`NetworkStays` and `OnlyResolvingSamples`, from `NetworkInv` (what each stage finds
alive; where there is an IP instance there is its pool, unless the common code's wait
failed, `PoolOrException`) and `GarbageInv` (with a garbage name server the SNTP thread
gets no further than its first run). `BootTypeCorrect`, and `CleansUp` (`FailedBringUpCleansUp`), from
`LadderInv`: at every call of a ladder the objects that exist are exactly those the
calls before it created (`Made`), or, in the common code after a failed wait for an
address, some of them without the pool. Its argument has four parts. `Climbs`: each call's
successor finds what the call created. `NeedsMet`: what a call works on is among it.
`CleanUpIsWhole`: each clean-up deletes exactly what exists, call by call on the three
boards. `AscendingInOrder`: all clean-ups delete in one order, DNS, DHCP, IP, pools, and
deleting in that order deletes nothing before its users, so that nothing is refused.

`DpsMqtt_proofs`: `TypeCorrect`, `SuccessIsAssignment`, `IdentityFixed`,
`FailureCleansUp`. The invariant is `QuietInv` (at every step outside the
registration itself the MQTT thread is idle and its queue empty, which is what
makes a late answer harmless), `AnswerInv` (each name in the queue or the buffers, if
it is there at all, was assigned in this attempt) and `SuccessInv` (the flag stands
for an answer that was taken: a name that is missing was missing in one).

`SasToken_proofs`, from `SizesAssumption` and `InputsAssumption`, for every size of a
block, a length and a digest, every key and every length of text: `TypeCorrect`;
`NoByteLost` (`NothingLost`); and `Signature` (`SignsAsDefined`), the functional
correctness of the token's signature against FIPS 180-4 and RFC 2104. None of the
three is inductive. `Inv` is, and `Invariance` proves it:

- `TypeInv` and `PlaceInv`: where the padding may be; while a piece is fed the position
  is the byte count modulo the block, and it passes the end of the block for one step
  of the padding only.
- `ContentInv`: the blocks transformed and the filled part of the buffer are, byte by
  byte, what was fed, and while padding they are the beginning of the padded message of
  the reference definition.
- `MessageInv`: what was fed, followed by what is still to be fed, is the message of the
  present pass.
- `KeyInv`: the key in use is the device's own, or its digest if it is longer than a
  block and that digest has been made; this rests on the round trip through base64
  (`DecodesEncoded` and the length that goes with it), which is proved for every
  sequence of bytes.
- `DigestInv`: every digest made so far is that of a padded message, in order.

Here the induction is over the steps of the program, byte by byte, and not over the
data, which is why no recursion is needed. The length field is `LengthByte`, in the code
and in the reference: it stands for the 64 bit length for messages below 2^32 bits.

Only model-checked: the liveness properties (`EventuallyConnected`,
`TelemetryKeepsFlowing`, `ReportAcknowledged`, `ReconnectsUnlessDeleted`, `StartDecided`,
`CreateDecided`) and the fairness part of `ConnectionFollowedInTime`, which need fairness
and `ENABLED`. Every other property of a passing run is a theorem.

## Not modelled

- `sntp_time_get`: a pair of words read and written under one mutex, and the wrap of a
  32 bit tick difference, which takes over 490 days without an update at ThreadX's default of
  100 ticks a second.
- The connected part of the MQTT wrapper (`azure_iot_mqtt.c`: connection to the
  hub, reconnect in the disconnect callback, dispatch, responses), the NX client
  wrapper (`azure_iot_nx_client.c`) and the plug and play helpers. They are compiled into
  the core library, but nothing in this repository calls them, and
  what they do hinges on libraries that are submodules and absent: whether a callback may
  call back into its own client, and which tokens the JSON reader delivers. A
  model would be one of guesses.
- `json_utils.c`: a search over the token array of jsmn, likewise absent.
- `checkWifiVersion`: prints a warning and decides nothing.
- The sampling and timing in the VT drivers, the telemetry values and their JSON,
  `url_encode`, the text that is signed, the rounds of SHA-256: data without control
  that a property here would tell apart.
- The board support: register settings, fonts, console output, the sensors' drivers.
- The network stack vendored for the STM32L4 board: a cut of NetX Duo without a TCP/IP
  stack, and `nx_wifi.c`, which maps its sockets to those of the Wi-Fi module. It is
  third-party code below the calls the modules take as external. Its socket table is
  read and written under one mutex, which every operation on a socket and each round of the
  receiving thread hold except while they sleep.
- The vendored code. By far the most of the repository's lines are the
  vendors' HAL and CMSIS headers and drivers, board support packages, Wi-Fi and
  startup code. They are third-party parts the sample is built on, not the sample, and
  the part of the repository the modules stand for is small for that reason.
