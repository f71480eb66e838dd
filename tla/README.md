# A specification of the Frontier ESP32 firmware

The firmware in `src/main` runs on an ESP32-P4 with FreeRTOS. It puts a device
on a wired network that may demand EAP-TLS (802.1X), and serves a web interface
over HTTPS with which an administrator logs in, reads the state of the device,
changes its network settings and restarts it. This directory holds TLA+ models
of its core, TLC configurations that check them, and proofs for TLAPS.

## 1. The system

Four tasks run, plus short-lived ones, and nothing in the code takes a lock:
what keeps tasks apart is queues, waiting, and the order of things.

| Task | Runs | Created by |
|---|---|---|
| main | `app_main`: initialisation, `eap_tls_supplicant_start`, the status loop | ESP-IDF |
| HTTPS server | every request handler, one at a time | `httpd_ssl_start` |
| `web_api_task` | every command of the web interface | `web_api_start` |
| Ethernet receive | `eap_frame_handler` for every EAPoL frame | the driver |
| event loop | `ethernet_event_handler` | ESP-IDF |
| `reboot_delayed_task` | sleeps 750 ms, then `esp_restart` | `web_api_task`, one per accepted command |

### Inventory

**Web API dispatcher** (`web_api.c`). State: the queue `s_request_queue`, one
reply queue per call (a heap block whose handle travels in the message), the
reboot tasks. Operations: `web_api_call` (make a reply queue, send, wait, delete
it), the loop of `web_api_task` (receive, execute, reply, schedule a restart),
`reboot_delayed_task`. Hard: both waits time out, and a caller that gives up
deletes the reply queue while `web_api_task` still holds its handle; the block
may belong to a later call by then; nobody compares `request_id`; commands go
on while a restart is pending. Correct when: every reply meets the reply queue
of its own call; a caller gets its own reply; commands run once, in order, and
never after their send failed; a command accepted with 202 restarts the device.

**Session tokens** (`auth_service.c`). State: the array `s_tokens` of five
entries. Operations: `issue_token`, `auth_service_logout`,
`auth_service_verify_token`, each of which purges expired entries first. Hard:
expiry is lazy, a login into a full table displaces slot 0, logout stops at the
first match, the array is used by two tasks. Correct when: a token is accepted
exactly from its login until it expires, is logged out or has to give way.

**Credentials** (`auth_service.c`, with the commands in `web_api.c`). State:
`/spiffs/config.json`, `s_initialized`. Operations: `auth_service_init`,
`auth_service_login`, `auth_service_change_password`. Hard: `fopen("wb")`
truncates the file, any later access may fail, a pending restart may strike in
between, and every read error is taken for a missing file and answered by
writing the default credentials. Correct when: nobody gets a session or changes
the credentials without knowing the password that counts.

**HTTPS request handlers** (`https_server.c`). State: none that outlives a
request. Operations: one handler per URI; most verify the token, read the body,
make one `web_api_call` and answer. Hard: the token is verified before the
command is queued, in an array another task writes. Correct when: handlers and
`web_api_task` do not meet in the array, what was verified still holds when the
command runs, a client is told the outcome of its own request, and always told.

**EAP-TLS supplicant** (`eap_tls_supplicant.c`). State: `s_state`,
`s_authenticated`, `s_eap_identifier`, the input buffer `s_tls_in`, the TLS
session, the output buffer `frame`. Operations: `eap_tls_supplicant_init` and
`_start` in the main task, `eap_frame_handler` in the receive task. Hard: the
two tasks share `s_state` and `frame`; frames are lost and repeated; a new
handshake does not clear the input of the old one; lengths wrap around.
Correct when: `s_authenticated` is backed by a handshake the device itself has
finished, and an undisturbed exchange succeeds.

**Ethernet link** (`ethernet_init.c`). State: `s_link_up`. Operations: the event
handler. Correct when: the flag says what its readers take it for.

**Boot sequence** (`main.c`). State: where the main task is. It asserts each
step: a step that fails restarts the device.

**Network configuration** (`network_config.c`, `nvs_config.c`). State: the RAM
copy `s_saved_config`, six NVS keys, the addresses and the DHCP client of the
network interface. Operations: load and apply at boot, save, report. Hard: RAM
is changed before NVS; the keys are written one by one, and a restart or an
error may come between any two; read errors count as missing keys; the boot
applies the configuration while the event loop may start the DHCP client.
Correct when: what the API reports as saved is what the next boot finds; what
was accepted with 202 is not lost to a save that did not get through; a static
address, once applied, stays.

**Others.** `handlertest.c` is not in the build; `http_server.h` and
`tcp_server.h` are included by no source file of the build; certificates,
partition table and build files have no behaviour.

### How they interact

```
client -> HTTPS handler --verify--> s_tokens <--login, logout, verify-- web_api_task
                |                                                          |    |
                +------ s_request_queue --------------------------------->+    +-> config.json, NVS
                +<----- reply queue of the call ---------------------------+    +-> reboot_delayed_task
authenticator <-> Ethernet receive task (eap_frame_handler) <-s_state, frame-> main task
PHY, DHCP -> event loop -> s_link_up -> main task
                 |
                 +--> DHCP client, addresses <-- network_config_apply (main task, from NVS)
```

## 2. The modules

| Module | Models | Extends |
|---|---|---|
| `WebApi` | the dispatcher: callers, heap, worker, restarts | |
| `Sessions` | abstract: what the token table promises | |
| `TokenTable` | `s_tokens` and its operations; refines `Sessions` | |
| `AuthService` | credentials and operations around the table | `TokenTable` |
| `Gateway` | the handlers, composed with the dispatcher | `WebApi` |
| `EthernetLink` | PHY, event loop, link flag | |
| `Supplicant` | both tasks of the supplicant, boot included | `EthernetLink` |
| `EapExchange` | supplicant, link, lossy wire, authenticator | `Supplicant` |
| `EapWay` | the inductive invariant of the exchange | `EapExchange` |
| `EapUndisturbed` | that of the exchange without losses and link failures | `EapExchange` |
| `NetConfig` | the saved configuration, its NVS keys, the boot that applies it | |
| `WebApiProofs`, `NetConfigProofs`, `EapProofs` | theorems about `WebApi`, `NetConfig`, `EapExchange` | the module |
| `EapSafetyProofs` | the safety theorems of the exchange | `EapWay`, `EapProofs` |
| `EapUndisturbedProofs` | the theorem of the undisturbed one | `EapUndisturbed`, `EapProofs` |
| `TokenTableProofs` | theorems about `TokenTable` | `TokenTable` |
| `AuthServiceProofs` | theorems about `AuthService` | `AuthService`, `TokenTableProofs` |
| `GatewayProofs` | theorems about `Gateway` | `Gateway`, `WebApiProofs` |
| `MC...` | constants for TLC | |

### WebApi

`pc[c]` is where a caller is in `web_api_call`. Each blocking point of the
function is a state: `idle` -`Call`-> `sending` -`SendRequest`-> `receiving`
-`ReceiveReply` or `ReceiveTimeout`-> `deleting` -`DeleteReplyQueue`-> `idle`,
with the early returns `CallNoMem` and `SendTimeout`. `wpc` does the same for
`web_api_task`: `idle`, `executing`, `replying`, `scheduling`. A timeout can
strike at any moment at which the awaited thing is not there: the model has no
clock, so no relation between the timeouts is assumed.

A reply queue is a heap block. `owner[b]` is the call it belongs to now (0: the
block is free), `mailbox[b]` what is in it. The message carries the block, as in
the code, and `Call` may be handed any free block, the one just deleted
included. A send to a deleted queue is undefined behaviour; its outcomes here
are that nothing that is used is touched (`ReplyDangling`), a panic
(`DanglingPanic`), or, when the block has been handed out again, a response in
the mailbox of another call (`Reply`).

The commands are kept apart by the answers their case of the switch can give;
the eight that build a reply from current state are one. `boot`, `calls`,
`abandoned` and `lastDone` are history.

### Sessions, TokenTable, AuthService

`TokenTable` has the array, the time and one action per operation, purge
included. A token is a value: 24 random bytes are never drawn twice (`issued`
remembers them over restarts). `Sessions` is a set of sessions that vanish the
moment they expire, with no slots and no purge; an entry of the array that is
used and not expired *is* a session (`AbstractSessions`).

`AuthService` lets `web_api_task` execute one operation at a time, cut at every
file access: `phase` is the function it is in, `io` the access that comes next.
A restart (`AuthRestart`) is possible between any two of them, which is what a
pending `reboot_delayed_task` or a power failure do. Salt and hash are
abstracted to the password they stand for, a file that `read_auth_config`
rejects to `Unreadable`. `fopen("wb")` truncates (`OpenTruncates`), `fwrite` may
be cut short (`WriteShort`), and the unchecked `fclose` may lose the data
(`CloseLosesData`). The initial file is any file, the flashed one or none.

### Gateway

A handler is `verifying` while it is in the token array, then reads the `body`,
then is `calling`. `Endpoints` lists which steps an endpoint takes; the
password endpoint leaves the verification to `web_api_task`. The steps of
`web_api_call` are the actions of `WebApi`, conjoined.

### EthernetLink, Supplicant, EapExchange

One action of `Supplicant` is one run of `eap_frame_handler` up to the moment
the response is in the shared buffer; `RxTransmit` sends what the buffer holds
*then*. The main task is cut at each point where the receive task can come in
between: after the check of `s_state`, after the build, after the transmission
and before `s_state = EAP_TLS_START`.

TLS messages are abstracted to the fragments of the server's two flights,
tagged with the handshake they belong to. The engine counts those it has eaten
in order; anything else breaks it, and a broken engine may either ask for more
or report an error, with or without an alert, and with any rest of the input
unread. Until `eap_tls_supplicant_init` has run the identity is empty and the
response to an Identity request has no type: nobody takes it, it is `Silent`. The wrapped lengths are modelled
by what they do: `StartOverflows` and `StartPanics`. A response that is built
over by the other task is sent twice, or cut off and ignored.

`EapExchange` adds an authenticator that behaves as the RFCs ask (external), a
wire that loses frames, link failures and restarts. A device that restarts takes
its link down. The authenticator repeats a request only when no answer is under
way: its timers are longer than a round trip. Handshakes are told apart modulo
`Epochs`: input of an earlier handshake cannot survive two Starts, since the
first of them has the engine read all of it.

`EapWay` says what keeps the two sides in step. The device answers a packet at
most once and before it takes the next, and the authenticator asks once for each
answer it takes, so all that is under way forms one line: the frames sent to the
authenticator, the response in the buffer, an EAPOL-Start still to be sent, the
packets on their way to the device (`Way`). `Line` lists the lines that occur, by
what the authenticator waits for, and the other parts of `ExchangeInv` rest on it
(see the proofs). `EapUndisturbed` does the same where nothing is lost: `OnTrack`
follows the one frame and the state the supplicant must be in for it.

### NetConfig

`nvs` holds the six keys, `Absent` for one that was never set, and `Load` is
what `nvs_config_load_network` makes of them. `stage` is where `app_main` is:
`LoadConfig`, `StartEthernet`, then either `ApplyDhcp` or `GetStatus`,
`StopDhcp` and `SetAddress`, the calls of `network_config_apply` between which
the event loop can run. `Connected`, `Disconnected` and `GotLease` are what
esp_netif does with the DHCP client meanwhile (external); stopping the client
takes back its addresses and may leave its DNS servers. `SetAddress` while the
client runs would be refused, and the assertion in `app_main` would restart the
device.

`web_api_task` is in `network_config_save` from `BeginSave`, which has already
replaced `s_saved_config`, over `OpenNvs` and one `SetKey` per key to `Commit`
or `SaveFails`. Each `nvs_set` is durable at once and `nvs_commit` only
flushes, so `DelayedReboot` and `Crash` leave the keys that were set.
`EraseNvs` is the partition that `nvs_config_init` erases: it takes `accepted`
with it, since then nothing is promised. An address is a number, 0 if not set.
`booted`, `accepted`, `later` and `stale` are history.

## 3. The runs

| Run | Question | Bounds |
|---|---|---|
| `WebApi` | Which calls can a late reply reach? Can a command run twice, out of order or after its send failed? Does 202 lead to a restart? | 4 calls, 2 blocks, queue of 2, 1 caller |
| `TokenTable` | Does the array implement the abstract sessions? | 3 slots, 5 tokens, lifetimes 1 and 3, time 0..4 |
| `AuthService` | Who can get in or change the file, and what do the answers tell of it, over faults and restarts? | 2 tokens, 3 passwords, 2 user names, 1 slot |
| `NetConfig` | What do NVS and the next boot hold when saves are cut off at any key, and what does the boot apply against the event loop? | 2 static configurations, 3 saves, 1 fault, any restarts |
| `Gateway` | Do handlers and worker stay apart in the array, whose response can a client get, and is every request answered? | 3 calls, queue of 1, 4 kinds of commands |
| `EapExchange` | Can a Success be taken that the device's handshake does not back? | 2 + 1 fragments, buffer of 2, 3 handshakes, 4 identifiers, 1 loss, 1 link failure, 1 repetition |
| `EapAuthenticates` | Does an undisturbed exchange succeed, with `MainKeepsUp` and an authenticator that waits for EAPOL-Start? | 4 + 1 fragments, buffer of 4 |
| `EapStart`, `EapOverflow`, `EapChannel`, `EapStatus`, `EthernetFlag` | Do comments and assertions of the code hold? (No.) | as `EapExchange`, with the faults each needs |

Why the bounds are enough. The dispatcher's hazards need one abandoned call, one
that gets its block, and one more to fill the queue; four calls allow one to
spare. There is one caller because the firmware has one HTTPS task; the proofs
cover any number. With three slots a login finds the table empty, partly
expired, and full, and can displace twice. In `AuthService` the table's slots
play no part. The two configurations of `NetConfig` differ in every address, so
that every mixture of keys shows, and one of them has no first DNS server; three
saves let two that are cut off follow one that is accepted, and the fault can be
an error of any access, a power failure, an erased partition or a task
that is not created. The fragments of the exchange fill the input buffer exactly, so
that one repeated fragment overflows it; one loss or one link failure at any
point reaches every state of the handler, and three handshakes let two mix.

`CHECK_DEADLOCK FALSE` stands where the bound on calls stops the model.
`TokenTable` and `AuthService` use symmetry in tokens (and passwords); the runs
with liveness use none.

### What they show

*Web API.* `ReplyQueuesAlive`, `OwnReplies`: the handle is alive and the reply is
one's own, with one exception, which both state. From the first call that timed
out waiting (`LateSince`) its reply may dangle, or land in the recycled queue of
the next call, which takes it for its own. The reply to that call is then late in
its turn, and one timeout can shift every later answer by one. It never goes the
other way: no response is that of a later call, nor of one before the first
timeout. `ExecutesInOrder` and
`UnqueuedNeverRuns` hold without condition: an `ESP_ERR_TIMEOUT` of the send
means the command never runs, one of the wait leaves it open.
`AcceptedReboots`: a 202 leads to `xTaskCreate`, and when that succeeds to the
restart; the code ignores its result, so the restart is all that can be lost.

*Gateway.* `TableExclusive` and `StillAuthorized` are the reason why the array
needs no lock: one HTTPS task, and it waits. Both end with the first timeout.
`AnswersOwnOrLate`: a client is told a status its own command can have, from the
response to its own call; or, since the first timeout, that of an earlier
request, with whatever status that one had. `RequestsAnswered` holds although
nothing is assumed of `web_api_task`: both waits are bounded.

*Tokens and credentials.* `ImplementsSessions` and `OnlySlotZeroDisplaced` say
what the table keeps. `SessionNeedsCredentials` and `PasswordNeedsKnowledge` hold
over every fault and restart, with the exceptions the code makes and the
properties name: admin/admin is always let in, and an unreadable file counts as
the default password. `AnswerTellsStored`, over every fault too: after 200 the
new password is stored, or, when an access failed, the file has no credentials
(`fclose` unchecked); after any other answer the file is as it was, or without
credentials of a user, which takes a failed access or a file that had none.

*Network configuration.* `SavedIsStored`: the API reports as saved what the next
boot will find, unless the last save failed or this boot could not read a key.
`AcceptedSurvives`: each key in NVS is that of the configuration last accepted
or of one whose save has begun since. It is as much as can be said: a switch
from DHCP to a static address that is cut off after its first key leaves a
static configuration without addresses, and one static configuration cut off on
top of another a mixture of both. `DhcpNeverMixes`: the other direction is safe,
since `dhcp` is the first key. `StaticStaysStatic`: the boot and the event loop
race for the DHCP client, and the static address wins whatever their order.
`AcceptedApplied`: a configuration answered with 202 is the one the device comes
to run with, unless another save begins or a fault strikes.

*EAP.* `SuccessAfterHandshake` holds although the code takes every Success, since
the authenticator sends one only after an acknowledgement that the device gives
in a state it reaches with the engine done. `InputIsCurrent`: an intact engine
never has bytes of an older handshake before it after a Start. `ExchangeInv` is
the invariant both follow from: at most three frames are ever under way, in one
of the lines of `EapWay`, and the handshake the authenticator takes for the
current one is the engine's. `Authenticates`
and `NeverRejected` show that the exchange succeeds, though only because the
authenticator authenticator repeats its last fragment: the device enters AUTHENTICATED without
answering it. `OnTrack` says why nothing else can happen on the way. All three
rest on an authenticator that waits for EAPOL-Start and repeats its requests, and
on `MainKeepsUp` (see Fairness); the code ensures neither.

### What they refute

* `EapStart`: `main.c:56` asserts that `eap_tls_supplicant_start` succeeds. It
  returns `ESP_ERR_INVALID_STATE` when the receive task has handled a packet
  before, and the device restarts.
* `EapOverflow`: `eap_tls_supplicant.c:422` says the authentication is
  restarted. The line before has set FAILED, in which the start is refused.
* `EapChannel`: `eap_tls_supplicant.c:516` logs a completed handshake and enters
  AUTHENTICATED, also after an engine error, as one lost frame brings about.
* `EapStatus`: `main.c:62` reports that everything works on the evidence of an
  earlier link: nothing clears `s_authenticated` when the link goes down.
* `EthernetFlag`: `main.c:60` takes the flag for the physical state; a lost
  address clears it too (`ethernet_init.c:81`).

### Fairness

* `CallerFairness`: both waits of `web_api_call` end with a tick, so a call takes
  its next step whatever the others do.
* `WorkerFairness` (in `WebApi`, not in `Gateway`): no command hangs, and a
  sleeping task wakes up.
* `Fairness` of `NetConfig`: the boot goes on, with readable keys some time, and
  the delay of `reboot_delayed_task` ends. Nothing is assumed of the link, a
  DHCP server or `web_api_task`.
* `GatewaySpec`: a handler takes its next step; nothing of `web_api_task`.
* `EapFairSpec`: the tasks of the device run, the event loop delivers, the cable
  is plugged in, the authenticator answers and repeats. `MainKeepsUp` excludes,
  in `EapAuthenticates` only, that an answer to EAPOL-Start arrives before the main task
  stores START right after sending. The code does not ensure that, and in
  `EapExchange` it is not excluded; `EapAuthenticates` needs it for its safety
  properties too, `NeverRejected` and `OnTrack`, and so do their theorems.

## 4. The proofs

`WebApiProofs`: for any sets of callers, blocks and commands, any queue length
and any number of calls, from `WebApiAssumption` and `NilAssumption`:
`TypeCorrect`, `RepliesMeetLiveQueues`, `RepliesAreOwn`, `CommandsInOrder`,
`FailedSendsNeverRun`. They follow from `Invariance`. None of the properties is
inductive; the invariant `IInv` adds

* `Calls`: a call in progress has a number of its own and owns its reply queue;
* `AllNumbered`: a message under way has a number its caller has reached, and no
  other caller's;
* `Ordered`: the messages of a caller are under way in the order of its calls,
  behind the last one executed;
* `Traced`: the caller of an unanswered message is still `receiving` with its own
  empty reply queue, or the message is late (`LateSince`); its handle is never that
  of an earlier call, since a block is handed out again to later calls only; and
  every response in a mailbox or copied out is the caller's own, or late and of
  an earlier call.

`Traced` needs `Calls` (a freed block is nobody else's), `UnqueuedNeverRuns` needs
`AllNumbered` (a new number is in no message), and `ExecutesInOrder` is a
conjunct of `Ordered`. Each has a lemma with one step per action.

`TokenTableProofs`: for any number of slots and any lifetimes, from
`TokenTableAssumption`: `TokenTypeCorrect`, `LoginDisplacesSlotZero`, and
`TableImplementsSessions`: initial states map to initial states and every step to
a step of `Sessions`. The refinement needs the lemma `TokensStayUnique` (a logout
clears one slot, the abstract one all sessions of the token), which rests on
tokens being drawn fresh, and counts live slots against the capacity
(`SessionCount`).

`NetConfigProofs`: for any set of static configurations, any lease and any
number of saves and faults, from `NetConfigAssumption`: `NetTypeCorrect`,
`ReportsWhatIsStored`, `KeysAreAccountedFor`, `DhcpSwitchIsAtomic`,
`StaticAddressStays`. The invariant adds `Saving` (the keys before the next one
hold the configuration being saved, which is also the one in RAM) and `Applying`
(what is being applied is what was loaded, and addresses are set with the client
stopped). After the last key, `Saving` makes NVS equal to what was saved, which
is all `Commit` needs.

`GatewayProofs`: the actions of the composition contain those of `WebApi`, so its
invariant holds here too; to it the invariant adds `Serving` (a handler in a call
serves an endpoint with a command) and `Fitting` (the messages and responses of
the call in progress are about the request being served). `GatewayTypeCorrect`
and `StatusIsOwn` follow. `TableIsExclusive` and `AuthorizationIsFresh`
assume `OneTask`, that there is one caller, as `main.c` starts one server: with a
second HTTPS task neither property holds, since one task may verify while the
other waits for a login. The second needs `Verified` too: no login or logout was
executed since a request under way was verified.

`AuthServiceProofs`: for any passwords, user names and tokens, every fault and
restart: `AuthTypeCorrect`, `AnswersAreTrue`, `SessionsAreEarned`,
`PasswordsAreEarned`. What an operation writes is decided several accesses
before, so the invariant follows it: `Loading` relates the file to what it was
when the operation began, `Checking` says that the configuration in memory is
that of the file, `Saving` that the one about to be written was earned, and that
the file is as it was, or without credentials once it has been truncated.

`EapProofs`: `EapTypeCorrect`, for flights of any length, any buffer and any
bounds, from `LinkAssumption`, `SupplicantAssumption`, `NilAssumption` and
`EapAssumption`. It includes that the input buffer is never overfull and that
nothing is transmitted that was not built. Its substance is what the engine may
leave behind (`HandshakeTypes`) and which packet the authenticator sends next
(`FollowingTypes`).

`EapSafetyProofs`: for flights and buffers of any size and any numbers of losses,
link failures and repetitions, whether or not the authenticator initiates and
whatever overtakes EAPOL-Start: `InStep` (the invariant), `FewUnderWay`,
`NoStaleInput` and `SuccessIsEarned`. One assumption more: `EnoughIds`, four
identifiers or more. The identifier of EAP is a byte, so the code has 256; with
two of them TLC finds an old response accepted for the outstanding request and
`InputIsCurrent` violated, and with three the invariant is not inductive. The
handshake numbers need only be two: no more than two are ever told apart.

The argument goes in one direction, each part resting on those before it.

* `LineOK`: at most three frames are under way, and which ones, by the phase of
  the authenticator. Every step takes the head of the line, puts a new end to
  it, or turns the first packet for the device into its response in place; a
  loss, an overtaken EAPOL-Start and the end of a session shorten it. The case
  that needs the identifiers is an answer to an earlier Identity request that is
  still under way with a TLS Start behind it: it must not be taken, or two TLS
  Starts follow each other. From the line, a TLS Start or a data request under
  way is alone but for EAPOL-Start.
* `SameHandshake`: hence no session is reset behind a ClientHello or a fragment
  that is under way, and what the authenticator goes on with is the handshake of
  the engine.
* `CurrentInput`: hence every fragment stored is of that handshake. Stale bytes
  can be in the buffer only at a TLS Start, and it empties the buffer.
* `EngineOK`: how far an unbroken engine is in KEY_EXCHANGE and
  CHANGE_CIPHER_SPEC, and that output left over is an alert.
* `LastFlightOK`: the second flight is asked for only when the engine has eaten
  the first, and acknowledged only when it has eaten both. The acknowledgement
  comes in the state AUTHENTICATED, or KEY_EXCHANGE, which is excluded here; the
  state START, which the main task may write at any time, answers nothing.

`EapUndisturbedProofs`: assuming `Undisturbed` (no loss, no link failure,
`MainKeepsUp`, a flight that fits into the buffer, an authenticator that repeats
at least once and waits for EAPOL-Start): `StaysOnTrack` and `NoRejection`. Every
conjunct is needed: TLC finds `NeverRejected` violated with any one of them
dropped. Without a repetition the authenticator gives up, a flight that does not
fit fails, and after an answer that overtakes the store of START the fragments
are never answered. `EapAuthenticates` is an instance of it.

`NilAssumption` keeps `Nil` apart from frames, packets and outputs of the engine.

Only model-checked: what is live (`AcceptedReboots`, `RequestsAnswered`,
`AcceptedApplied`, `Authenticates`), which together with ENABLED is out of the
prover's reach. Every invariant and every action property of a passing run is
proved.

## 5. Not modelled, and why

* Static files, SPIFFS mounting, server and driver set-up, `tls_init`: straight
  I/O that either works or fails at boot, where an assertion restarts the device.
* A flight of the device that is larger than `s_eap_out`, into which it is copied
  unchecked: what it writes over depends on the memory layout.
* The contents of replies; JSON; hashing.
* A failing `malloc` for a response frame: to the peer it is a lost frame.
* Fragments without the length flag, whose first four bytes the code drops, and
  the 82 bytes it clears behind the frame buffer: no memory layout here.
* ESP-IDF, mbedTLS, authenticator: external, modelled by what the code relies on.
* The token array at a grain finer than an operation: what happens in it *after*
  `TableExclusive` has ended.
* Settings stubs answer 200 and do nothing (`StubAnswer`).

## 6. Plan

Done, in order of importance: `WebApi`, `TokenTable` with `Sessions`,
`AuthService`, `Gateway`, the EAP exchange, `NetConfig`; proofs of every safety
property of a passing run and of the refinement of `Sessions`.

Next:

1. The token array entry by entry with two tasks, composed with `Gateway`, to
   state what still holds after a timeout.
2. `AuthService` and `NetConfig` behind `WebApi`, so that their restarts are
   those of accepted commands.
3. Safety lemmas towards the live properties: what `Authenticates` needs beyond
   `OnTrack` is that each of its steps stays enabled until it is taken.
