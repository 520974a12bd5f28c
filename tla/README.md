# A TLA+ development for juanSFU

juanSFU is a small WebRTC selective forwarding unit: browsers sign in over a
WebSocket, one publishes audio and video, others pull it, and the server
terminates ICE, DTLS and SRTP for each of them and relays the packets. This
directory holds TLA+ models of the server's own code, of its web client and of
the parts of WebRTC's `rtc_base` library that are kept in the repository, the
TLC configurations that check them, and TLAPS proofs of most of the safety
properties that are checked.
`PROJECT.json` maps every definition to the lines it models.

Paths below are relative to `src/server/juansfu/` unless they start with `src/`.

## 1. The system

The server is event driven. One libuv loop (library uvnet, external) runs every
callback: WebSocket messages, UDP packets and the close callbacks of sockets. A
callback is never interrupted, so a handler is one atomic step; what interleaves
is the order of callbacks: commands of several connections, packets of several
peers, and deferred deletions. Threads, locks and atomics exist in
`utils/threadqueue.hpp` and in the library; there the steps are single accesses
to shared memory, or what is done under one lock.

| Component | State | Operations | Interacts with |
|---|---|---|---|
| `WssServer` (signaling/wss_server.cpp) | connection set | on_newconnection, on_message, on_connection_close | calls `SignalingHandle` |
| `SignalingHandle` (signaling/signaling_handle.cpp) | rooms, members and connections of a room, connection to room | handle_join, handle_publish, handle_pull, remove | creates `RoomMember`, takes ports, registers subscriptions |
| `UdpPortManager` (signaling/port_mgr.cpp) | array of ports, array of returned ports, two indices | init, allocate_port, recycle_port | used by `SignalingHandle`, `RoomMember` |
| `RoomMember` (signaling/room_member.cpp) | offer, answer, receiver, per remote address ICE, DTLS, SRTP | start_recv, stop_recv, destory, on_udp_receive | owns the objects below |
| `UdpReceiver` (udp/udp_receiver.cpp) | a `uvcore::Udp` | start, stop, on_udp_receive, deleter | calls back `RoomMember` through plain pointers |
| `IceConnection`, `StunPacket` (udp/) | ICE password, attributes of a packet | parse, validate, binding response | |
| `RtcDtls` (udp/rtc_dtls.cpp) over `OpenSSLStreamAdapter` and `BufferQueue` (rtc_base/) | transport state, SSL state, queue of datagrams | handle_dtls, slot_dtls_event, extract_srtp_keys, destory | reads and writes through `DtlsStreamInterface` |
| `SrtpTransport`, `SrtpSession` (udp/) | sessions, subscribers | set_srtp_param, handle_rtp_data, handle_rtcp_data, on_rtp_packet, on_rtcp_packet | sends to the subscribers' sockets |
| `RtcStreamMgr` (udp/rtc_stream_mgr.cpp) | who pulls from whom, stream of each user | add_subscriber, add_stream, remove_subscriber | links transports |
| `SessionDescription`, `IceCandidate` (sdp/) | media sections, ICE and DTLS parameters | parse_sdp, create_answer, to_string | used by `SignalingHandle` |
| `rtprtcp_pub` (rtprtcp/) | none | is_rtp, is_rtcp, order of sequence numbers | used by `RoomMember` |
| `ThreadQueue` (utils/threadqueue.hpp) | queue, two flags | push_back, push_back_t, pop, clear | not used at this commit |
| `JuanSfu`, `main`, `Global`, `SUtil`, `Singleton` | configuration, certificate | start-up | |
| web client (`src/webrtc-client/p2p/main.js`) | page globals, one peer connection | join, publish, pull, answers | peer of `SignalingHandle` |
| threads and tasks (rtc_base/thread.cc, async_invoker.cc, task_utils/) | message queues, send graph, pending closures | Post, Send, Clear, Quit, Invoke, repeating tasks | used by sockets, streams, resolver |
| sockets (rtc_base/physical_socket_server.cc, openssl_adapter.cc, async_resolver.cc, socket_address.cc) | descriptors, asked-for events, TLS state | Wait, handlers, Connect, Send, Recv, lookups | below the signalling library |
| locks and callbacks (rtc_base/deprecated, synchronization, sigslot) | owner, waiters; connections of a signal | Enter, Leave; connect, emit, disconnect | everywhere in the library |
| certificates (rtc_base/openssl_identity.cc and around it) | references to keys and certificates | create, read, write, fingerprint | used by `Global`, `RtcDtls` |
| data types (rtc_base/buffer.h, byte_buffer.cc, numerics/, units/, time_utils.cc, base64/, ...) | bytes, numbers, times | conversions | everywhere |
| system_wrappers, tracing | histograms, clocks, captures | Enable, log, GetAndReset, estimate | |

What is hard here, and what makes each component correct:

* **Ports.** Which ports the refill copies back depends on the whole history.
  Correct: no port is given to two sockets, none is lost, port 0 is returned
  only when all are taken.
* **Rooms.** Join, offers and close arrive in any order and several times.
  Correct: the two maps of a room agree, a member belongs to one place,
  whoever leaves gives back its port and socket.
* **Object lifetimes.** Sockets are deleted by a later callback while
  transports, DTLS streams and closures keep plain pointers to them. Correct:
  nothing uses a deleted object.
* **Streams.** Publisher and subscriber come up in either order. Correct: a
  user that pulls is reached in the end, and nobody else is.
* **DTLS.** Datagrams are lost, repeated, reordered; OpenSSL calls back into
  the code that called it; no timer runs. Correct: the handshake ends, a peer
  that is done meets a server with keys, a dead connection takes nothing.
* **Formats.** Offsets, paddings and lengths are computed by hand, in 16 bits, on
  both ends of a check; a parser keeps what an earlier offer left. Correct: the
  walk stays aligned, what is written is what the same rules read.
* **SRTP.** Every call of libsrtp may fail and no result is looked at. Correct:
  what leaves is what came in, protected for its receiver, inside its buffer.
* **The page.** A click goes on in promises, and a global decides what it
  becomes. Correct: the request is the one of the button.
* **Threads and callbacks.** Push and wake-up are two steps, a destructor races
  with closures on their way, a slot destroys the list that is being walked,
  descriptors are reused while the events of one wait are handled. Correct:
  nothing is handled twice, for another, or never.
* **ThreadQueue.** Flags kept by hand, notification after unlock. Correct:
  flags agree with the size, no wakeup is lost.

## 2. Modules

The server:

| Module | Models | Composes |
|---|---|---|
| `UdpPortManager` | `port_mgr.cpp` | |
| `PortPool` | what the allocator promises (abstract) | |
| `PortUse` | the allocator with callers that return a port once | `UdpPortManager`, `PortPool` |
| `RtcStreamMgr` | `rtc_stream_mgr.cpp`, subscriber maps of the transports | |
| `DtlsSession` | what a member sees of DTLS (abstract) | |
| `Offer` | what the handlers see of parse_sdp (abstract) | |
| `RoomMember` | `room_member.cpp`, `udp_receiver.cpp`, `srtp_transport.cpp` | `UdpPortManager`, `RtcStreamMgr`, `DtlsSession` |
| `SignalingHandle` | `signaling_handle.cpp`, `wss_server.cpp` | `RoomMember`, `Offer` |
| `Sfu` | the server with its clients, and the properties | `SignalingHandle` |
| `RtcDtls` | `rtc_dtls.cpp`, the adapter, the queue, with peer and network; implements the steps of `DtlsSession` | `DtlsSession` |
| `Stun` | `stun.cpp`, `ice_connection.cpp`: walk, validate, response | |
| `RtpRtcp` | which protocol a datagram is, order and unwrapping of sequence numbers | |
| `SessionDescription` | parse_sdp line by line, create_answer, to_string; keeps to `Offer` | `Offer` |
| `SrtpSession` | keying and the way of one packet, with calls that fail | |
| `WebClient` | `main.js` | |
| `ThreadQueue` | `threadqueue.hpp` | |

The library:

| Module | Models |
|---|---|
| `RtcThread` | `rtc::Thread`: queues, delayed messages, Send and its graph, Clear, Quit, destruction |
| `AsyncInvoker` | the invoker and its destructor |
| `Tasks` | repeating and guarded tasks; durations and timestamps |
| `Locks` | recursive lock (two forms), Mutex, GlobalMutex |
| `Sigslot` | signals and slots that change during an emission; a list of connections is a set ordered by the ids given out |
| `SocketServer` | sockets over select and epoll, the loop and its handlers |
| `TlsAdapter` | OpenSSLAdapter: TLS over a socket, cached sessions |
| `SslStream` | OpenSSLStreamAdapter for any user: digests, timer, posted events |
| `Resolver` | name lookups in threads of their own |
| `Addresses` | IP and socket addresses, masks, priority of a candidate |
| `Certificates` | ownership, PEM, dates, digests and fingerprints |
| `Buffer`, `ByteBuffer` | blocks of bytes and shared blocks, readers and writers |
| `Text`, `Numerics`, `Clocks` | text codings, integers of other types, percentiles, dates and clocks |
| `Metrics`, `Tracer` | histograms and captures of events |

The proofs:

| Module | About |
|---|---|
| `PortUse_proofs` | `PortUse`, and its refinement of `PortPool` |
| `Sfu_proofs` | `Sfu`: types, rooms; the base of the next one |
| `SfuClients_proofs` | `Sfu`: ports, relayed media, invalid accesses |
| `RtcDtls_proofs` | `RtcDtls`, and its steps of `DtlsSession`; `RtpRtcp` |
| `Session_proofs` | `SessionDescription`, `SslStream` |
| `Runtime_proofs` | `RtcThread`, `Locks`, `AsyncInvoker`, `Metrics`, `Tracer` |
| `Sockets_proofs` | `SocketServer`, `Resolver`, `Addresses` |
| `Wire_proofs` | `Stun`, `ThreadQueue`, `SrtpSession`, `TlsAdapter`, `WebClient`, `Sigslot`, `Tasks`, `Buffer` |

`MC*` are the instances for TLC.

**State.** Objects (members, sockets) are numbered and never reused, so that a
pointer to a freed object stays recognisable; the numbers are a bound on the
objects created in a behaviour. A transport is named by its member and remote
address. `up` turns FALSE where the code dereferences a null or freed object;
where the outcome of such a use is open (a freed socket, an uninitialised
cipher suite), so is `up'`. `forwarded` is a history variable. In the library
modules `pc`-like variables hold what a thread does next, and uses of what is
gone are recorded (`wrongs`, `stray`, ...) and must stay empty.

**Actions** are the handlers, whole: `HandlePublish`, for instance, parses the
offer, creates the answer, allocates the port, starts the receiver; `Close`
removes the member from both maps, closes its socket, recycles its port and
removes its subscription in one step, and only the deletion of the socket
(`Deleter`) is a later step, as in the loop. Where the code calls out (a signal,
a slot, a handler) and the callee may call back, the handler is cut there.

**Data.** In the server's modules an offer is one of those of `Offer`; a packet
is "stun", "dtls", "media" or "garbled" (fails unprotect). A DTLS datagram is the
sequence of its records, an SDP a sequence of kinds of lines. A message
authentication code is what goes into it: key, bytes covered, length in the
header. In `ThreadQueue` only the number of elements matters.

**MCWire and MCRuntime** put parts together that share no state. `focus` says
which of them a behaviour is about; the others stand still. So a run checks the
disjoint union of the parts' state spaces, and its properties are those of the
parts. Where one name covers parts that are proved about together
(`SocketsServed`, `RecordsTakenOnce`, `BuffersKeepBytes`), it is stated in a
module below `MCWire`, without `focus`: what stands still in an initial state
satisfies its half of it. `LibraryConverts` is stated in `MCWire`, as
`focus = "byte" => ...` for each part.

**Mutants.** Definitions commented "Mutant" are deliberately wrong variants of
the operator that follows them. They are used by no specification; putting one
in place of its original must break the property `PROJECT.json` names.

## 3. Runs

`tlc -workers 2 -config <cfg> <module>`; sizes are distinct states.

| Run | cfg | Question | Result |
|---|---|---|---|
| ports | PortUse.cfg | Four blocks of two ports, with a remainder: `NoPortTwice`, `NoPortLost`, `BlocksDisjoint`, refinement of `PortPool` | holds, 44 thousand |
| signaling | SfuSignaling.cfg | Every order of join, publish, pull, close; two rooms, repeated offers, connections that join twice, a pool of two ports that runs out: `PortsAccounted`, `RoomsConsistent` | holds, 870 thousand |
| readme | SfuReadme.cfg | The use `src/readme.md` describes, one publisher and two pullers that come and go: `NoGhostMembers`, `AllReturned`, `FaultNeedsDepartedPublisher`, `MediaFollowsPulls` | holds, 1.8 million |
| faults | SfuFaults.cfg | Repeated and defective offers, packets at any time: `FaultHasCause` | holds, 1 million |
| live | SfuLive.cfg | `PullerGetsMedia` | holds, 7 thousand |
| dtls | MCRtcDtls.cfg | One DTLS connection: queue, keys, session steps, no write from stop_recv to the end of the member, `HandshakeCompletes` | holds, 52 thousand |
| wire | MCWire.cfg | Formats, keys, page, sockets, streams, data types: the table below | holds, 850 thousand |
| runtime | MCRuntime.cfg | Threads, invoker, locks: the table below | holds, 104 thousand |
| stream_link | SfuLink.cfg | The comment on add_stream | violated |
| early_keys | SfuKeys.cfg | The assertion in GetDtlsSrtpCryptoSuite | violated |
| publisher_leaves | SfuLeave.cfg | No invalid access with one publisher and one puller | violated |
| dtls_queue | DtlsQueue.cfg | The comment on the adapter's Close | violated |

| Property of wire | Says |
|---|---|
| `WalkExact` | parse_attri, which finds its way by get_real_len alone, is at every round where the peer put the next attribute |
| `RefusedOnlyAfterReoffer` | a peer refuses a binding response only if its offer was answered again since its address was first heard of |
| `ParserKeepsOffer` | parse_sdp does to the first section what `Offer` promises, whatever earlier offers left behind |
| `AnswerReadsBack` | an answer, also one that handle_pull makes of an offer that was refused half way, is read by the same parser with the sections and parameters it was made with, or refused if no version or origin had been read |
| `MediaKeepsPlace` | a datagram has one reader whatever its first two bytes, its cookie and its length, and sequence numbers that wrap are unwrapped to the ones meant |
| `SrtpCarriesPackets` | whichever side of whichever keyings failed before, a session with a context has the key and suite that one call gave to that side, and never refuses a packet or overruns its buffer |
| `RequestsFollowButtons` | a page used as the readme says asks for what its button says; however it is used, also if it joins again meanwhile, three known ways lead to something else |
| `SocketsServed` | an event reaches the socket it is of, although handlers close and reopen descriptors between; a lookup answers to a resolver and a queue that exist |
| `TlsKeepsData` | data goes out once and in order across refused writes and reentrant signals, to a peer that was vouched for; the timer touches no freed object |
| `StreamOpensVerified` | before StartSSL data passes in the clear, as the headers say; from then on none does, and none through SSL before the certificate was compared, whenever the digest was set; no call is left waiting; no DTLS message is cut |
| `SlotsCalledRight` | both ends know the same connections, and an emission calls exactly those that stay connected |
| `TasksKeepTime` | roundings of repetitions do not add up, and nothing runs after Stop or after the flag went down |
| `RecordsTakenOnce` | samples and events recorded while others collect are collected once; of the events of an earlier capture at most one of each thread is in a later file |
| `FlagsTellSize`, `NoLostWakeup` | the bounded queue, with clear |
| `BuffersKeepBytes` | keys are wiped from what is given back, handles see only their own writes, a shared block counts its handles |
| `AddressesKeepOrder` | of two addresses one is less or they are equal; which texts read back and which do not; a sockaddr keeps the family, port and scope, a dual stack one the normalized address |
| `LibraryConverts` | bytes, texts, numbers, percentiles, units, dates, clocks, masks, priorities, certificates: conversions keep the value, references are counted right on every failing path |

| Property of runtime | Says |
|---|---|
| `MessagesSettleOnce` | a message is in one place until it is handled or deleted, once |
| `SleepersAreIdle` | a thread sleeps only when there is nothing to do, or whoever changed that is about to wake it |
| `SendReturns` | a Send returns unless one of those it waits for does not run; cycles are caught before anybody blocks (liveness) |
| `InvokerOutlivesClosures` | the destructor returns, and after it no closure touches the invoker (safety and liveness) |
| `LocksExclude` | one thread inside, and whoever waits gets in (safety and liveness); the spinning form of the recursive lock is built only if `recursive_critical_section.h:35` is set to 0 |

**Bounds.** Two or three users, members and sockets are enough for the cases
that matter: a pool that runs out with a member answered with port 0, a repeated
offer that orphans a socket, a publisher that leaves while two others pull, a
user that comes back under the same name. One remote address per member keeps
the packet runs small; two addresses of one peer are not covered. `MaxOffers`
is 2 where repeated offers are the question. The DTLS queue has capacity 2 (2048
in the code); only equality with the capacity is tested. The widths of numbers
are parameters and scaled so that all their borders are reached: sequence numbers
and timestamps are taken modulo 16 (`Modulus`), a byte of a varint has 2 bits
(`Radix` 4), one of `Numerics` has one, a second 4 milliseconds. Lengths of STUN
attributes are not scaled: they go up to what fits a datagram. STUN's limit of 20
attributes is 3. A port is given as 65537, which 16 bits cut to 1, or is 0 from the
start; two scopes and two keyings are enough for one to replace the other. A page
stays with one user name and one room. In the packet runs a user does not pull
from itself. Scenarios of `RtcThread` list the calls each actor makes, in any
order. Symmetry is used for connections, rooms and pullers, never with liveness.

**Deadlock** is checked for `ports` only. In the others a behaviour may end: all
clients have left, the numbered objects or the counted operations are used up, or
the process has died. What must not be waited for in vain is stated as
properties there (`NoLostWakeup`, `SendReturns`, `LocksExclude`, ...).

**Fairness.** `live` assumes weak fairness of the reception of media on each
socket: peers send RTP and RTCP for as long as they are connected and the loop
dispatches each packet. `dtls` assumes that the peer repeats its flight until it
is answered (RFC 6347), that time passes, and strong fairness of delivery (the
network does not lose every copy). Nothing is assumed of the server's own timer:
`SetTimeout` posts to an `rtc::Thread` that nobody runs. `runtime` assumes weak
fairness of every thread's next step (the system schedules runnable threads), and
nothing of the calls that the threads' users make.

### What the violated runs show

* *stream_link.* `rtc_stream_mgr.cpp:10` says that users in the subscription
  list are added when a new stream is established. `add_stream` links only those
  the new stream's own user pulls from. If the publisher's stream comes second,
  the link waits for the subscriber's next packet (`live` shows that it comes).
* *early_keys.* Media that arrives after the peer's close asks a connection that
  is no longer connected for its keys, which `openssl_stream_adapter.cc:499`
  asserts cannot happen; a transport without sessions remains.
* *publisher_leaves.* A user that only publishes is not removed from
  `RtcStreamMgr`; the puller's next RTCP packet goes to a deleted socket.
  `FaultNeedsDepartedPublisher` shows that, in the use of the readme, nothing
  else leads to an invalid access.
* *dtls_queue.* When the first ClientHello is refused, `slot_dtls_event` stores
  k_failed inside the call, and `handle_dtls` stores k_connected over it.

## 4. Proofs

`tlapm <module>_proofs.tla` checks them. A theorem holds for every value of the
constants its modules' named assumptions admit; further hypotheses stand in the
theorem and are said here. Bounds such as `MaxOffers` or `MaxConns` are constants
like others, so what is proved is proved for all of them. `MCWire` and
`MCRuntime` start each part in its own initial states and let it take its own
steps or stand still: a property proved of `StunSpec`, `SrtpSpec`, `TlsSpec`,
`ClientSpec`, `SigSpec`, `TaskSpec`, `QueueSpec`, `SslStreamSpec`, `SdpSpec`,
`ServerSpec`, `ResolverSpec`, `MetricSpec`, `TracerSpec`, `ZbufSpec`, `CowSpec`,
`AddrSpec`, `RtpSpec`, `ThreadSpec`, `LockSpec` or `InvokerSpec` is the one those
runs check.

**PortUse_proofs**, for every `Start`, `End`, `Step` with `PortRange`.
`NoPortTwice` alone is not inductive: after a refill the two indices say how much
of the array is valid, and this must agree with the number of ports held.
`IInv == TypeOK /\ NoPortTwice /\ NoPortLost /\ Counted` adds it: `Counted` says
that the ports held number `curr - recycle`. From it follow `TypeCorrect`,
`PortsUnique`, `PortsKept`, `BlocksApart` and `AllocatorImplementsPool`, the
refinement of `PortPool` (free = unused and returned ports). It rests on the
callers' rule that a port is returned once by whoever holds it.

**Sfu_proofs**, for all sets of users, connections, rooms, addresses, members and
sockets, and every port range. `RoomsAgree` is `Spec => []RoomsConsistent`, with
`RoomInv`: the types of the maps and of the members, and `RoomsConsistent`
itself; the lemmas say of each handler which of these it touches (offers and
packets change no map and no member's state or uid, join uses a fresh member,
close removes one entry of both maps). `NoGhosts` is `Spec => []NoGhostMembers`
under `JoinOnce`; it needs `Remembered`: whoever is in a room came by an open
connection that is filed under this room, and no connection has two members.
Without `JoinOnce` it is false.

**SfuClients_proofs, ports.** The allocator with the code's real callers, who repeat
offers, leave sockets bound and return the 0 they got from an empty pool.
`PortsAlwaysAccounted` is `Spec => []PortsAccounted`, without a hypothesis. The
counting of `PortUse` fails here (0 is put among the returned ports), so
`PortInv` says instead what is where: the two parts of the array hold different
ports apart from 0, none of them is bound to a socket, no two sockets have one
port, and as long as the pool was never found empty every port is in one of these
places. `ReturnedUnlessExhausted` and `EverythingReturned` (`[]AllReturned`) are
about clients that join and offer once, as the page does (`JoinOnce`,
`MaxOffers <= 1`), the second with no more connections than ports; what is added
is that every open socket belongs to a member whose connection is open. With a
second offer a socket is orphaned and both are false.

**SfuClients_proofs, media.** `RtcStreamMgr` knows a user by its uid, whatever the room,
and by the transport it used last. So the theorems are about users of one room
(`OneRoom`) that send from one address (`OneAddress`).

* `MediaOnlyAlongPulls`: a packet is relayed only between a user that pulls and
  the one it pulls from, for users that offer once, whatever else they send.
* `FaultsHaveCause`: an invalid access has one of the four causes that
  `FaultHasCause` names, for users that either publish or pull, whatever and
  however often they offer.
* `OnlyDepartedPublishersHarm`: with good offers, one of each client, and media
  after the handshake (the use of the readme), only a publisher that has left
  does harm.

The invariant is `BaseInv` (rooms, connections and sockets) with `LinkInv` (a
registered stream belongs to the user it is registered for; a transport's
subscriber entries point to transports of users that pull from its user),
`PullRoles` (who pulls is a puller, from a publisher) and `up \/ Cause`; for the
third theorem also that keyed transports and fingerprints are there. A user that
publishes and pulls, a second room or a second address of a peer make TLC find
counterexamples to these statements.

**RtcDtls_proofs**, for every capacity of the queue, every set of faults and
datagrams with any number of records. `QueueIsDrained`, `PeerUpHasKeys`,
`SessionsAdvance` (`SessionSteps`: the server does what `DtlsSession` says, which
`Sfu` relies on) and `NothingWrittenAfterClose`. The last is about the steps in
which a member ends: stop_recv closes the socket, destory stops the stream, the
member is erased and with it the adapter, whose destructor says close_notify if it
is connected, and the loop deletes the socket at any time after the close.
`Leaving` says that the stream is stopped before the adapter ends, which is what
keeps the close_notify from the socket. `handle_dtls` works through a
datagram with a loop, so the first part is an induction over its records: the set
of numbers of records for which a statement fails has a least element, unless it
is empty. `DtlsInv` adds to the types that the queue is empty while the SSL object
lives, that k_state has left k_new only after StartSSL, what of the server's
flights is on its way in which state, and that only a first flight meets a server
that has not started. The proof of `SessionsAdvance` failed at first: a datagram
that holds the end of the handshake and the alert that closes it takes a session
from connecting to closed at once. `DtlsSession` did not have this step and now
has it, and `MCRtcDtls` lets the peer send such a datagram.

The same module has `MediaAlwaysKeepsPlace`, which is `RtpSpec => MediaKeepsPlace`
for every even modulus and all packets. A datagram has one reader because
is_stun wants a first byte below 3, is_dtls one from 20 to 63, and is_rtp and
is_rtcp the version 2. As to the numbers, two indices less than half of it apart are in the same
round of the counter or in neighbouring ones (`NearIndices`), so the remainders
compare in one of three ways, and `Unwrap` adds the round (`Unwraps`). `RtpInv` says
that the last unwrapped number has the remainder of the last index.

**Session_proofs, offers and answers**, for offers of any lines, any number of
offers, and any ssrcs and groups. parse_sdp is a fold over the lines. What it has
made of the first n of them is shown by the least number for which it fails.
`OffersParsedAsToldOf` is `SdpSpec => []ParserKeepsOffer`: `OfferInv` says that while
an offer is parsed, sections are only added to the ones that were there (`Grown`: an
offer that was refused half way has left some, and the first one keeps its DTLS
part), and that when it ended, the first section's fingerprint is one that the
offer's kind allows after the one before (`FpAfter`). `AnswersReadBack` is
`SdpSpec => []AnswerReadsBack`: the lines of the text that to_string makes are
passed one section at a time, and `AnswerInv` says that an answer is an audio and a
video section without a DTLS part, with some number of ssrcs and groups each: this
holds whatever state the member's and the publisher's descriptions are in, so also
after offers that were refused half way.

**Session_proofs, streams.** `OpensOnlyVerified` is `SslStreamSpec => []StreamOpensVerified`
for every configuration, list of suites and record size. The adapter's functions
map the record of its members to others; a lemma for each says what it comes to
(`Continued`, `Ended`, `Told`), so that the lemmas about steps need not unfold
them. `SslInv` has one conjunct for each part of the property, and `Sound` of the
adapter: which states go with which SSL object, timer and certificate. Data passes
in the clear in SSL_NONE only, and `DataVerified` says that the adapter does not come
back to it once it was started or closed.

**Runtime_proofs**, for any threads, messages, delays and calls in every order.
`NoWakeupLost` is `ThreadSpec => []SleepersAreIdle` and
`MessagesNeitherLostNorTwice` is `ThreadSpec => []MessagesSettleOnce`. `ThreadInv`
says for each message in which box it is (current message of a thread, its queue,
its delayed messages, hands of an actor) and that it is in no other; for each
thread that sleeps, or has looked and is about to, that its queue is empty and no
delayed message is due, or its event is set, or an actor is between its push and
its wake-up; and that queues hold nothing twice. `Without` stands for the filter
of `Clear` by positions, because the provers know nothing of `SelectSeq`.
`LocksAreExclusive` is the safety half of `LocksExclude`: one thread inside, and
none waits for a lock that it has itself. `LockInv` relates the lock count to what
each thread is about to do with it (`CounterRight`), for the recursive lock in its
two forms, `Mutex` and `GlobalMutex`. `InvokerCountsClosures` is the safety half of
`InvokerOutlivesClosures`: the counter is the number of closures that have not
ended, and none is left when the destructor has returned. `InvokerInv` says that
each of them is held by one thread and in one way; every step is shown to take
closures from their holders, give one to another, or make a new one (`Handed`),
and the counter follows.

`RecordsAlwaysTaken` is `MetricSpec /\ TracerSpec => []RecordsTakenOnce`, for any
threads, histograms, samples and captures. For histograms the samples added, those
that are there, those collected and those that did not fit are sums over finite
sets; that the sum does not depend on the order it is made in is shown by a
smallest set for which it would (`SmallestSet`). `MetricInv` adds that a name has one
histogram and that each pointer, also those kept in the static of a call site, is to
it. For the tracer `TracerInv` has a table of what each stage of opening, logging and
closing a capture may meet, and says of each event in which of the buffers and files
it is, and of each thread that has found a capture active and has not added yet which
capture that was: it is the one way for an event to get into a later file, and a
thread has at most one such event. Captures are numbered to a finite bound (`CapturesBounded`).

**Sockets_proofs.** `SocketsAlwaysServed` is
`ServerSpec /\ ResolverSpec => []SocketsServed`, for any sockets, descriptors and
lookups, with select and with epoll, whatever handlers open, close and delete. The
numbers of descriptors are a subset of the naturals (`FdNumbers`), lookups are
finitely many (`LookupsFinite`), which a wait for all of them needs. `ServerInv` says
of each socket how its enabled and saved events, its key and what epoll was told
agree with the opening of its descriptor, and that input of a connected socket is
watched for unless the socket was told of it and has not reacted; each handler is
shown to change one socket and its descriptor (`Adjusts`) or none. The proof failed at
first: after a `Recv` that fails, reading of a TCP socket is not enabled again, and the
invariant has to count the error that the caller got as being told of the end
(`unread`). TLC confirmed it with seven operations, where the run has four
(`MaxActs`); the model of `Recv` now says so. `ResolverInv` says where each
lookup is and who still refers to its queue and resolver.

`AddressesAlwaysOrdered` is `AddrSpec => []AddressesKeepOrder`, for all addresses of
the two families, all names and ports (`AddressAssumption` is their types). The order
is lexicographic; of two different sequences of bits the least position where they
differ decides. That the text reads back is a case distinction over the kinds of
hosts and texts, with the cut of an unbracketed v6 text at its first colon; that the
sockaddr does is one over the families. `AddressesSort` adds what a map of addresses relies on and TLC's two
addresses do not show: the order is transitive, and equal addresses compare alike.

**Wire_proofs.**

* *STUN*, for every set of requests that fit a datagram, every limit of the loop
  and any number of answers. `WalkStaysExact` is `StunSpec => []WalkExact` with
  `WalkInv` (types and `WalkExact`); it rests on `RealLenPads`, that padding in 16
  bits is padding for lengths up to a datagram's, and `Layout`, that every
  attribute ends where the next starts. `RefusalHasCause` is
  `StunSpec => []RefusedOnlyAfterReoffer` with `PwdInv`: the connection's password
  is never newer than the answer, and nothing is sent without a connection.
* *ThreadQueue*, for every capacity other than 0 and all sets of threads.
  `IInv == TypeOK /\ FlagsTellSize /\ WaitersInOp /\ NoLostWakeup`; `WaitersInOp`
  (a waiting thread is inside an operation that waits) is needed because a thread
  that leaves the wait set must not be the one about to notify. One lemma for each
  kind of step (wait, become notifier, leave the wait set) serves all operations.
* *SRTP*, `PacketsCarried`: for any transports, keys, packet lengths and keyings.
  Either side of a keying may fail alone, for its key length or in libsrtp.
  `SrtpInv` adds that the tag lengths a session reports are those of its context
  and that a transport that was keyed has both session objects, with a context or
  without, unless libsrtp did not start.
* *TLS*, `TlsDataKept`: for any configuration, sessions and messages. `TlsInv` adds
  what goes with the state: pending data, the timer, the application's knowledge
  of a connection.
* *The page*, `ButtonsFollowed`: for any number of pages and clicks. `PageInv`, of
  each page, adds that the one join of a page used as the readme says is with the
  camera, at the server, on the way back or done, and that what a promise will do
  still is what it was at the click; a promise of a peer that was replaced by joining
  again goes on with what that peer knew (`LeftPromises`).
* *Signals*, `SignalsCallRight`: for any signals, objects, connections and nested
  emissions. `SigInv` adds that the ids in a list are different, that the iterator
  is on a connection of its list or at the end, and that of the emissions of one
  signal on the stack only the innermost still owns the iterator.
* *Tasks*, `TasksOnTime`: `TaskSpec => TasksKeepTime` for any delays and any length
  of a millisecond. `TaskInv` adds that next_run_time_ is the schedule; `MillisOff`
  bounds what the rounding to milliseconds takes, `DueOnTime` adds what the queue's
  own clock does not show. Delays are not negative, which `repeating_task.cc:43`
  asserts.
* *Buffers*, `BuffersAlwaysKeep`: `ZbufSpec /\ CowSpec => []BuffersKeepBytes`, for any
  elements, sizes and finitely many handles (`CowAssumption`). Each operator of
  `Buffer` is shown to keep `Keeps(b, v)` (what is in use of a block is v) and, for
  buffers that overwrite, `Clean` (nothing written is behind it). `SetSize` overwrites
  up to the old size only, and `SetData` grows before it does: `CleanFrom` says what is
  clean in between. `CowInv` says for each handle that its block keeps what it should
  show and for each block that it counts its handles; with one block more than
  handles one is free (pigeonhole), and a block that counts one is its handle's alone.

**Only model-checked.**

* Liveness, which is out of the provers' reach: `PullerGetsMedia`,
  `HandshakeCompletes`, `SendReturns`, and the liveness halves of `LocksExclude` and
  `InvokerOutlivesClosures`.
* `LibraryConverts`: what codings, digests, dates and filters compute is a fold or a
  recursive function of their input, for which the provers have no induction over
  data; `Certificates` uses `Bitwise`, which no module with a theorem may reach; and
  `MasksCut` is about up to 128 bits one by one. It is stated in `MCWire` for these
  parts together.

## 5. What is not modelled

* Failing calls of the system in the server: binding a socket, sending on a
  closing one. These are assumed to succeed or to do nothing. JSON is assumed to
  parse. In `Sfu`, STUN packets are those that pass; module `Stun` has the others.
* What a use after free corrupts: the process is taken to die or to go on
  unharmed.
* Start-up and wiring (`JuanSfu`, `main`, `Singleton`), logging, random strings.
* Outside the repository: uvnet, OpenSSL, libsrtp, the kernel. They are modelled
  by what the code here can see of them.
* `rtc_base/ssl_roots.h` (a table of certificates), `trace_event.h`, `checks.h`
  and other macros, headers of jsoncpp without their implementation,
  `adapter-latest.js` (third-party), cpu features, field trials, everything for
  Windows and macOS only: no state of this program.
* In the library: options of sockets and timestamps of datagrams, wrapping of
  foreign threads, `Peek`, TLS data longer than one record, floating point.

Weak points that were met and that no property is about, because they are outside
the states modelled or concern only memory: a `ThreadQueue` of capacity 0 stays
full after one push (excluded by assumption); streams are keyed by uid alone, so
one uid in two rooms shares them (packet runs have one room, and the theorems
about media assume it); `parse_ssrcs`
counts the parts of the whole line before reading those of its first half;
`send_binding_response` never deletes its packet; `doLeave` of the page is not
defined; a partial write of pending TLS data keeps all of it
(`openssl_adapter.cc:520`); the timeout task drops the result of ContinueSSL
(`openssl_stream_adapter.cc:846`), the next call reports it; `event_tracer.cc`
relies on its callers to stop threads before shutdown, leaks copied strings of
stale events and reads behind an empty string argument; the end of a certificate
chain is told by `ERR_peek_error` from what an earlier call may have left; date
texts of odd lengths and failed decodings in `ssl_identity.cc`; the certificate
is made for a year and never renewed; `RoundUpTo` rounds negative values the
other way; appending nothing to an empty `CopyOnWriteBuffer` leaves it with a block
of capacity 0, which `IsConsistent` denies (`copy_on_write_buffer.h:231`; not
modelled); parse_sdp's failure is ignored by handle_pull, so that a puller whose
offer was refused still gets an answer (`signaling_handle.cpp:234`; modelled).

Two comments in the code say what it does not do, and the models follow the code:
`socket_address.h:185-187` has mapped addresses come out of a sockaddr as AF_INET,
while `ToSockAddrStorageHelper` keeps AF_INET6 (`ReadsBackAsSockAddr`);
`event_tracer.cc:193-197` has the clear of the vector keep out events of an earlier
capture, while a thread that has passed the check of `g_event_logging_active` may add
after it (`TracesLogged` bounds these to one of each thread).

## 6. Plan

Done: the server with its rooms, ports, streams and relay; DTLS; the formats on
the wire; SRTP with failing calls; the page; the bounded queue; the library's
threads, sockets, streams, callbacks and data types. Every safety property that
the passing runs check is proved, but for `LibraryConverts`.

Left, in this order:

1. Proofs about the parts of `LibraryConverts` that are arithmetic: timestamps that
   wrap, the estimate of one clock from another, the percentile.
2. `Sfu` with two rooms and media, and with two addresses of one peer: both need
   a coarser model of DTLS to stay in reach of TLC.
3. TLS data of several records in `TlsAdapter`.
