------------------------------- MODULE MCWire -------------------------------
(***************************************************************************)
(* What is read from the wire and written to it, from the sockets up to    *)
(* the client's requests, and the library's data types and callbacks that  *)
(* serve it: each part by itself.  The parts share no state here, so a     *)
(* behaviour is one of one part, which is chosen at the start.             *)
(***************************************************************************)
EXTENDS Stun, RtpRtcp, SessionDescription, ByteBuffer, Buffer, Addresses, Text,
        Numerics, SrtpSession, WebClient, SocketServer, TlsAdapter, Sigslot, Tasks,
        SslStream, Metrics, Clocks, Certificates, ThreadQueue, Resolver, Tracer

VARIABLE focus

Parts == {"stun", "rtp", "sdp", "byte", "zbuf", "cow", "addr", "text", "num", "filter",
          "srtp", "client", "server", "tls", "sig", "unit", "task",
          "sslstream", "metric", "cal", "stamp", "est", "cert", "queue", "resolver", "tracer"}

vars == <<focus, stunVars, rtpVars, sdpVars, byteVars, zbufVars, cowVars, addrVars, textVars,
          numVars, filterVars, srtpVars, clientVars, serverVars, tlsVars, sigVars, unitVars,
          taskVars, sslStreamVars, metricVars, calVars, stampVars, estVars, certVars,
          queueVars, resolverVars, tracerVars>>

(* The other parts stand still in one of their initial states. *)
Init ==
  /\ focus \in Parts
  /\ StunInit /\ RtpInit /\ SdpInit /\ ByteInit /\ ZbufInit /\ CowInit /\ AddrInit /\ TextInit
  /\ NumInit /\ SrtpInit /\ SigInit /\ MetricInit /\ CalInit /\ StampInit /\ EstInit /\ CertInit
  /\ QueueInit /\ ResolverInit /\ TracerInit
  /\ FilterInit /\ (focus = "filter" \/ percentile = CHOOSE p \in Percentiles : TRUE)
  /\ ClientInit /\ (focus = "client" \/ careful)
  /\ ServerInit /\ (focus = "server" \/ backend = CHOOSE b \in Backends : TRUE)
  /\ TlsInit    /\ (focus = "tls" \/ tls = CHOOSE c \in TlsConfigs : TRUE)
  /\ UnitInit   /\ (focus = "unit" \/ base = 0)
  /\ SslStreamInit /\ (focus = "sslstream" \/ ssl_conf = CHOOSE c \in SslConfigs : TRUE)
  /\ TaskInit   /\ (focus = "task" \/ clock = 0)

Still(part, partVars) == IF focus = part THEN TRUE ELSE UNCHANGED partVars

Next ==
  /\ UNCHANGED focus
  /\ Still("stun", stunVars) /\ Still("rtp", rtpVars) /\ Still("sdp", sdpVars)
  /\ Still("byte", byteVars) /\ Still("zbuf", zbufVars) /\ Still("cow", cowVars)
  /\ Still("addr", addrVars) /\ Still("text", textVars) /\ Still("num", numVars)
  /\ Still("filter", filterVars) /\ Still("srtp", srtpVars) /\ Still("client", clientVars)
  /\ Still("server", serverVars) /\ Still("tls", tlsVars) /\ Still("sig", sigVars)
  /\ Still("unit", unitVars) /\ Still("task", taskVars) /\ Still("sslstream", sslStreamVars)
  /\ Still("metric", metricVars) /\ Still("cal", calVars) /\ Still("stamp", stampVars)
  /\ Still("est", estVars) /\ Still("cert", certVars) /\ Still("queue", queueVars)
  /\ Still("resolver", resolverVars) /\ Still("tracer", tracerVars)
  /\ \/ focus = "stun" /\ StunNext
     \/ focus = "rtp"  /\ RtpNext
     \/ focus = "sdp"  /\ SdpNext
     \/ focus = "byte" /\ ByteNext
     \/ focus = "zbuf" /\ ZbufNext
     \/ focus = "cow"  /\ CowNext
     \/ focus = "addr" /\ AddrNext
     \/ focus = "text" /\ TextNext
     \/ focus = "num"  /\ NumNext
     \/ focus = "filter" /\ FilterNext
     \/ focus = "srtp" /\ SrtpNext
     \/ focus = "client" /\ ClientNext
     \/ focus = "server" /\ ServerNext
     \/ focus = "tls"  /\ TlsNext
     \/ focus = "sig"  /\ SigNext
     \/ focus = "unit" /\ UnitNext
     \/ focus = "task" /\ TaskNext
     \/ focus = "sslstream" /\ SslStreamNext
     \/ focus = "metric" /\ MetricNext
     \/ focus = "cal"  /\ CalNext
     \/ focus = "stamp" /\ StampNext
     \/ focus = "est"  /\ EstNext
     \/ focus = "cert" /\ CertNext
     \/ focus = "queue" /\ QueueNext
     \/ focus = "resolver" /\ ResolverNext
     \/ focus = "tracer" /\ TracerNext

Spec == Init /\ [][Next]_vars

-----------------------------------------------------------------------------
(* Binding requests: attributes one behind the other, of lengths around the
   padding and around 2^16, and the two flags of the checks. *)
Request(kinds, g, w, c) ==
  LET n == Len(kinds)
      at[i \in 1 .. n + 1] == IF i = 1 THEN 0 ELSE at[i - 1] + 4 + Padded(kinds[i - 1].len)
  IN  [attrs |-> [i \in 1 .. n |-> [type |-> kinds[i].type, len |-> kinds[i].len, at |-> at[i]]],
       size |-> at[n + 1], gen |-> g, whole |-> w, crc |-> c]

Attr(t, n) == [type |-> t, len |-> n]

Bodies ==
  { <<Attr("USERNAME", n)>> \o mid \o <<Attr("INTEGRITY", 20)>> \o last :
      n \in {1, 7, 9, 65401},
      mid \in {<< >>, <<Attr("USE_CANDIDATE", 0)>>, <<Attr("PRIORITY", 4)>>, <<Attr("SOFTWARE", 3)>>},
      last \in {<< >>, <<Attr("FINGERPRINT", 4)>>, <<Attr("USE_CANDIDATE", 0)>>} }
  \union {<< >>, <<Attr("SOFTWARE", 2)>>}

McRequests == { Request(b, g, w, c) : b \in Bodies, g \in {0, 1}, w, c \in BOOLEAN }

(* First bytes and lengths at the boundaries of the tests. *)
McPacketHeads == [b0 : {0, 1, 2, 3, 19, 20, 63, 64, 127, 128, 191, 192},
                  b1 : {0, 1, 17, 63, 64, 191, 192, 223, 224},
                  len : {3, 4, 12, 13, 19, 20}, cookie : BOOLEAN]

McIps == {AnyIp("v6"), IpOf("v4", <<10, 0, 0, 1>>), IpOf("v6", Mapped \o <<10, 0, 0, 1>>)}

McHostTexts == {Host(1, NilIp), Host(2, AnyIp("v6"))}

McAlphabet == [fields |-> {0, Quote, Blank, Sep}, bytes |-> {0, 1, 163, 255},
               hex |-> {0, 15, 16, 17}, base64 |-> {0, 16, 63, 64, 65, 66},
               number |-> {0, 2, 5, 10, 11}]

McPercentiles == {[num |-> 0, den |-> 1], [num |-> 1, den |-> 2], [num |-> 3, den |-> 4],
                  [num |-> 1, den |-> 1]}

McTlsConfigs == [cache : BOOLEAN, dtls : BOOLEAN, ignore : BOOLEAN,
                 verifier : {"none", "yes", "no"}]

McSslConfigs == [auth : BOOLEAN, dtls : BOOLEAN, cert : BOOLEAN]

(* Known suites, one that is not in the list, and none. *)
McSuiteLists == {<<1, 9>>, <<8, 7>>, << >>}

McAddrInfos == {<<"other", "v4", "v6">>}

-----------------------------------------------------------------------------
(* The library's data types, each checked in its own behaviours. *)

(* Values keep their meaning through the conversions of the library: texts and
   their codings, numbers of other types, samples and their percentile, units of
   time, dates, clocks and the estimate of one clock from another, certificates
   with their owners and fingerprints; a reader of bytes takes what was written;
   addresses are ranked and masked consistently (this is about the IPs alone, so
   hosts and ports need not vary, and for masks not the other address). *)
LibraryConverts ==
  /\ focus = "addr" /\ (\A o \in {1, 2} : addr[o] = SetIP(NilAddr, addr[o].ip)) =>
       PrioritiesOrdered /\ (addr[2] = NilAddr => MasksCut)
  /\ focus = "byte"   => ReadsWhatWasWritten
  /\ focus = "text"   => TextsConvert /\ PemReadsBack
  /\ focus = "num"    => NumbersKeepValue
  /\ focus = "filter" => FilterAnswersPercentile
  /\ focus = "unit"   => UnitsKeepTime
  /\ focus = "cal"    => DatesCount /\ DatesReadBack
  /\ focus = "stamp"  => StampsUnwrap /\ ClocksAgree
  /\ focus = "est"    => EstimatesTrue
  /\ focus = "cert"   => CertificatesOwned
  /\ focus = "text" /\ text = << >> => DigestsRight
=============================================================================
