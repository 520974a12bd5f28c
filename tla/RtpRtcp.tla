------------------------------ MODULE RtpRtcp -------------------------------
(***************************************************************************)
(* How the server tells the protocols on one port apart, and how it orders *)
(* sequence numbers: rtprtcp/rtprtcp_pub.hpp, StunPacket::is_stun,         *)
(* RtcDtls::is_dtls, and the unwrapping of sequence numbers in             *)
(* modules/include/module_common_types_public.h.                           *)
(*                                                                         *)
(* A packet is its first two bytes, its length and whether it has the      *)
(* magic cookie of STUN.  A stream is the sequence of the true indices of  *)
(* the packets as they arrive; on the wire they are taken modulo Modulus.  *)
(***************************************************************************)
EXTENDS Integers

CONSTANTS
  PacketHeads,  \* packets to classify
  Modulus,   \* 2^16, or 2^32 for time stamps
  MaxIndex   \* bound on the true index of a packet

ASSUME RtpConstants ==
  /\ PacketHeads \subseteq [b0 : 0 .. 255, b1 : 0 .. 255, len : Nat, cookie : BOOLEAN]
  /\ Modulus \in Nat /\ Modulus > 1 /\ Modulus % 2 = 0
  /\ MaxIndex \in Nat

VARIABLES pkt,         \* the packet at hand, a tuple of none or one
          dispatched,  \* the branch of on_udp_receive it took
          index,       \* true index of the last packet of the stream, or -1
          last_value   \* Unwrapper::last_value_, or -1

rtpVars == <<pkt, dispatched, index, last_value>>

RtpInit == pkt = << >> /\ dispatched = "none" /\ index = -1 /\ last_value = -1

-----------------------------------------------------------------------------
(* hdr->prefix is the last bit field of a 16-bit word, on the little-endian
   build the top two bits of the second byte and not of the first. *)
Prefix(p) == p.b1 \div 64

IsStun(p) == p.len >= 20 /\ p.b0 < 3 /\ p.cookie /\ Prefix(p) = 0

MediaByte(p) == p.b0 > 127 /\ p.b0 < 192           \* then the version is 2

IsRtcp(p) == p.len >= 4 /\ MediaByte(p) /\ p.b1 \in 192 .. 223

IsRtp(p) == p.len >= 12 /\ MediaByte(p)

IsDtls(p) == p.len >= 13 /\ p.b0 > 19 /\ p.b0 < 64

(* The order of the tests in on_udp_receive. *)
Dispatch(p) ==
  IF IsStun(p) THEN "stun"
  ELSE IF IsRtcp(p) \/ IsRtp(p) THEN (IF IsRtcp(p) THEN "rtcp" ELSE "rtp")
  ELSE IF IsDtls(p) THEN "dtls"
  ELSE "unknown"

(* on_udp_receive keeps nothing from one packet to the next, so one is enough. *)
Classify(p) ==
  /\ index = -1 /\ pkt = << >>
  /\ pkt' = <<p>> /\ dispatched' = Dispatch(p)
  /\ UNCHANGED <<index, last_value>>

-----------------------------------------------------------------------------
(* seq_lower_than; SEQUENCE_MAX / 2 is one less than half the modulus. *)
SeqLowerThan(a, b) ==
  \/ a > b /\ a - b > (Modulus - 1) \div 2
  \/ a < b /\ b - a <= (Modulus - 1) \div 2

SeqHigherThan(a, b) == a # b /\ ~ SeqLowerThan(a, b)

(* IsNewer. *)
IsNewer(value, prev) ==
  IF value - prev = Modulus \div 2 THEN value > prev
  ELSE value # prev /\ (value - prev) % Modulus < Modulus \div 2

(* Mutant: wraps backwards past 0. *)
UnwrapBelowZero(value, last) ==
  IF last = -1 THEN value
  ELSE LET cropped == last % Modulus
           delta == value - cropped
       IN  last + (IF IsNewer(value, cropped)
                   THEN (IF delta < 0 THEN delta + Modulus ELSE delta)
                   ELSE (IF delta > 0 THEN delta - Modulus ELSE delta))

(* UnwrapWithoutUpdate. *)
Unwrap(value, last) ==
  IF last = -1 THEN value
  ELSE LET cropped == last % Modulus
           delta == value - cropped
       IN  last + (IF IsNewer(value, cropped)
                   THEN (IF delta < 0 THEN delta + Modulus ELSE delta)
                   ELSE (IF delta > 0 /\ last + delta - Modulus >= 0
                         THEN delta - Modulus ELSE delta))

(* The packet with true index n arrives; the network reorders and loses
   within half the range.  (Unwrap and UpdateLast.) *)
Arrive(n) ==
  /\ pkt = << >>
  /\ index # -1 => (n - index) \in 1 - Modulus \div 2 .. Modulus \div 2 - 1
  /\ index' = n
  /\ last_value' = Unwrap(n % Modulus, last_value)
  /\ UNCHANGED <<pkt, dispatched>>

RtpNext ==
  \/ \E p \in PacketHeads : Classify(p)
  \/ \E n \in 0 .. MaxIndex : Arrive(n)

RtpSpec == RtpInit /\ [][RtpNext]_rtpVars

-----------------------------------------------------------------------------
(***************************************************************************)
(* No packet can be taken for two protocols: the ranges of first bytes of  *)
(* RFC 7983 do not meet, a packet of RTCP is never handled as RTP, and     *)
(* only a packet that is neither goes to DTLS, in whatever order           *)
(* on_udp_receive asks.  And none is lost to the bits the tests look at:   *)
(* is_stun reads the prefix in the wrong byte, yet every binding request,  *)
(* indication, success and error answer of RFC 5389 is taken as STUN, and  *)
(* every packet of version 2 long enough for its header as media.          *)
(***************************************************************************)
BindingTypes == {<<0, 1>>, <<0, 17>>, <<1, 1>>, <<1, 17>>}

DemuxExclusive ==
  \A i \in DOMAIN pkt :
    LET p == pkt[i]
    IN  /\ dispatched = "stun" => ~ IsRtp(p) /\ ~ IsRtcp(p) /\ ~ IsDtls(p)
        /\ dispatched = "dtls" => ~ IsStun(p) /\ ~ IsRtp(p) /\ ~ IsRtcp(p)
        /\ (dispatched = "rtcp") <=> IsRtcp(p)
        /\ dispatched = "rtp" => p.b1 \notin 192 .. 223
        /\ <<p.b0, p.b1>> \in BindingTypes /\ p.cookie /\ p.len >= 20 => dispatched = "stun"
        /\ p.b0 \div 64 = 2 /\ p.len >= 12 => dispatched \in {"rtp", "rtcp"}
        /\ dispatched = "unknown" => ~ IsStun(p) /\ ~ IsRtp(p) /\ ~ IsRtcp(p) /\ ~ IsDtls(p)

(***************************************************************************)
(* Across the wrap, the unwrapped numbers of packets less than half the    *)
(* range apart differ by their true distance, unless that would make them  *)
(* negative; they are never negative; and the two ways of comparing        *)
(* sequence numbers agree with the true order.                             *)
(***************************************************************************)
UnwrapTracks ==
  [][index # -1 /\ index' # index =>
       LET d == index' - index
           a == index % Modulus
           b == index' % Modulus
       IN  /\ last_value' >= 0
           /\ last_value + d >= 0 => last_value' = last_value + d
           /\ IsNewer(b, a) <=> d > 0
           /\ SeqLowerThan(a, b) <=> d > 0
           /\ SeqHigherThan(a, b) <=> d < 0]_rtpVars

(* A packet has one reader, whatever its first bytes, and sequence numbers that
   wrap are unwrapped to the indexes they were sent with. *)
MediaKeepsPlace == []DemuxExclusive /\ UnwrapTracks
=============================================================================
