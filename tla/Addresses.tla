----------------------------- MODULE Addresses ------------------------------
(***************************************************************************)
(* rtc::IPAddress (rtc_base/ip_address.cc), rtc::SocketAddress             *)
(* (rtc_base/socket_address.cc) and the priority of an ICE candidate       *)
(* (sdp/ice_candidate.cpp).                                                *)
(*                                                                         *)
(* An IP is its family and its bits, most significant first: 32 bits, four *)
(* words of 32, or none.  The text of a host is a number that tells texts  *)
(* apart, with the IP that inet_pton makes of it (Nil for a name); text 0  *)
(* is the one that inet_ntop prints.                                       *)
(***************************************************************************)
EXTENDS Integers, Sequences

CONSTANTS
  Ips,      \* addresses that are used
  HostTexts,\* names and other ways to write an address, from 1 on
  Ports,    \* integers given to SetPort
  Scopes    \* interfaces, 0 for none

NilIp == [family |-> "unspec", bits |-> << >>]
Zeros(n) == [i \in 1 .. n |-> 0]
Bits(family) == IF family = "v4" THEN 32 ELSE IF family = "v6" THEN 128 ELSE 0

IpsOf(family) == [family : {family}, bits : [1 .. Bits(family) -> {0, 1}]]
IpSpace == IpsOf("unspec") \union IpsOf("v4") \union IpsOf("v6")

ASSUME AddressAssumption ==
  /\ Ips \subseteq IpSpace /\ Ports \subseteq Int /\ Scopes \subseteq Int
  /\ HostTexts \subseteq [n : Nat \ {0}, ip : IpSpace]

(* The bits of bytes, the rest zeros. *)
IpOf(family, bytes) ==
  [family |-> family,
   bits |-> [i \in 1 .. Bits(family) |->
               LET k == (i - 1) \div 8 + 1
               IN  IF k > Len(bytes) THEN 0
                   ELSE (bytes[k] \div 2^(7 - ((i - 1) % 8))) % 2]]

AnyIp(family) == [family |-> family, bits |-> Zeros(Bits(family))]      \* GetAnyIP
Loopback6 == [family |-> "v6", bits |-> Append(Zeros(127), 1)]
Mapped == <<0, 0, 0, 0, 0, 0, 0, 0, 0, 0, 255, 255>>
MappedPrefix == IpOf("v6", Mapped)

(* IPIsHelper; a v4 address has the rest of its union zeroed. *)
HasPrefix(ip, bytes) ==
  LET prefix == IpOf("v6", bytes).bits
  IN  \A i \in 1 .. 8 * Len(bytes) :
        (IF i <= Len(ip.bits) THEN ip.bits[i] ELSE 0) = prefix[i]

StartsWith(ip, bits) == Len(ip.bits) >= Len(bits) /\ SubSeq(ip.bits, 1, Len(bits)) = bits

IsV4Mapped(ip) == HasPrefix(ip, Mapped)
IsLoopback(ip) == \/ ip.family = "v4" /\ HasPrefix(ip, <<127>>)
                  \/ ip = Loopback6
IsLinkLocal(ip) == \/ ip.family = "v4" /\ HasPrefix(ip, <<169, 254>>)
                   \/ ip.family = "v6" /\ StartsWith(ip, <<1,1,1,1,1,1,1,0,1,0>>)
IsPrivateNetwork(ip) ==
  \/ ip.family = "v4" /\ \/ HasPrefix(ip, <<10>>) \/ HasPrefix(ip, <<192, 168>>)
                         \/ StartsWith(ip, <<1,0,1,0,1,1,0,0,0,0,0,1>>)
  \/ ip.family = "v6" /\ HasPrefix(ip, <<253>>)
IsSharedNetwork(ip) == ip.family = "v4" /\ StartsWith(ip, <<0,1,1,0,0,1,0,0,0,1>>)
IsPrivate(ip) == IsLinkLocal(ip) \/ IsLoopback(ip) \/ IsPrivateNetwork(ip) \/ IsSharedNetwork(ip)
IsULA(ip) == StartsWith(ip, <<1,1,1,1,1,1,0>>)
IsSiteLocal(ip) == StartsWith(ip, <<1,1,1,1,1,1,1,0,1,1>>)
IsAny(ip) == \/ ip.family # "unspec" /\ ip = AnyIp(ip.family)
             \/ ip = MappedPrefix

Normalized(ip) ==
  IF ip.family = "v6" /\ IsV4Mapped(ip)
  THEN [family |-> "v4", bits |-> SubSeq(ip.bits, 97, 128)] ELSE ip

AsIPv6Address(ip) ==
  IF ip.family # "v4" THEN ip
  ELSE [family |-> "v6", bits |-> SubSeq(MappedPrefix.bits, 1, 96) \o ip.bits]

IPAddressPrecedence(ip) ==
  CASE ip.family = "unspec" -> 0
    [] ip.family = "v4" -> 30
    [] IsLoopback(ip) -> 60
    [] ~IsLoopback(ip) /\ IsULA(ip) -> 50
    [] ~IsLoopback(ip) /\ IsV4Mapped(ip) -> 30
    [] HasPrefix(ip, <<32, 2>>) -> 20                   \* 6to4
    [] HasPrefix(ip, <<32, 1, 0, 0>>) -> 10             \* Teredo
    [] \/ ~IsLoopback(ip) /\ HasPrefix(ip, Zeros(12))   \* V4Compatibility
       \/ IsSiteLocal(ip) \/ HasPrefix(ip, <<63, 254>>) -> 1
    [] OTHER -> 40

(* IceCandidate::get_priority, for one network adapter and no relay. *)
Priority(type_preference, ip, component) ==
  type_preference * 2^24 + IPAddressPrecedence(ip) * 2^8 + (256 - component)

(* IPAddress::operator<. *)
Family(ip) == CASE ip.family = "unspec" -> 0 [] ip.family = "v4" -> 1 [] OTHER -> 2
LessBits(a, b) == \E i \in DOMAIN a : a[i] < b[i] /\ \A j \in 1 .. i - 1 : a[j] = b[j]
LessIp(a, b) == Family(a) < Family(b) \/ (a.family = b.family /\ LessBits(a.bits, b.bits))

(* TruncateIP: the word that the length ends in is masked, those after it
   are cleared. *)
TruncateIP(ip, length) ==
  IF length < 0 \/ ip.family = "unspec" THEN NilIp
  ELSE IF length >= Bits(ip.family) THEN ip
  ELSE LET position == length \div 32
           inner_length == 32 - (length - 32 * position)
           Mask(i) == IF (i - 1) \div 32 < position THEN ip.bits[i]
                      ELSE IF (i - 1) \div 32 = position /\ (i - 1) % 32 < 32 - inner_length
                      THEN ip.bits[i] ELSE 0
       IN  [ip EXCEPT !.bits = [i \in DOMAIN ip.bits |-> Mask(i)]]

(* CountIPMaskBits: the first word that is not all ones; bit p, counted from
   the right, of its lowest set bit is in mask m when p \div m is even. *)
CountIPMaskBits(ip) ==
  LET Word(i) == SubSeq(ip.bits, 32 * i + 1, 32 * i + 32)
      words == Len(ip.bits) \div 32
      whole == IF ip.family = "v4" THEN 0
               ELSE CHOOSE i \in 0 .. words :
                      /\ i = words \/ \E j \in 1 .. 32 : Word(i)[j] = 0
                      /\ \A k \in 0 .. i - 1 : \A j \in 1 .. 32 : Word(k)[j] = 1
      set == IF whole = words THEN {} ELSE { p \in 0 .. 31 : Word(whole)[32 - p] = 1 }
      low == CHOOSE p \in set : \A q \in set : p <= q
      In(m) == IF (low \div m) % 2 = 0 THEN m ELSE 0
      zeroes == 32 - 1 - In(16) - In(8) - In(4) - In(2) - In(1)
  IN  IF ip.family = "unspec" THEN 0
      ELSE 32 * whole + (IF set = {} THEN 0 ELSE 32 - zeroes)

-----------------------------------------------------------------------------
Host(n, ip) == [n |-> n, ip |-> ip]
NoHost == Host(0, NilIp)
Printed(ip) == Host(0, ip)       \* IPAddress::ToString

VARIABLE addr    \* two SocketAddresses
addrVars == <<addr>>

NilAddr == [host |-> NoHost, literal |-> FALSE, ip |-> NilIp, port |-> 0, scope |-> 0]

AddrInit == addr = [o \in {1, 2} |-> NilAddr]

SetHost(a, host) ==
  [a EXCEPT !.host = host, !.literal = host.ip # NilIp, !.ip = host.ip, !.scope = 0]
SetIP(a, ip) == [a EXCEPT !.host = NoHost, !.literal = FALSE, !.ip = ip, !.scope = 0]
SetResolvedIP(a, ip) == [a EXCEPT !.ip = ip, !.scope = 0]
SetScopeID(a, scope) == [a EXCEPT !.scope = scope]
SetPort(a, port) == [a EXCEPT !.port = port % 2^16]

(* ToString: where the host is a name, or nothing is known but a name, that
   is printed; otherwise the IP, in brackets when it is v6. *)
HostAsURIString(a) ==
  IF ~a.literal /\ a.host # NoHost THEN [host |-> a.host, form |-> "plain"]
  ELSE [host |-> Printed(a.ip), form |-> IF a.ip.family = "v6" THEN "bracket" ELSE "plain"]

(* FromString.  A text that opens a bracket and does not close it is taken
   for read, and changes nothing; one with no port is refused.  A v6 address
   without brackets, with or without a port, is cut at its first colon: what is
   before it, a name or nothing, is the host.  The port is the number that
   follows the colon. *)
Plain == {"plain", "plainNoPort"}
TextForms == Plain \union {"bracket", "bracketNoPort", "unclosed"}

FromString(a, text, port, before) ==
  CASE text.form \in Plain /\ text.host.ip.family = "v6" -> SetHost(SetPort(a, port), before)
    [] \/ text.form = "plain" /\ text.host.ip.family # "v6"
       \/ text.form = "bracket" -> SetHost(SetPort(a, port), text.host)
    [] OTHER -> a

EqualAddr(a, b) ==
  /\ a.ip = b.ip /\ a.port = b.port
  /\ (IsAny(a.ip) \/ a.ip = NilIp) => a.host = b.host

LessHost(a, b) == a.n < b.n \/ (a.n = b.n /\ LessIp(a.ip, b.ip))

(* Mutant: names are not looked at. *)
LessAddrByIp(a, b) == IF a.ip # b.ip THEN LessIp(a.ip, b.ip) ELSE a.port < b.port

LessAddr(a, b) ==
  IF a.ip # b.ip THEN LessIp(a.ip, b.ip)
  ELSE IF (IsAny(a.ip) \/ a.ip = NilIp) /\ a.host # b.host THEN LessHost(a.host, b.host)
  ELSE a.port < b.port

(* A sockaddr_storage: the address as it is in memory and the port in network
   order, on a host of the other order; what is not written is zero. *)
Swap16(port) == (port % 256) * 256 + port \div 256

ToSockAddrStorageHelper(ip, port, scope) ==
  [family |-> ip.family, bits |-> ip.bits,
   port |-> IF ip.family = "unspec" THEN 0 ELSE Swap16(port),
   scope |-> IF ip.family = "v6" THEN scope ELSE 0]

ToSockAddrStorage(a) == ToSockAddrStorageHelper(a.ip, a.port, a.scope)
ToDualStackSockAddrStorage(a) == ToSockAddrStorageHelper(AsIPv6Address(a.ip), a.port, a.scope)

(* SocketAddressFromSockAddrStorage: a is left alone where it fails. *)
FromSockAddrStorage(a, saddr) ==
  LET b == SetPort(SetIP(NilAddr, [family |-> saddr.family, bits |-> saddr.bits]), Swap16(saddr.port))
  IN  CASE saddr.family = "v4" -> b
        [] saddr.family = "v6" -> SetScopeID(b, saddr.scope)
        [] OTHER -> a

Change(o, a) == addr' = [addr EXCEPT ![o] = a]

Hosts == HostTexts \union { Printed(ip) : ip \in Ips }
Cuts == {NoHost} \union { h \in HostTexts : h.ip = NilIp }

(* What reading a text may make of a. *)
Texts == [host : Hosts, form : TextForms, port : Ports, before : Cuts]

Readings(a) == { FromString(a, [host |-> t.host, form |-> t.form], t.port, t.before) : t \in Texts }

AddrNext ==
  \E o \in {1, 2} :
    \/ \E ip \in Ips : Change(o, SetIP(addr[o], ip)) \/ Change(o, SetResolvedIP(addr[o], ip))
    \/ \E port \in Ports : Change(o, SetPort(addr[o], port))
    \/ \E scope \in Scopes : Change(o, SetScopeID(addr[o], scope))
    \/ \E h \in Hosts : Change(o, SetHost(addr[o], h))
    \/ \E a \in Readings(addr[o]) : Change(o, a)
    \/ \E saddr \in {ToSockAddrStorage(addr[3 - o]), ToDualStackSockAddrStorage(addr[3 - o])} :
         Change(o, FromSockAddrStorage(addr[o], saddr))
    \/ Change(o, NilAddr)

AddrSpec == AddrInit /\ [][AddrNext]_addrVars

-----------------------------------------------------------------------------
(***************************************************************************)
(* Whatever was done to two addresses, exactly one of a < b, a = b and     *)
(* b < a holds, although equality looks at names only for addresses that   *)
(* are nowhere yet: so they can be kept in an ordered map.                 *)
(*                                                                         *)
(* The text of an address reads back to an equal one exactly if it is a    *)
(* name that was not resolved, or is not a name and, where it is nowhere,  *)
(* its host is the text that is printed.                                   *)
(*                                                                         *)
(* A sockaddr keeps the family, mapped addresses included (the header,     *)
(* socket_address.h:185-187, says these come out as v4), and reads back to *)
(* the address, its port and the scope of a v6 one; a dual stack one is    *)
(* always v6, and reads back to the same normalized address and port.      *)
(***************************************************************************)
Nowhere(ip) == IsAny(ip) \/ ip = NilIp

ReadsBackAsText(a) ==
  LET t == HostAsURIString(a)
  IN  \A before \in Cuts :
        EqualAddr(FromString(NilAddr, t, a.port, before), a) <=>
          IF ~a.literal /\ a.host # NoHost THEN a.ip = NilIp
                                           ELSE Nowhere(a.ip) => a.host = Printed(a.ip)

ReadsBackAsSockAddr(a) ==
  LET one == ToSockAddrStorage(a)
      dual == ToDualStackSockAddrStorage(a)
      b == FromSockAddrStorage(NilAddr, one)
      d == FromSockAddrStorage(NilAddr, dual)
  IN  /\ one.family = a.ip.family /\ b.ip = a.ip
      /\ IF a.ip.family = "unspec" THEN b = NilAddr /\ d = NilAddr
         ELSE /\ b.port = a.port /\ b.scope = (IF a.ip.family = "v6" THEN a.scope ELSE 0)
              /\ dual.family = "v6"
              /\ Normalized(d.ip) = Normalized(a.ip) /\ d.port = a.port /\ d.scope = a.scope

AddressesKeepOrder ==
  LET a == addr[1]
      b == addr[2]
      one(P, Q, R) == (P \/ Q \/ R) /\ ~(P /\ Q) /\ ~(Q /\ R) /\ ~(P /\ R)
  IN  /\ one(LessAddr(a, b), EqualAddr(a, b), LessAddr(b, a))
      /\ ReadsBackAsText(a) /\ ReadsBackAsSockAddr(a)

(***************************************************************************)
(* Cutting an address twice is cutting it at the shorter length, counting  *)
(* the bits of a mask gives the length it was cut at, and a private        *)
(* address stays private when its host part is cut.                        *)
(***************************************************************************)
MasksCut ==
  LET ip == addr[1].ip
      ones == [ip EXCEPT !.bits = [i \in DOMAIN @ |-> 1]]
      cuts == { n \in 0 .. Bits(ip.family) : n % 8 \in {0, 1, 7} }
  IN  /\ \A n \in cuts : CountIPMaskBits(TruncateIP(ones, n)) = n
      /\ \A n, k \in { c \in cuts : c % 32 \in {0, 1, 31} } :
           TruncateIP(TruncateIP(ip, n), k) = TruncateIP(ip, IF n <= k THEN n ELSE k)
      /\ \A n \in { c \in cuts : c >= 16 } :
           IsPrivate(ip) /\ ip # Loopback6 => IsPrivate(TruncateIP(ip, n))

(***************************************************************************)
(* A candidate of a better type has the higher priority whatever the       *)
(* addresses and the components are.                                       *)
(***************************************************************************)
PrioritiesOrdered ==
  \A t, u \in {2, 100, 110, 126}, c, d \in {1, 2} :
    t > u => Priority(t, addr[1].ip, c) > Priority(u, addr[2].ip, d)
=============================================================================
