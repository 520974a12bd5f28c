-------------------------------- MODULE Stun --------------------------------
(***************************************************************************)
(* STUN binding requests from a peer, as udp/stun.cpp parses and validates *)
(* them and udp/ice_connection.cpp answers them, for one remote address of *)
(* a room member.                                                          *)
(*                                                                         *)
(* The peer (external) lays its attributes out as RFC 5389 says: at the    *)
(* offset at, padded to a multiple of 4.  A code (HMAC or CRC) is modelled *)
(* by what goes into it: the key, the bytes covered and the length that    *)
(* stands in the header meanwhile.                                         *)
(***************************************************************************)
EXTENDS Integers, Sequences

CONSTANTS
  Requests,   \* what the peer may send, see IsRequest
  AttrLimit,  \* attributes that parse_attri looks at (20)
  MaxAnswers  \* bound: offers answered, each with a new ufrag and password

HeaderSize == 20
MaxDatagram == 65507

Known == {"USERNAME", "INTEGRITY", "CONTROLLING", "USE_CANDIDATE", "PRIORITY"}

(* The least multiple of 4 that is not below n. *)
Padded(n) == 4 * ((n + 3) \div 4)

(* attrs: type, length, offset.  size: of all of them.  gen: the answer whose
   ufrag and password the peer uses, counted back from the latest.  whole:
   the length in the header is that of the datagram.  crc: the FINGERPRINT,
   if there is one, is right. *)
IsRequest(r) ==
  /\ \A i \in 1 .. Len(r.attrs) :
       LET a == r.attrs[i]
           next == IF i = Len(r.attrs) THEN r.size ELSE r.attrs[i + 1].at
       IN  /\ a.len \in Nat
           /\ a.at \in Nat
           /\ next = a.at + 4 + Padded(a.len)
           /\ a.type = "INTEGRITY" => a.len = 20
  /\ r.attrs # << >> => r.attrs[1].at = 0
  /\ r.size \in Nat /\ r.size + HeaderSize <= MaxDatagram
  /\ (r.attrs = << >>) => r.size = 0
  /\ \A i, j \in 1 .. Len(r.attrs) :
       i < j => r.attrs[i].at + 4 + Padded(r.attrs[i].len) <= r.attrs[j].at
  /\ r.attrs \in Seq([type : STRING, len : Nat, at : Nat])

ASSUME StunRequests ==
  /\ \A r \in Requests : IsRequest(r)
  /\ AttrLimit \in Nat /\ MaxAnswers \in Nat

VARIABLES stun,     \* "idle", "walk", "check", "respond", "died"
          req,      \* the request being handled
          pos, counter, attris,   \* the locals of parse_attri and _attris
          answered, \* answers created so far; the latest one is in use
          ice_pwd,  \* the answer whose password the IceConnection has, or 0
          verified  \* what the peer made of the last response

stunVars == <<stun, req, pos, counter, attris, answered, ice_pwd, verified>>

StunInit ==
  /\ stun = "idle" /\ req = << >>
  /\ pos = 0 /\ counter = 0 /\ attris = << >>
  /\ answered = 1 /\ ice_pwd = 0
  /\ verified = "none"

(* Mutant: rounds down. *)
RealLenDown(n) == 4 * (n \div 4)

(* get_real_len, which keeps its result in 16 bits. *)
RealLen(n) == IF n % 4 = 0 THEN n % 65536 ELSE (4 * (n \div 4 + 1)) % 65536

(* The peer's offer is answered once more: create_answer makes a new ufrag
   and password, the IceConnection is not told. *)
Reanswer ==
  /\ stun = "idle" /\ answered < MaxAnswers
  /\ answered' = answered + 1
  /\ UNCHANGED <<stun, req, pos, counter, attris, ice_pwd, verified>>

(* on_udp_receive, on_udp_data: parse refuses a datagram that is cut short or
   whose FINGERPRINT is wrong, and its callers use the null it returns. *)
Parse(r) ==
  /\ stun = "idle"
  /\ req' = r /\ pos' = 0 /\ counter' = 0 /\ attris' = << >>
  /\ stun' = IF r.whole /\ r.crc THEN "walk" ELSE "died"
  /\ UNCHANGED <<answered, ice_pwd, verified>>

(* What the peer wrote at offset p. *)
AttrAt(r, p) == CHOOSE i \in 1 .. Len(r.attrs) : r.attrs[i].at = p

InLoop == pos + 4 < req.size /\ counter < AttrLimit

(* One round of the loop in parse_attri. *)
ParseAttri ==
  /\ stun = "walk" /\ InLoop
  /\ LET a == req.attrs[AttrAt(req, pos)]
     IN  /\ pos' = pos + 4 + (IF a.type = "INTEGRITY" THEN a.len ELSE RealLen(a.len))
         /\ attris' = IF a.type \in Known
                      THEN Append(attris, [type |-> a.type, endpos |-> pos + HeaderSize])
                      ELSE attris
  /\ counter' = counter + 1
  /\ UNCHANGED <<stun, req, answered, ice_pwd, verified>>

(* The end of the loop.  Once there is an IceConnection, requests are
   answered without validate. *)
ParseEnd ==
  /\ stun = "walk" /\ ~ InLoop
  /\ stun' = IF ice_pwd # 0 THEN "respond" ELSE "check"
  /\ UNCHANGED <<req, pos, counter, attris, answered, ice_pwd, verified>>

(* The code that is expected at an INTEGRITY attribute that starts at endpos. *)
Hmac(key, endpos) ==
  [key |-> key, covers |-> endpos, length |-> endpos + 24 - HeaderSize]

(* The code the peer wrote: over everything before the attribute, with the
   length up to its end. *)
PeerHmac(r) ==
  LET i == CHOOSE j \in 1 .. Len(r.attrs) : r.attrs[j].type = "INTEGRITY"
  IN  [key |-> answered - r.gen,
       covers |-> HeaderSize + r.attrs[i].at, length |-> r.attrs[i].at + 24]

(* validate against the latest answer. *)
Valid ==
  \A i \in 1 .. Len(attris) :
     /\ attris[i].type = "USERNAME" => req.gen = 0
     /\ attris[i].type = "INTEGRITY" => Hmac(answered, attris[i].endpos) = PeerHmac(req)

(* on_udp_receive returns: the packet and the parser's locals are gone. *)
StunDone == stun' = "idle" /\ req' = << >> /\ pos' = 0 /\ counter' = 0 /\ attris' = << >>

Validate ==
  /\ stun = "check"
  /\ \/ /\ Valid
        /\ stun' = "respond" /\ ice_pwd' = answered
        /\ UNCHANGED <<req, pos, counter, attris>>
     \/ ~ Valid /\ StunDone /\ UNCHANGED ice_pwd
  /\ UNCHANGED <<answered, verified>>

(* Mutant: the code is computed before the length counts it. *)
ResponseShort ==
  LET len == 12
  IN  [hmac |-> [key |-> ice_pwd, covers |-> len + HeaderSize, length |-> len],
       integrityAt |-> len,
       crc |-> [covers |-> HeaderSize + len + 24, length |-> len + 24 + 8],
       length |-> len + 24 + 8]

(* serialize_bind_response: XOR-MAPPED-ADDRESS (12 bytes), the code over what
   is there, then the FINGERPRINT (8), each time with a new length. *)
Response ==
  LET len == 12
  IN  [hmac |-> [key |-> ice_pwd, covers |-> len + HeaderSize, length |-> len + 24],
       integrityAt |-> len,
       crc |-> [covers |-> HeaderSize + len + 24, length |-> len + 24 + 8],
       length |-> len + 24 + 8]

(* The peer's check of a response (external), which is the one the server
   applies to requests, with the password of the answer it got last. *)
PeerAccepts(resp) ==
  /\ resp.hmac = Hmac(answered, HeaderSize + resp.integrityAt)
  /\ resp.crc = [covers |-> HeaderSize + resp.length - 8, length |-> resp.length]

SendBindingResponse ==
  /\ stun = "respond"
  /\ verified' = IF PeerAccepts(Response) THEN "accepted" ELSE "rejected"
  /\ StunDone
  /\ UNCHANGED <<answered, ice_pwd>>

StunNext ==
  \/ Reanswer \/ (stun = "idle" /\ \E r \in Requests : Parse(r))
  \/ ParseAttri \/ ParseEnd \/ Validate \/ SendBindingResponse

StunSpec == StunInit /\ [][StunNext]_stunVars

-----------------------------------------------------------------------------
(* Where attribute i starts, or the end of all of them. *)
Start(r, i) == IF i = Len(r.attrs) + 1 THEN r.size ELSE r.attrs[i].at

Found(i) ==
  \E j \in 1 .. Len(attris) :
     attris[j] = [type |-> req.attrs[i].type, endpos |-> HeaderSize + req.attrs[i].at]

(***************************************************************************)
(* parse_attri, which finds its way by get_real_len alone, stays aligned   *)
(* with the attributes as the peer laid them out, whatever their lengths:  *)
(* it sees the first 20 of them, each at its place (on which the check of  *)
(* MESSAGE-INTEGRITY depends), and stops before one only at that limit or  *)
(* if it is the last and empty.                                            *)
(***************************************************************************)
WalkExact ==
  stun \in {"walk", "check", "respond"} =>
    /\ counter \in 0 .. Len(req.attrs)
    /\ pos = Start(req, counter + 1)
    /\ \A i \in 1 .. counter : req.attrs[i].type \in Known => Found(i)
    /\ stun # "walk" =>
         \/ counter = Len(req.attrs)
         \/ counter = AttrLimit
         \/ counter + 1 = Len(req.attrs) /\ req.attrs[counter + 1].len = 0

(***************************************************************************)
(* The binding response passes the check that the peer makes, which is the *)
(* check that validate makes of requests: the lengths that are put into    *)
(* the header while the codes are computed agree on both sides.  It is     *)
(* refused only by a peer whose offer was answered again after its address *)
(* was first heard of, because the IceConnection keeps the old password.   *)
(***************************************************************************)
RefusedOnlyAfterReoffer == verified = "rejected" => ice_pwd < answered
=============================================================================
