----------------------------- MODULE MCRtcDtls ------------------------------
(* Instances of the DTLS connection for TLC. *)
EXTENDS RtcDtls

(* A peer without a shared cipher, one with another certificate, one that
   refuses the server's flight. *)
PeerFaults == { <<"badhello">>, <<"badfinish">>, <<"fatal">> }

PeerTraffic ==
  { <<"data", "close">>, <<"data", "long">>, <<"close">>, <<"fatal">>,
    <<"data", "cut">>, <<"finish", "data">>,
    <<"finish", "close">> }

BothResults == BOOLEAN
=============================================================================
