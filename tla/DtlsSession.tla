---------------------------- MODULE DtlsSession ----------------------------
(***************************************************************************)
(* What a room member sees of a DTLS connection.  RoomMember advances a    *)
(* session with DtlsAfter; RtcDtls, the connection itself, is shown to     *)
(* take no other step.                                                     *)
(*   none        no datagram has come, or setup_dtls has refused them      *)
(*   connecting  the handshake is under way                                *)
(*   connected   keys can be exported                                      *)
(*   closed      the peer has closed                                       *)
(*   failed      the SSL object is gone after an error                     *)
(***************************************************************************)

Sessions == {"none", "connecting", "connected", "closed", "failed"}

(* The session after one more datagram, which may hold several records: the
   end of the handshake and a close_notify, for example. *)
DtlsAfter(d) ==
  CASE d = "none"       -> {"none", "connecting", "failed"}
    [] d = "connecting" -> {"connecting", "connected", "closed", "failed"}
    [] d = "connected"  -> {"connected", "closed", "failed"}
    [] OTHER            -> {d}
=============================================================================
