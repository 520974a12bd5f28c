------------------------------- MODULE Offer --------------------------------
(***************************************************************************)
(* What the signaling handlers see of an offer (abstract): whether         *)
(* parse_sdp accepts it, and the fingerprint that is left in the first     *)
(* media section, which is the one the member's DTLS connections use:      *)
(*   "empty"   no media section                                            *)
(*   "nodtls"  no fingerprint line                                         *)
(*   "nofp"    a fingerprint of an unknown algorithm                       *)
(*   "set"     a fingerprint                                               *)
(* Sections are appended and never cleared, so the first one decides for   *)
(* good.  An offer that is refused may have added sections before.         *)
(* SessionDescription shows that the parser keeps to this.                 *)
(***************************************************************************)
Fingerprints == {"empty", "nodtls", "nofp", "set"}

Offers == {"good", "nofp", "nodtls", "nomedia", "bad"}

Parses(offer) == offer # "bad"

FpAfter(fp, offer) ==
  IF fp # "empty" THEN {fp}
  ELSE CASE offer = "good"    -> {"set"}
         [] offer = "nomedia" -> {"empty"}
         [] offer = "bad"     -> Fingerprints
         [] OTHER             -> {offer}
=============================================================================
