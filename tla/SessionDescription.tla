------------------------- MODULE SessionDescription -------------------------
(***************************************************************************)
(* SessionDescription (sdp/session_description.cpp): the offers of a       *)
(* publisher and of a member that pulls from it are parsed line by line    *)
(* into one object each, and the answers are made from those objects.      *)
(*                                                                         *)
(* A line is its kind, which is that of the first test of parse_sdp that   *)
(* finds its text anywhere in the line, and what its fields come apart to: *)
(* "bad" when they do not as the parser expects.  What is kept of a media  *)
(* line's codecs (video_sup, audio_sup) is never read, and left out.       *)
(***************************************************************************)
EXTENDS Integers, Sequences, SequencesExt, Offer

CONSTANTS
  MinLines,   \* an offer of fewer lines is not parsed (6)
  MaxLines,   \* bound: lines that are parsed altogether
  MaxSdps     \* bound: offers

ASSUME SdpBounds == MinLines \in Nat /\ MaxLines \in Nat /\ MaxSdps \in Nat

Media == {"audio", "video"}

LineOf(k, v) == [k |-> k, v |-> v]

(* An ssrc line without a blank before the attribute ("short") passes the
   test of its length, which looks at the wrong vector. *)
Lines ==
  { LineOf(k, v) : k \in {"v", "o", "rtpmap", "group"}, v \in {"ok", "bad"} }
  \union { LineOf("m", v) : v \in Media \union {"bad"} }
  \union { LineOf("fingerprint", v) : v \in {"set", "nofp", "bad"} }
  \union { LineOf("ssrc", v) : v \in {"ok", "short", "bad"} }
  \union { LineOf("other", "ok") }

(* The members of a SessionDescription with the locals of parse_sdp. *)
Fresh == [media |-> << >>, ver |-> FALSE, org |-> FALSE,
          ptr |-> 0, flag |-> FALSE, stop |-> FALSE, died |-> FALSE]

Section(mt) == [type |-> mt, dtls |-> "nodtls", ssrcs |-> 0, groups |-> 0]

VARIABLES sdp,      \* the object of "pub" and of "pull"
          parsing,  \* whose offer is being parsed, or "none"
          line,     \* lines of this offer
          read,     \* lines altogether
          offers,   \* offers so far
          before,   \* history: the object when parse_sdp was called
          whose,    \* history: the object of the last offer
          kind,     \* history: what that offer turned out to be
          answer    \* the answer made last

sdpVars == <<sdp, parsing, line, read, offers, before, whose, kind, answer>>

NoAnswer == [for |-> "none", direct |-> "inactive", ver |-> FALSE, org |-> FALSE,
             media |-> << >>]

SdpInit ==
  /\ sdp = [o \in {"pub", "pull"} |-> Fresh]
  /\ parsing = "none" /\ line = 0 /\ read = 0 /\ offers = 0
  /\ before = Fresh /\ whose = "pub" /\ kind = "none" /\ answer = NoAnswer

(* parse_version, parse_origin, parse_rtpmap, and a line nobody looks at. *)
Field(s, l) ==
  [s EXCEPT !.flag = IF l.k = "other" THEN @ ELSE l.v = "ok",
            !.ver  = @ \/ (l.k = "v" /\ l.v = "ok"),
            !.org  = @ \/ (l.k = "o" /\ l.v = "ok")]

(* Mutant: a new media line starts the list again. *)
MediaLineFresh(s, v) ==
  IF v = "bad" THEN [s EXCEPT !.ptr = 0, !.flag = FALSE]
  ELSE [s EXCEPT !.media = IF s.ptr = 0 THEN <<Section(v)>> ELSE Append(@, Section(v)),
                 !.ptr = IF s.ptr = 0 THEN 1 ELSE Len(s.media) + 1]

(* parse_media; a line that is accepted leaves flag as it was. *)
MediaLine(s, v) ==
  IF v = "bad" THEN [s EXCEPT !.ptr = 0, !.flag = FALSE]
  ELSE [s EXCEPT !.media = Append(@, Section(v)), !.ptr = Len(s.media) + 1]

(* parse_dtls, parse_ssrcs and parse_ssrc_groups.  Before the first media
   line these lines are not looked at. *)
Amended(c, l) ==
  CASE l.k = "fingerprint" -> [c EXCEPT !.dtls = l.v]
    [] l.k = "ssrc"        -> [c EXCEPT !.ssrcs = @ + 1]
    [] l.k = "group"       -> [c EXCEPT !.groups = @ + 1]

SectionLine(s, l) ==
  IF s.ptr = 0 THEN s
  ELSE IF l.v = "bad" THEN [s EXCEPT !.flag = FALSE]
  ELSE IF l.v = "short" THEN [s EXCEPT !.died = TRUE]
  ELSE [s EXCEPT !.flag = TRUE, !.media[s.ptr] = Amended(s.media[s.ptr], l)]

(* One round of the loop of parse_sdp: it returns at the first line after
   which flag is not set. *)
ParseLine(s, l) ==
  IF s.stop \/ s.died THEN s
  ELSE LET t == CASE l.k = "m" -> MediaLine(s, l.v)
                  [] l.k \in {"fingerprint", "ssrc", "group"} -> SectionLine(s, l)
                  [] OTHER -> Field(s, l)
       IN  [t EXCEPT !.stop = ~t.flag]

(* handle_publish or handle_pull calls parse_sdp. *)
ParseStart(o) ==
  /\ parsing = "none" /\ offers < MaxSdps
  /\ ~ \E p \in DOMAIN sdp : sdp[p].died
  /\ parsing' = o /\ offers' = offers + 1 /\ line' = 0
  /\ sdp' = [sdp EXCEPT ![o].ptr = 0, ![o].flag = FALSE, ![o].stop = FALSE]
  /\ before' = sdp[o] /\ whose' = o /\ kind' = "none"
  /\ UNCHANGED <<read, answer>>

ParseNext(l) ==
  /\ parsing # "none" /\ read < MaxLines
  /\ ~ sdp[parsing].stop /\ ~ sdp[parsing].died
  /\ sdp' = [sdp EXCEPT ![parsing] = ParseLine(@, l)]
  /\ line' = line + 1 /\ read' = read + 1
  /\ UNCHANGED <<parsing, offers, before, whose, kind, answer>>

(* What an offer that was accepted is to the signaling handlers. *)
KindOf(s, from) ==
  IF from > Len(s) THEN "nomedia"
  ELSE IF s[from].dtls = "set" THEN "good" ELSE s[from].dtls

OfferEnd ==
  /\ parsing # "none" /\ ~ sdp[parsing].died
  /\ line >= MinLines \/ sdp[parsing].stop
  /\ kind' = IF ~ sdp[parsing].flag THEN "bad"
             ELSE KindOf(sdp[parsing].media, Len(before.media) + 1)
  /\ parsing' = "none"
  /\ UNCHANGED <<sdp, line, read, offers, before, whose, answer>>

(* get_media_content: the first section of a type. *)
MediaContent(s, mt) ==
  LET i == SelectInSeq(s.media, LAMBDA c : c.type = mt)
  IN  IF i = 0 THEN Section(mt) ELSE s.media[i]

(* create_answer and build: an audio and a video section, whatever was
   offered, with the direction and, for a member that pulls, the ssrcs of
   the publisher (and its groups for video); the session line is that of
   the member's own offer.  handle_publish returns when parse_sdp refuses
   the offer; handle_pull goes on and answers what was read of it. *)
CreateAnswer(o) ==
  /\ parsing = "none" /\ whose = o /\ kind \in Offers
  /\ o = "pub" => Parses(kind)
  /\ answer' =
       LET a == MediaContent(sdp["pub"], "audio")
           v == MediaContent(sdp["pub"], "video")
           sends == o = "pull"
       IN  [for |-> o, direct |-> IF sends THEN "sendonly" ELSE "recvonly",
            ver |-> sdp[o].ver, org |-> sdp[o].org,
            media |-> <<[Section("audio") EXCEPT !.ssrcs = IF sends THEN a.ssrcs ELSE 0],
                        [Section("video") EXCEPT !.ssrcs = IF sends THEN v.ssrcs ELSE 0,
                                                 !.groups = IF sends THEN v.groups ELSE 0]>>]
  /\ UNCHANGED <<sdp, parsing, line, read, offers, before, whose, kind>>

SdpNext ==
  \/ \E o \in {"pub", "pull"} : ParseStart(o) \/ CreateAnswer(o)
  \/ \E l \in Lines : ParseNext(l)
  \/ OfferEnd

SdpSpec == SdpInit /\ [][SdpNext]_sdpVars

-----------------------------------------------------------------------------
Times(l, n) == [i \in 1 .. n |-> l]

(* Mutant: the ssrcs stand before the media line they belong to. *)
SectionTextEarly(c) ==
  Times(LineOf("group", "ok"), c.groups) \o Times(LineOf("ssrc", "ok"), c.ssrcs)
  \o <<LineOf("m", c.type), LineOf("other", "ok"), LineOf("rtpmap", "ok"),
       LineOf("other", "ok"), LineOf("fingerprint", "set"), LineOf("other", "ok")>>

(* add_media_content: codecs, ICE, fingerprint and setup, mid, direction,
   candidate, then groups and ssrcs. *)
SectionText(c) ==
  <<LineOf("m", c.type), LineOf("other", "ok"), LineOf("rtpmap", "ok"),
    LineOf("other", "ok"), LineOf("fingerprint", "set"), LineOf("other", "ok")>>
  \o Times(LineOf("group", "ok"), c.groups) \o Times(LineOf("ssrc", "ok"), c.ssrcs)

(* to_string.  An empty version, and an origin without a session id, are
   fields that SUtil::split leaves out. *)
AnswerText(a) ==
  <<LineOf("v", IF a.ver THEN "ok" ELSE "bad"), LineOf("o", IF a.org THEN "ok" ELSE "bad"),
    LineOf("other", "ok")>>
  \o SectionText(a.media[1]) \o SectionText(a.media[2])

ReadBack(a) == FoldLeft(ParseLine, Fresh, AnswerText(a))

FpOf(s) == IF s = << >> THEN "empty" ELSE s[1].dtls

(***************************************************************************)
(* The parser, with its one flag and its early return, does to the first   *)
(* media section what Offer says the signaling handlers rely on: the       *)
(* outcome of an offer, together with what was there before it, decides    *)
(* the fingerprint, also after offers that were refused half way.          *)
(***************************************************************************)
ParserKeepsOffer ==
  kind \in Offers =>
    FpOf(sdp[whose].media) \in FpAfter(FpOf(before.media), kind)

(***************************************************************************)
(* An answer reads back, also the answer to a pull whose offer was refused *)
(* half way and one made from a publisher's half-read offer: when the      *)
(* member's offers had a version and an origin before they were refused,   *)
(* the text that to_string makes is one that parse_sdp accepts, with an    *)
(* audio and a video section that carry a fingerprint and as many ssrcs    *)
(* and groups as the publisher announced when the answer was made.         *)
(* Without them it is refused.                                             *)
(***************************************************************************)
AnswerReadsBack ==
  answer # NoAnswer =>
    LET r == ReadBack(answer) IN
    /\ r.flag <=> (answer.ver /\ answer.org)
    /\ r.flag => r.media = [i \in {1, 2} |-> [answer.media[i] EXCEPT !.dtls = "set"]]
=============================================================================
