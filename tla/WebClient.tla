----------------------------- MODULE WebClient ------------------------------
(***************************************************************************)
(* The web client, src/webrtc-client/p2p/main.js: pages that join a room,  *)
(* publish and pull.  A page is single threaded; what a click starts goes  *)
(* on in callbacks of promises (getUserMedia, createOffer,                 *)
(* setLocalDescription), between which clicks and messages of the server   *)
(* are handled.  Whether the request that is sent in the end is a publish  *)
(* or a pull is decided by a global variable, not by the button.           *)
(*                                                                         *)
(* The server (module SignalingHandle) is reduced to what it answers.  Uids *)
(* are positive numbers.                                                   *)
(***************************************************************************)
EXTENDS Integers, Sequences

CONSTANTS Uids,       \* the user of each page; one page per user
          MaxClicks   \* clicks after the first on join

ASSUME ClientConstants == Uids \subseteq Nat \ {0}

VARIABLES
  remoteUid,   \* remoteUid[p]: the global remote_uid; 0 is ""
  peer,        \* peer[p]: the ZalRtcPeer of the page in its room map
  chain,       \* chain[p]: promises on their way, oldest first
  clicks,      \* clicks so far, without the first on join of each page
  toServer,    \* toServer[p]: messages to the server
  toClient,    \* toClient[p]: messages from it
  members,     \* members of the room, at the server
  careful,     \* the pages are used as the readme says
  request      \* the last request with an offer that was sent, and the click it comes from

clientVars == <<remoteUid, peer, chain, clicks, toServer, toClient, members, careful, request>>

NoUid == 0       \* ""
Publisher == -1  \* what publishStream passes as the remote uid

NoPeer == [there |-> FALSE, stream |-> FALSE, pc |-> FALSE, remote |-> Publisher,
           joined |-> FALSE, state |-> "stable"]

NoRequest == [button |-> "none", knew |-> NoUid, lone |-> TRUE, cmd |-> "none", remote |-> NoUid]

ClientInit ==
  /\ remoteUid = [p \in Uids |-> NoUid]
  /\ peer = [p \in Uids |-> NoPeer]
  /\ chain = [p \in Uids |-> << >>]
  /\ clicks = 0
  /\ toServer = [p \in Uids |-> << >>]
  /\ toClient = [p \in Uids |-> << >>]
  /\ members = {}
  /\ careful \in BOOLEAN
  /\ request = NoRequest

-----------------------------------------------------------------------------
(* A promise of the page's present peer, where the remote uid is read when it is
   kept, or of a peer that a new one has replaced, where it is as it was then. *)
Promise(at, button, knew, lone) ==
  [at |-> at, button |-> button, knew |-> knew, lone |-> lone, mine |-> TRUE, remote |-> NoUid]

Left(c, remote) ==
  [i \in DOMAIN c |-> IF c[i].mine THEN [c[i] EXCEPT !.mine = FALSE, !.remote = remote] ELSE c[i]]

(* joinBtn, JoinRoom, OpenLocalStream: a new peer, which takes the place of the
   one there is, and the camera is asked for. *)
JoinRoom(p) ==
  /\ careful => ~peer[p].there
  /\ IF peer[p].there THEN clicks < MaxClicks /\ clicks' = clicks + 1 ELSE UNCHANGED clicks
  /\ peer' = [peer EXCEPT ![p] = [NoPeer EXCEPT !.there = TRUE, !.joined = peer[p].joined]]
  /\ chain' = [chain EXCEPT ![p] = Append(Left(@, peer[p].remote), Promise("media", "join", NoUid, TRUE))]
  /\ UNCHANGED <<remoteUid, toServer, toClient, members, careful, request>>

Done(p, i) == chain' = [chain EXCEPT ![p] = SubSeq(@, 1, i - 1) \o SubSeq(@, i + 1, Len(@))]

(* initLocalStream and SendJoin, or the alert. *)
InitLocalStream(p, i, allowed) ==
  /\ chain[p][i].at = "media"
  /\ Done(p, i)
  /\ IF allowed
     THEN /\ peer' = [peer EXCEPT ![p].stream = @ \/ chain[p][i].mine]
          /\ toServer' = [toServer EXCEPT ![p] = Append(@, [cmd |-> "join", remote |-> NoUid])]
     ELSE UNCHANGED <<peer, toServer>>
  /\ UNCHANGED <<remoteUid, clicks, toClient, members, careful, request>>

(* Another click while promises of this peer are on their way. *)
UnderWay(c) == \E i \in DOMAIN c : c[i].mine

Overtaken(c) == [i \in DOMAIN c |-> [c[i] EXCEPT !.lone = @ /\ ~c[i].mine]]

(* publishBtn and pullBtn: CreateOffer of the page's peer, if there is one, with
   -1 or with the uid known so far.  CreatePeerConnection stores the connection
   before it asks for the tracks of the local stream, so a click that comes too
   early ends in an exception and leaves a connection without tracks. *)
CreateOffer(p, button, remote) ==
  /\ clicks < MaxClicks /\ clicks' = clicks + 1
  /\ peer[p].there
  /\ careful => /\ peer[p].joined /\ chain[p] = << >> /\ peer[p].state = "stable"
                /\ (button = "publish") <=> (remoteUid[p] = NoUid)
  /\ peer' = [peer EXCEPT ![p].remote = remote, ![p].pc = TRUE]
  /\ chain' = IF peer[p].pc \/ peer[p].stream
              THEN [chain EXCEPT ![p] = Append(Overtaken(@),
                                               Promise("offer", button, remoteUid[p], ~UnderWay(chain[p])))]
              ELSE [chain EXCEPT ![p] = Overtaken(@)]
  /\ UNCHANGED <<remoteUid, toServer, toClient, members, careful, request>>

PublishStream(p) == CreateOffer(p, "publish", Publisher)
(* As PullStream, with the argument of PublishStream. *)
PullStreamFromNobody(p) == CreateOffer(p, "pull", Publisher)

PullStream(p) == CreateOffer(p, "pull", remoteUid[p])

(* doCreateOffer *)
DoCreateOffer(p, i) ==
  /\ chain[p][i].at = "offer"
  /\ chain' = [chain EXCEPT ![p][i].at = "local"]
  /\ UNCHANGED <<remoteUid, peer, clicks, toServer, toClient, members, careful, request>>

(* The command sendSdpOffer sends: by the global remote_uid, as it is now. *)
Command(p) == IF remoteUid[p] # NoUid THEN "pullstream" ELSE "publish"

(* sendSdpOffer *)
SendSdpOffer(p, i) ==
  LET c == chain[p][i]
      r == [cmd |-> Command(p),
            remote |-> CASE Command(p) # "pullstream" -> NoUid
                         [] Command(p) = "pullstream" /\ c.mine -> peer[p].remote
                         [] Command(p) = "pullstream" /\ ~c.mine -> c.remote]
  IN  /\ c.at = "local"
      /\ Done(p, i)
      /\ peer' = [peer EXCEPT ![p].state = IF c.mine THEN "offered" ELSE @]
      /\ toServer' = [toServer EXCEPT ![p] = Append(@, r)]
      /\ request' = [button |-> c.button, knew |-> c.knew, lone |-> c.lone,
                     cmd |-> r.cmd, remote |-> r.remote]
      /\ UNCHANGED <<remoteUid, clicks, toClient, members, careful>>

-----------------------------------------------------------------------------
(* The server: a join is answered with the members there were; a publish of a
   member is answered, a pull if the remote user is a member too.  What it does
   not like it does not answer. *)
Members(s) == LET least == CHOOSE u \in s : \A v \in s : u <= v
              IN  IF s = {} THEN NoUid ELSE least

ServerAnswers(p) ==
  /\ toServer[p] # << >>
  /\ toServer' = [toServer EXCEPT ![p] = Tail(@)]
  /\ LET r == Head(toServer[p])
     IN  \/ /\ r.cmd = "join" /\ p \notin members
            /\ members' = members \union {p}
            /\ toClient' = [toClient EXCEPT ![p] = Append(@, [cmd |-> "resp-join", first |-> Members(members)])]
         \/ /\ r.cmd = "publish" /\ p \in members
            /\ toClient' = [toClient EXCEPT ![p] = Append(@, [cmd |-> "resp-publish", first |-> NoUid])]
            /\ UNCHANGED members
         \/ /\ r.cmd = "pullstream" /\ p \in members /\ r.remote \in members
            /\ toClient' = [toClient EXCEPT ![p] = Append(@, [cmd |-> "resp-pullstream", first |-> NoUid])]
            /\ UNCHANGED members
         \/ /\ \/ r.cmd = "join" /\ p \in members
               \/ r.cmd # "join" /\ p \notin members
               \/ r.cmd = "pullstream" /\ r.remote \notin members
            /\ UNCHANGED <<members, toClient>>
  /\ UNCHANGED <<remoteUid, peer, chain, clicks, careful, request>>

(* handleResponseJoin: the first of the members is the remote user. *)
HandleResponseJoin(p, m) ==
  /\ m.cmd = "resp-join"
  /\ remoteUid' = IF m.first # NoUid THEN [remoteUid EXCEPT ![p] = m.first] ELSE remoteUid
  /\ peer' = [peer EXCEPT ![p].joined = TRUE]

(* handleResponsePublish, handleResponsePullStream: setRemoteDescription, which
   a connection that waits for no answer refuses. *)
HandleResponseSdp(p, m) ==
  /\ m.cmd # "resp-join"
  /\ peer' = [peer EXCEPT ![p].state = "stable"]
  /\ UNCHANGED remoteUid

OnServerMsg(p) ==
  /\ toClient[p] # << >>
  /\ toClient' = [toClient EXCEPT ![p] = Tail(@)]
  /\ HandleResponseJoin(p, Head(toClient[p])) \/ HandleResponseSdp(p, Head(toClient[p]))
  /\ UNCHANGED <<chain, clicks, toServer, members, careful, request>>

(* The page is closed; the server removes the member. *)
ClosePage(p) ==
  /\ peer[p].joined
  /\ members' = members \ {p}
  /\ peer' = [peer EXCEPT ![p] = NoPeer]
  /\ chain' = [chain EXCEPT ![p] = << >>]
  /\ toServer' = [toServer EXCEPT ![p] = << >>]
  /\ toClient' = [toClient EXCEPT ![p] = << >>]
  /\ remoteUid' = [remoteUid EXCEPT ![p] = NoUid]
  /\ UNCHANGED <<clicks, careful, request>>

ClientNext ==
  \E p \in Uids :
    \/ JoinRoom(p) \/ PublishStream(p) \/ PullStream(p)
    \/ ServerAnswers(p) \/ OnServerMsg(p) \/ ClosePage(p)
    \/ \E i \in DOMAIN chain[p] :
         \/ \E allowed \in BOOLEAN : InitLocalStream(p, i, allowed)
         \/ DoCreateOffer(p, i) \/ SendSdpOffer(p, i)

ClientSpec == ClientInit /\ [][ClientNext]_clientVars

-----------------------------------------------------------------------------
(* A page that is used as the readme says (the first user of a room publishes,
   the later ones pull, one thing at a time) asks the server for what the button
   says, and pulls from a user the server named.  However it is used, the only
   ways to ask for something else are: to publish while another user is known,
   to pull while none was known at the click, or to click publish or pull again
   before the request of the first click is out (main.js:67, 92).  To join again
   meanwhile is not one of them: the request is still the old peer's. *)
RequestsFollowButtons ==
  LET r == request
      right == \/ r.button = "publish" /\ r.cmd = "publish"
               \/ r.button = "pull" /\ r.cmd = "pullstream" /\ r.remote = r.knew /\ r.knew \in Uids
  IN  r # NoRequest =>
        /\ careful => right
        /\ right \/ ~r.lone \/ r.knew = NoUid \/ r.button = "publish"
=============================================================================
