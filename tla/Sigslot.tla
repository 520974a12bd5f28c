------------------------------ MODULE Sigslot -------------------------------
(***************************************************************************)
(* Signals and slots (rtc_base/sigslot/sigslot.h), single threaded as they *)
(* are used here.  A signal keeps a list of connections, an object the set *)
(* of signals it is connected to, and both have to agree although slots    *)
(* connect, disconnect, copy and destroy objects and signals, and emit     *)
(* again, while an emission walks the list.                                *)
(***************************************************************************)
EXTENDS Integers, Sequences, SequencesExt

CONSTANTS
  Signals,    \* signal objects
  Slots,      \* objects that derive from has_slots
  MaxConns,   \* bound: ids of connections
  MaxDepth    \* bound: emissions inside each other

VARIABLES
  conns,      \* signal -> m_connected_slots
  current,    \* signal -> m_current_iterator: an id, or AtEnd
  senders,    \* slot -> m_senders
  liveSlots, liveSignals,
  stack,      \* the emissions under way, innermost last: [sig, first, called, broken]
  made,       \* ids given out so far
  forgotten   \* history: slots that were disconnected once of two times

sigVars == <<conns, current, senders, liveSlots, liveSignals, stack, made, forgotten>>

AtEnd == 0

SigInit ==
  /\ conns = [g \in Signals |-> {}] /\ current = [g \in Signals |-> AtEnd]
  /\ senders = [o \in Slots |-> {}]
  /\ liveSlots = Slots /\ liveSignals = Signals
  /\ stack = << >> /\ made = 0 /\ forgotten = {}

(* A list of connections: a set of [id, dest] in the order of the ids, which
   are given out as connections are appended. *)
IdsOf(list) == { c.id : c \in list }
To(list, o) == { c \in list : c.dest = o }

(* The first connection of a list. *)
Begin(list) == IF list = {} THEN AtEnd ELSE CHOOSE i \in IdsOf(list) : \A j \in IdsOf(list) : i <= j

(* The iterator behind the connection at. *)
Following(list, at) == Begin({ c \in list : c.id > at })

(* Mutant: the iterator is left on the connection that is erased. *)
SkipErasedNot(list, at, gone) == at

(* Where m_current_iterator goes when the connections in gone are erased
   one after the other. *)
SkipErased(list, at, gone) ==
  IF at \in gone THEN Begin({ c \in list : c.id > at /\ c.id \notin gone }) ELSE at

Without(list, gone) == { c \in list : c.id \notin gone }

(* The connections of a list once more, appended after the n there have been. *)
Again(list, n) == { [c EXCEPT !.id = n + c.id] : c \in list }

-----------------------------------------------------------------------------
(* signal::connect. *)
ConnectSlot(g, o) ==
  /\ g \in liveSignals /\ o \in liveSlots /\ made < MaxConns
  /\ conns' = [conns EXCEPT ![g] = @ \union {[id |-> made + 1, dest |-> o]}]
  /\ made' = made + 1
  /\ senders' = [senders EXCEPT ![o] = @ \union {g}]
  /\ UNCHANGED <<current, liveSlots, liveSignals, stack, forgotten>>

(* signal::disconnect: the first connection to o goes, and o forgets g even
   if there is another. *)
DisconnectSlot(g, o) ==
  /\ g \in liveSignals /\ To(conns[g], o) # {}
  /\ LET gone == {Begin(To(conns[g], o))}
     IN  /\ conns' = [conns EXCEPT ![g] = Without(@, gone)]
         /\ current' = [current EXCEPT ![g] = SkipErased(conns[g], @, gone)]
         /\ forgotten' = IF \E c, d \in To(conns[g], o) : c # d THEN forgotten \union {o} ELSE forgotten
  /\ senders' = [senders EXCEPT ![o] = @ \ {g}]
  /\ UNCHANGED <<liveSlots, liveSignals, stack, made>>

(* _signal_base::disconnect_all, also of the destructor; a signal is not
   destroyed while it is emitted. *)
DisconnectAll(g, destroy) ==
  /\ g \in liveSignals
  /\ destroy => \A i \in DOMAIN stack : stack[i].sig # g
  /\ conns' = [conns EXCEPT ![g] = {}] /\ current' = [current EXCEPT ![g] = AtEnd]
  /\ senders' = [o \in Slots |-> senders[o] \ {g}]
  /\ liveSignals' = IF destroy THEN liveSignals \ {g} ELSE liveSignals
  /\ UNCHANGED <<liveSlots, stack, made, forgotten>>

(* has_slots::disconnect_all, also of the destructor: do_slot_disconnect of
   every sender. *)
DisconnectSenders(o, destroy) ==
  LET gone(g) == IF g \in senders[o] THEN IdsOf(To(conns[g], o)) ELSE {}
  IN
  /\ o \in liveSlots
  /\ conns' = [g \in Signals |-> Without(conns[g], gone(g))]
  /\ current' = [g \in Signals |-> SkipErased(conns[g], current[g], gone(g))]
  /\ senders' = [senders EXCEPT ![o] = {}]
  /\ liveSlots' = IF destroy THEN liveSlots \ {o} ELSE liveSlots
  /\ UNCHANGED <<liveSignals, stack, made, forgotten>>

(* The copy constructor of a signal: h becomes a copy of g. *)
CopySignal(g, h) ==
  /\ g \in liveSignals /\ h \notin liveSignals /\ made + made <= MaxConns
  /\ conns' = [conns EXCEPT ![h] = Again(conns[g], made)]
  /\ made' = made + made
  /\ senders' = [o \in Slots |-> IF To(conns[g], o) # {} THEN senders[o] \union {h} ELSE senders[o]]
  /\ liveSignals' = liveSignals \union {h}
  /\ UNCHANGED <<current, liveSlots, stack, forgotten>>

(* The copy constructor of has_slots: p becomes a copy of o, and each sender
   duplicates its connections. *)
CopySlots(o, p) ==
  /\ o \in liveSlots /\ p \notin liveSlots /\ made + made <= MaxConns
  /\ conns' = [g \in Signals |->
                 IF g \in senders[o]
                 THEN conns[g] \union { [c EXCEPT !.dest = p] : c \in Again(To(conns[g], o), made) }
                 ELSE conns[g]]
  /\ made' = made + made
  /\ senders' = [senders EXCEPT ![p] = senders[o]]
  /\ liveSlots' = liveSlots \union {p}
  /\ UNCHANGED <<current, liveSignals, stack, forgotten>>

-----------------------------------------------------------------------------
(* An emission that has lost its iterator to another of the same signal; it ends
   when that one does, and what it has called is of no more interest. *)
Broken(g) == [sig |-> g, first |-> {}, called |-> {}, broken |-> TRUE]

(* signal::emit begins; inside one of the same signal it takes the iterator
   from it. *)
Emit(g) ==
  /\ g \in liveSignals /\ Len(stack) < MaxDepth
  /\ current' = [current EXCEPT ![g] = Begin(conns[g])]
  /\ stack' = Append([i \in DOMAIN stack |-> IF stack[i].sig = g THEN Broken(g) ELSE stack[i]],
                     [sig |-> g, first |-> IdsOf(conns[g]), called |-> {}, broken |-> FALSE])
  /\ UNCHANGED <<conns, senders, liveSlots, liveSignals, made, forgotten>>

(* The slot of the next connection is called; the iterator is moved first. *)
EmitNext ==
  /\ stack # << >>
  /\ LET g == Last(stack).sig
     IN  /\ current[g] # AtEnd
         /\ current' = [current EXCEPT ![g] = Following(conns[g], @)]
         /\ stack' = [stack EXCEPT ![Len(stack)].called = @ \union {current[g]}]
  /\ UNCHANGED <<conns, senders, liveSlots, liveSignals, made, forgotten>>

EmitEnds ==
  /\ stack # << >> /\ current[Last(stack).sig] = AtEnd
  /\ stack' = Front(stack)
  /\ UNCHANGED <<conns, current, senders, liveSlots, liveSignals, made, forgotten>>

SigNext ==
  \/ \E g \in Signals, o \in Slots : ConnectSlot(g, o) \/ DisconnectSlot(g, o)
  \/ \E g, h \in Signals : CopySignal(g, h)
  \/ \E o, p \in Slots : CopySlots(o, p)
  \/ \E b \in BOOLEAN : \/ \E g \in Signals : DisconnectAll(g, b)
                        \/ \E o \in Slots : DisconnectSenders(o, b)
  \/ \E g \in Signals : Emit(g)
  \/ EmitNext \/ EmitEnds

SigSpec == SigInit /\ [][SigNext]_sigVars

-----------------------------------------------------------------------------
(* Nobody is called after its end: signals and objects know of each other,
   but for an object connected twice and disconnected once, which its
   destructor leaves in the list. *)
BothSidesKnow ==
  \A g \in Signals :
    /\ current[g] # AtEnd => current[g] \in IdsOf(conns[g])
    /\ \A c \in conns[g] :
         c.dest \notin forgotten => g \in liveSignals /\ c.dest \in liveSlots /\ g \in senders[c.dest]
    /\ \A o \in liveSlots : g \in senders[o] => g \in liveSignals /\ To(conns[g], o) # {}

(* An emission that ends has called everybody who was connected when it began
   and still is, unless another one of the same signal ran inside it. *)
EveryoneCalled ==
  stack # << >> /\ ~Last(stack).broken =>
    LET e == Last(stack)
        left == { i \in IdsOf(conns[e.sig]) : current[e.sig] # AtEnd /\ i >= current[e.sig] }
    IN  (e.first \intersect IdsOf(conns[e.sig])) \subseteq e.called \union left

(***************************************************************************)
(* Signals call the slots that are connected, each once, and no slot of an *)
(* object that is gone, whatever the slots that are called in between do.  *)
(***************************************************************************)
SlotsCalledRight == BothSidesKnow /\ EveryoneCalled
=============================================================================
