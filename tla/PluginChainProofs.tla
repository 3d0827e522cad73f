------------------------- MODULE PluginChainProofs -------------------------
(***************************************************************************)
(* Theorems about the plugin chain, for every number of slots, set of      *)
(* formats and pool of objects.                                            *)
(***************************************************************************)
EXTENDS PluginChain, SequenceTheorems, TLAPS

(***************************************************************************)
(* The control thread's side.  A slot no call is at work on is settled:    *)
(* complete behind an open gate, or empty.  The slot of a call is          *)
(* somewhere between, and its gate is closed.                              *)
(***************************************************************************)

\* The slot's one host is of format f, its plugin in the given state.
Holds(s, f, state) ==
  /\ f \in Format
  /\ host[s][f] \in Object
  /\ life[host[s][f]] = state
  /\ \A g \in Format \ {f} : host[s][g] = None

Vacant(s) == \A f \in Format : host[s][f] = None

Settled(s) ==
  IF loaded[s] THEN Holds(s, format[s], "running") ELSE format[s] = Empty /\ Vacant(s)

\* Where the call stands: a teardown of what the slot held, an empty slot,
\* then a load.
Underway(s) ==
  /\ ~loaded[s]
  /\ call.at = "withdraw" => Holds(s, format[s], "running")
  /\ call.at = "stop"     => Holds(s, format[s], "withdrawn")
  /\ call.at = "delete"   => Holds(s, format[s], "stopped")
  /\ call.at = "reset"    => Holds(s, format[s], "deleted")
  /\ call.at = "clear"    => Vacant(s)
  /\ call.at = "make"     => Vacant(s) /\ format[s] = Empty /\ call.kind \in Format
  /\ call.at \in {"load", "undo"} => Holds(s, call.kind, "made") /\ format[s] = Empty
  /\ call.at = "tag"      => Holds(s, call.kind, "running") /\ format[s] = Empty
  /\ call.at = "open"     => Holds(s, call.kind, "running") /\ format[s] = call.kind

Busy(s) == call.at # "idle" /\ call.slot = s

SlotsInv == \A s \in Slots : IF Busy(s) THEN Underway(s) ELSE Settled(s)

\* A host belongs to one place, and every one that exists to some place.
OnePlace ==
  \A s, t \in Slots, f, g \in Format :
    host[s][f] = host[t][g] /\ host[s][f] # None => s = t /\ f = g

NoStray ==
  \A o \in Object : life[o] # "unused" => \E s \in Slots, f \in Format : host[s][f] = o

ChainTypes ==
  /\ enabled \in BOOLEAN
  /\ bypass \in [Slots -> BOOLEAN]
  /\ loaded \in [Slots -> BOOLEAN]
  /\ format \in [Slots -> Format \cup {Empty}]
  /\ host \in [Slots -> [Format -> Object \cup {None}]]
  /\ life \in [Object -> Life]
  /\ call \in [at : CallSteps, slot : Slots, kind : Format \cup {Empty, Unknown}]

ChainInv == ChainTypes /\ SlotsInv /\ OnePlace /\ NoStray

(***************************************************************************)
(* The audio thread's side.                                                *)
(***************************************************************************)

\* The places of the loop's body, where slot is one of the chain's.
Body == {"bypass", "format", "host", "enter", "inside"}

PassTypes ==
  /\ audio \in AudioSteps
  /\ slot \in 0 .. LastSlot + 1
  /\ audio \in Body => slot \in Slots
  /\ seen \in Format \cup {Empty, None} \cup Object
  /\ audio = "host" => seen \in Format
  /\ audio \in {"enter", "inside"} => seen \in Object
  /\ tried \subseteq Slots
  /\ alwaysOn \subseteq Slots
  /\ neverLoaded \subseteq Slots
  /\ alwaysBypassed \subseteq Slots

\* The running buffer holds what the plugins applied so far made of the input,
\* and the next plugin writes to the other one.
BufferInv ==
  /\ cur \in Scratch \cup {"in"}
  /\ which \in Scratch
  /\ which # cur
  /\ buffer \in [Scratch -> Results \cup {Scribbled}]
  /\ \E n \in 0 .. slot : applied \in [1 .. n -> Slots]
  /\ Content(cur) = applied

\* A slot that kept its state is on its way to be called, or was passed by for
\* a reason.
HistoryInv ==
  /\ \A s \in alwaysOn : loaded[s] /\ ~bypass[s]
  /\ \A s \in neverLoaded : ~loaded[s]
  /\ \A s \in alwaysBypassed : bypass[s]
  /\ audio = "idle" => slot = 0
  /\ audio \in Body \cup {"gate"} => \A s \in alwaysOn : s < slot => s \in tried
  /\ slot \in alwaysOn =>
       /\ audio = "host" => seen = format[slot]
       /\ audio = "enter" => seen = host[slot][format[slot]]
       /\ audio = "inside" => slot \in tried
  /\ audio \in Body => slot \notin neverLoaded
  /\ audio \in {"format", "host", "enter", "inside"} => slot \notin alwaysBypassed
  /\ tried \cap (neverLoaded \cup alwaysBypassed) = {}
  /\ audio = "deliver" => alwaysOn \subseteq tried
  /\ audio = "idle" => tried = {}

IInv == ChainInv /\ PassTypes /\ BufferInv /\ HistoryInv

----------------------------------------------------------------------------
(* The control thread keeps ChainInv. *)

LEMMA InitChain == Init => ChainInv
<1> SUFFICES ASSUME Init PROVE ChainInv
  OBVIOUS
<1>1. ChainTypes
  <2>1. call \in [at : CallSteps, slot : Slots, kind : Format \cup {Empty, Unknown}]
    BY ChainAssumption DEF Init, NoCall, CallSteps, Slots
  <2>2. life \in [Object -> Life]
    BY DEF Init, Life
  <2>   QED  BY <2>1, <2>2 DEF Init, ChainTypes
<1>2. SlotsInv
  BY DEF Init, NoCall, SlotsInv, Busy, Settled, Vacant
<1>3. OnePlace /\ NoStray
  BY DEF Init, OnePlace, NoStray
<1> QED  BY <1>1, <1>2, <1>3 DEF ChainInv

\* A step at one slot leaves the others settled: none of their hosts changes.
LEMMA Elsewhere ==
  ASSUME ChainInv, NEW c \in Slots, NEW s \in Slots, s # c, Settled(s),
         loaded'[s] = loaded[s], format'[s] = format[s], host'[s] = host[s],
         \A o \in Object : \/ life'[o] = life[o]
                          \/ life[o] = "unused"
                          \/ \E f \in Format : host[c][f] = o
  PROVE  Settled(s)'
BY ChainAssumption DEF ChainInv, OnePlace, Settled, Holds, Vacant

\* What a call in progress knows of its slot.
LEMMA AtWork ==
  ASSUME ChainInv, call.at # "idle"
  PROVE  call.slot \in Slots /\ Underway(call.slot)
BY DEF ChainInv, ChainTypes, SlotsInv, Busy

\* The call moves on within its slot: it is enough to see to that one.
LEMMA SlotsMoved ==
  ASSUME ChainInv, NEW c \in Slots,
         \A s \in Slots \ {c} : ~Busy(s) /\ ~Busy(s)',
         \A s \in Slots \ {c} :
           loaded'[s] = loaded[s] /\ format'[s] = format[s] /\ host'[s] = host[s],
         \A o \in Object : \/ life'[o] = life[o]
                          \/ life[o] = "unused"
                          \/ \E f \in Format : host[c][f] = o,
         IF Busy(c)' THEN Underway(c)' ELSE Settled(c)'
  PROVE  SlotsInv'
<1> SUFFICES ASSUME NEW s \in Slots PROVE (IF Busy(s) THEN Underway(s) ELSE Settled(s))'
  BY DEF SlotsInv
<1>1. CASE s = c
  BY <1>1
<1>2. CASE s # c
  <2>1. Settled(s) /\ ~Busy(s)'
    BY <1>2 DEF ChainInv, SlotsInv
  <2>2. Settled(s)'
    BY <1>2, <2>1, Elsewhere
  <2>   QED  BY <2>1, <2>2
<1> QED  BY <1>1, <1>2

\* Closing the gate: a load or an unload begins.
LEMMA StartChain ==
  ASSUME ChainInv, NEW s \in Slots, NEW k \in Format \cup {Empty, Unknown},
         call.at = "idle",
         loaded' = [loaded EXCEPT ![s] = FALSE],
         call' = [at |-> StepAfterGate(s), slot |-> s, kind |-> k],
         UNCHANGED <<enabled, bypass, format, host, life>>
  PROVE  ChainInv'
<1>1. ChainTypes'
  <2>1. StepAfterGate(s) \in CallSteps
    BY DEF StepAfterGate, CallSteps
  <2>   QED  BY <2>1 DEF ChainInv, ChainTypes
<1>2. Settled(s) /\ loaded'[s] = FALSE /\ call'.slot = s /\ call'.at = StepAfterGate(s)
  BY DEF ChainInv, ChainTypes, SlotsInv, Busy
<1>3. Underway(s)' /\ Busy(s)'
  <2>1. CASE loaded[s]
    <3>1. Holds(s, format[s], "running") /\ StepAfterGate(s) = "withdraw"
      BY <1>2, <2>1, ChainAssumption, FormatAssumption
         DEF Settled, Holds, StepAfterGate, Occupant
    <3>   QED  BY <1>2, <3>1 DEF Underway, Holds, Busy
  <2>2. CASE ~loaded[s]
    <3>1. Vacant(s) /\ StepAfterGate(s) = "clear"
      BY <1>2, <2>2 DEF Settled, StepAfterGate, Occupant
    <3>   QED  BY <1>2, <3>1 DEF Underway, Vacant, Busy
  <2>   QED  BY <2>1, <2>2
<1>4. SlotsInv'
  <2>1. \A t \in Slots \ {s} : ~Busy(t) /\ ~Busy(t)' /\ loaded'[t] = loaded[t]
    BY <1>2 DEF Busy, ChainInv, ChainTypes
  <2>   QED  BY <1>3, <2>1, SlotsMoved
<1>5. OnePlace' /\ NoStray'
  BY DEF ChainInv, OnePlace, NoStray
<1> QED  BY <1>1, <1>4, <1>5 DEF ChainInv

\* A step of a teardown: the plugin's life goes on, the host stays.
LEMMA TeardownChain ==
  ASSUME ChainInv, Withdraw \/ TearDownActive \/ DeleteActive
  PROVE  ChainInv'
<1>1. PICK c \in Slots, o \in Object :
        /\ c = call.slot /\ o = host[c][format[c]] /\ Occupant(c) = o
        /\ Underway(c) /\ call.at # "idle"
        /\ format[c] \in Format /\ life[o] # "unused"
        /\ \A g \in Format \ {format[c]} : host[c][g] = None
  <2> DEFINE c == call.slot
             o == host[c][format[c]]
  <2>1. call.at \in {"withdraw", "stop", "delete"}
    BY DEF Withdraw, TearDownActive, DeleteActive, CallStep
  <2>2. c \in Slots /\ Underway(c)
    BY <2>1, AtWork
  <2>3. format[c] \in Format /\ o \in Object /\ life[o] # "unused"
        /\ \A g \in Format \ {format[c]} : host[c][g] = None
    BY <2>1, <2>2 DEF Underway, Holds
  <2>   QED  BY <2>1, <2>2, <2>3, FormatAssumption DEF Occupant
<1>2. PICK state \in Life \ {"unused"} :
        /\ life' = [life EXCEPT ![o] = state]
        /\ \/ call'.at = "stop" /\ state = "withdrawn"
           \/ call'.at = "delete" /\ state = "stopped"
           \/ call'.at = "reset" /\ state = "deleted"
  BY <1>1 DEF Withdraw, TearDownActive, DeleteActive, CallStep, Becomes, Life, ChainInv, ChainTypes
<1>3. /\ UNCHANGED <<enabled, bypass, loaded, format, host>>
      /\ call' = [call EXCEPT !.at = call'.at] /\ call'.at \in CallSteps
  BY <1>2 DEF Withdraw, TearDownActive, DeleteActive, CallStep, Becomes, CallSteps
<1>4. ChainTypes'
  BY <1>1, <1>2, <1>3 DEF ChainInv, ChainTypes
<1>5. call'.slot = c
  BY <1>1, <1>3 DEF ChainInv, ChainTypes
<1>6. Busy(c)' /\ Underway(c)'
  BY <1>1, <1>2, <1>3, <1>5 DEF Busy, Underway, Holds, ChainInv, ChainTypes
<1>7. SlotsInv'
  <2>1. \A t \in Slots \ {c} :
          /\ ~Busy(t) /\ ~Busy(t)'
          /\ loaded'[t] = loaded[t] /\ format'[t] = format[t] /\ host'[t] = host[t]
    BY <1>1, <1>3, <1>5 DEF Busy
  <2>2. \A p \in Object : life'[p] = life[p] \/ \E f \in Format : host[c][f] = p
    BY <1>1, <1>2 DEF ChainInv, ChainTypes
  <2>   QED  BY <1>1, <1>6, <2>1, <2>2, SlotsMoved
<1>8. OnePlace' /\ NoStray'
  BY <1>1, <1>2, <1>3 DEF ChainInv, ChainTypes, OnePlace, NoStray
<1> QED  BY <1>4, <1>7, <1>8 DEF ChainInv

\* unique_ptr::reset leaves the slot without a host.
LEMMA ResetChain ==
  ASSUME ChainInv, ResetHost
  PROVE  ChainInv'
<1>1. PICK c \in Slots, o \in Object :
        /\ c = call.slot /\ o = host[c][format[c]] /\ Occupant(c) = o
        /\ Underway(c) /\ call.at = "reset" /\ Holds(c, format[c], "deleted")
  <2> DEFINE c == call.slot
             o == host[c][format[c]]
  <2>1. call.at = "reset"
    BY DEF ResetHost, CallStep
  <2>2. c \in Slots /\ Underway(c)
    BY <2>1, AtWork
  <2>   QED  BY <2>1, <2>2, FormatAssumption DEF Underway, Holds, Occupant
<1>2. /\ host' = [host EXCEPT ![c][format[c]] = None]
      /\ life' = [life EXCEPT ![o] = "unused"]
      /\ call' = [call EXCEPT !.at = "clear"]
      /\ UNCHANGED <<enabled, bypass, loaded, format>>
  BY <1>1 DEF ResetHost, CallStep
<1>3. ChainTypes'
  BY <1>1, <1>2 DEF ChainInv, ChainTypes, CallSteps, Life
<1>4. call'.slot = c /\ call'.at = "clear"
  BY <1>1, <1>2 DEF ChainInv, ChainTypes
<1>5. Busy(c)' /\ Underway(c)'
  <2>1. Vacant(c)'
    BY <1>1, <1>2 DEF Holds, Vacant, ChainInv, ChainTypes
  <2>   QED  BY <1>1, <1>2, <1>4, <2>1 DEF Busy, Underway
<1>6. SlotsInv'
  <2>1. \A t \in Slots \ {c} : ~Busy(t) /\ ~Busy(t)' /\ host'[t] = host[t]
    BY <1>2, <1>4 DEF Busy, ChainInv, ChainTypes
  <2>2. \A p \in Object : life'[p] = life[p] \/ \E f \in Format : host[c][f] = p
    BY <1>1, <1>2 DEF ChainInv, ChainTypes, Holds
  <2>   QED  BY <1>1, <1>2, <1>5, <2>1, <2>2, SlotsMoved
<1>7. \A s \in Slots, f \in Format :
        host'[s][f] = IF s = c /\ f = format[c] THEN None ELSE host[s][f]
  BY <1>1, <1>2 DEF ChainInv, ChainTypes
<1>8. OnePlace' /\ NoStray'
  <2>1. OnePlace'
    BY <1>7 DEF ChainInv, OnePlace
  <2>2. NoStray'
    <3> SUFFICES ASSUME NEW p \in Object, life'[p] # "unused"
                 PROVE  \E s \in Slots, f \in Format : host'[s][f] = p
      BY DEF NoStray
    <3>1. p # o /\ life[p] # "unused"
      BY <1>1, <1>2 DEF ChainInv, ChainTypes, Holds
    <3>2. PICK s \in Slots, f \in Format : host[s][f] = p
      BY <3>1 DEF ChainInv, NoStray
    <3>   QED  BY <1>1, <1>7, <3>1, <3>2
  <2>   QED  BY <2>1, <2>2
<1> QED  BY <1>3, <1>6, <1>8 DEF ChainInv

\* The format of the emptied slot is cleared.
LEMMA ClearChain ==
  ASSUME ChainInv, ClearFormat
  PROVE  ChainInv'
<1>1. PICK c \in Slots : c = call.slot /\ ~loaded[c] /\ Vacant(c) /\ call.at = "clear"
  <2> DEFINE c == call.slot
  <2>1. call.at = "clear"
    BY DEF ClearFormat, CallStep
  <2>   QED  BY <2>1, AtWork DEF Underway
<1>2. /\ format' = [format EXCEPT ![c] = Empty]
      /\ UNCHANGED <<enabled, bypass, loaded, host, life>>
      /\ \/ call.kind \in Format /\ call' = [call EXCEPT !.at = "make"]
         \/ call' = NoCall
  BY <1>1 DEF ClearFormat, CallStep
<1>3. ChainTypes'
  <2>1. NoCall \in [at : CallSteps, slot : Slots, kind : Format \cup {Empty, Unknown}]
    BY ChainAssumption DEF CallSteps, NoCall, Slots
  <2>2. [call EXCEPT !.at = "make"]
          \in [at : CallSteps, slot : Slots, kind : Format \cup {Empty, Unknown}]
    BY DEF ChainInv, ChainTypes, CallSteps
  <2>   QED  BY <1>1, <1>2, <2>1, <2>2 DEF ChainInv, ChainTypes
<1>4. IF Busy(c)' THEN Underway(c)' ELSE Settled(c)'
  BY <1>1, <1>2 DEF Busy, Underway, Settled, Vacant, NoCall, ChainInv, ChainTypes
<1>5. SlotsInv'
  <2>1. \A t \in Slots \ {c} :
          /\ ~Busy(t) /\ ~Busy(t)'
          /\ loaded'[t] = loaded[t] /\ format'[t] = format[t] /\ host'[t] = host[t]
    BY <1>1, <1>2 DEF Busy, NoCall, ChainInv, ChainTypes
  <2>2. \A p \in Object : life'[p] = life[p]
    BY <1>2
  <2>   QED  BY <1>1, <1>2, <1>4, <2>1, <2>2, SlotsMoved
<1>6. OnePlace' /\ NoStray'
  BY <1>2 DEF ChainInv, OnePlace, NoStray
<1> QED  BY <1>3, <1>5, <1>6 DEF ChainInv

\* make_unique puts a new host into the empty slot.
LEMMA MakeChain ==
  ASSUME ChainInv, MakeHost
  PROVE  ChainInv'
<1>1. PICK c \in Slots, k \in Format :
        /\ c = call.slot /\ k = call.kind
        /\ ~loaded[c] /\ Vacant(c) /\ format[c] = Empty /\ call.at = "make"
  <2> DEFINE c == call.slot
             k == call.kind
  <2>1. call.at = "make"
    BY DEF MakeHost, CallStep
  <2>   QED  BY <2>1, AtWork DEF Underway
<1>2. PICK o \in Object :
        /\ life[o] = "unused"
        /\ host' = [host EXCEPT ![c][k] = o]
        /\ life' = [life EXCEPT ![o] = "made"]
  BY <1>1 DEF MakeHost
<1>3. call' = [call EXCEPT !.at = "load"] /\ UNCHANGED <<enabled, bypass, loaded, format>>
  BY DEF MakeHost, CallStep
<1>4. ChainTypes'
  BY <1>1, <1>2, <1>3 DEF ChainInv, ChainTypes, CallSteps, Life
<1>5. \A s \in Slots, f \in Format :
        host'[s][f] = IF s = c /\ f = k THEN o ELSE host[s][f]
  BY <1>1, <1>2 DEF ChainInv, ChainTypes
<1>6. Underway(c)' /\ call'.slot = c
  <2>1. Holds(c, k, "made")'
    BY <1>1, <1>2, <1>3, <1>5 DEF Holds, Vacant, ChainInv, ChainTypes
  <2>2. call'.slot = c /\ call'.at = "load" /\ call'.kind = k
    BY <1>1, <1>3 DEF ChainInv, ChainTypes
  <2>   QED  BY <1>1, <1>3, <2>1, <2>2 DEF Underway
<1>7. SlotsInv'
  <2>1. \A t \in Slots \ {c} :
          /\ ~Busy(t) /\ ~Busy(t)'
          /\ loaded'[t] = loaded[t] /\ format'[t] = format[t] /\ host'[t] = host[t]
    BY <1>1, <1>2, <1>3, <1>6 DEF Busy, ChainInv, ChainTypes
  <2>2. \A p \in Object : life'[p] = life[p] \/ life[p] = "unused"
    BY <1>2 DEF ChainInv, ChainTypes
  <2>3. Busy(c)'
    BY <1>3, <1>6 DEF Busy, ChainInv, ChainTypes
  <2>   QED  BY <1>1, <1>6, <2>1, <2>2, <2>3, SlotsMoved
<1>8. \A s \in Slots, f \in Format : host[s][f] # o
  <2> SUFFICES ASSUME NEW s \in Slots, NEW f \in Format, host[s][f] = o PROVE FALSE
    OBVIOUS
  <2>1. CASE Busy(s)
    BY <1>1, <1>2, <2>1, ChainAssumption DEF Busy, Vacant
  <2>2. CASE ~Busy(s)
    BY <1>2, <2>2, ChainAssumption DEF ChainInv, SlotsInv, Settled, Holds, Vacant
  <2>   QED  BY <2>1, <2>2
<1>9. OnePlace' /\ NoStray'
  <2>1. OnePlace'
    BY <1>5, <1>8 DEF ChainInv, OnePlace
  <2>2. NoStray'
    <3> SUFFICES ASSUME NEW p \in Object, life'[p] # "unused"
                 PROVE  \E s \in Slots, f \in Format : host'[s][f] = p
      BY DEF NoStray
    <3>1. CASE p = o
      BY <1>1, <1>5, <3>1
    <3>2. CASE p # o
      <4>1. life[p] # "unused"
        BY <1>2, <3>2 DEF ChainInv, ChainTypes
      <4>2. PICK s \in Slots, f \in Format : host[s][f] = p
        BY <4>1 DEF ChainInv, NoStray
      <4>3. host[c][k] = None /\ None \notin Object
        BY <1>1, ChainAssumption DEF Vacant
      <4>   QED  BY <1>5, <4>2, <4>3
    <3>   QED  BY <3>1, <3>2
  <2>   QED  BY <2>1, <2>2
<1> QED  BY <1>4, <1>7, <1>9 DEF ChainInv

\* Load publishes the plugin, or the new host waits to be dropped.
LEMMA LoadChain ==
  ASSUME ChainInv, LoadPlugin
  PROVE  ChainInv'
<1>1. PICK c \in Slots, k \in Format, o \in Object :
        /\ c = call.slot /\ k = call.kind /\ o = host[c][k]
        /\ ~loaded[c] /\ Holds(c, k, "made") /\ format[c] = Empty /\ call.at = "load"
  <2> DEFINE c == call.slot
             k == call.kind
             o == host[c][k]
  <2>1. call.at = "load"
    BY DEF LoadPlugin, CallStep
  <2>   QED  BY <2>1, AtWork DEF Underway, Holds
<1>2. /\ UNCHANGED <<enabled, bypass, loaded, format, host>>
      /\ \/ call' = [call EXCEPT !.at = "tag"] /\ life' = [life EXCEPT ![o] = "running"]
         \/ call' = [call EXCEPT !.at = "undo"] /\ life' = life
  BY <1>1 DEF LoadPlugin, CallStep
<1>3. ChainTypes'
  BY <1>1, <1>2 DEF ChainInv, ChainTypes, CallSteps, Life
<1>4. Busy(c)' /\ Underway(c)' /\ call'.slot = c
  BY <1>1, <1>2 DEF Busy, Underway, Holds, ChainInv, ChainTypes
<1>5. SlotsInv'
  <2>1. \A t \in Slots \ {c} :
          /\ ~Busy(t) /\ ~Busy(t)'
          /\ loaded'[t] = loaded[t] /\ format'[t] = format[t] /\ host'[t] = host[t]
    BY <1>1, <1>2, <1>4 DEF Busy
  <2>2. \A p \in Object : life'[p] = life[p] \/ \E f \in Format : host[c][f] = p
    BY <1>1, <1>2 DEF Holds, ChainInv, ChainTypes
  <2>   QED  BY <1>1, <1>4, <2>1, <2>2, SlotsMoved
<1>6. OnePlace' /\ NoStray'
  BY <1>1, <1>2 DEF ChainInv, ChainTypes, OnePlace, NoStray, Holds
<1> QED  BY <1>3, <1>5, <1>6 DEF ChainInv

\* A failed load ends with the slot empty.
LEMMA UndoChain ==
  ASSUME ChainInv, UndoLoad
  PROVE  ChainInv'
<1>1. PICK c \in Slots, k \in Format, o \in Object :
        /\ c = call.slot /\ k = call.kind /\ o = host[c][k]
        /\ ~loaded[c] /\ Holds(c, k, "made") /\ format[c] = Empty /\ call.at = "undo"
  <2> DEFINE c == call.slot
             k == call.kind
             o == host[c][k]
  <2>1. call.at = "undo"
    BY DEF UndoLoad, CallStep
  <2>   QED  BY <2>1, AtWork DEF Underway, Holds
<1>2. /\ host' = [host EXCEPT ![c][k] = None]
      /\ life' = [life EXCEPT ![o] = "unused"]
      /\ call' = NoCall
      /\ UNCHANGED <<enabled, bypass, loaded, format>>
  BY <1>1 DEF UndoLoad, CallStep
<1>3. ChainTypes'
  BY <1>1, <1>2, ChainAssumption DEF ChainInv, ChainTypes, CallSteps, Life, NoCall, Slots, Holds
<1>4. \A s \in Slots, f \in Format :
        host'[s][f] = IF s = c /\ f = k THEN None ELSE host[s][f]
  BY <1>1, <1>2 DEF ChainInv, ChainTypes, Holds
<1>5. SlotsInv'
  <2>1. \A t \in Slots \ {c} :
          /\ ~Busy(t) /\ ~Busy(t)'
          /\ loaded'[t] = loaded[t] /\ format'[t] = format[t] /\ host'[t] = host[t]
    BY <1>1, <1>2 DEF Busy, NoCall, ChainInv, ChainTypes
  <2>2. \A p \in Object : life'[p] = life[p] \/ \E f \in Format : host[c][f] = p
    BY <1>1, <1>2 DEF ChainInv, ChainTypes, Holds
  <2>3. ~Busy(c)'
    BY <1>2 DEF Busy, NoCall
  <2>4. Settled(c)'
    <3>1. Vacant(c)'
      BY <1>1, <1>4 DEF Holds, Vacant
    <3>   QED  BY <1>1, <1>2, <3>1 DEF Settled
  <2>   QED  BY <1>1, <2>1, <2>2, <2>3, <2>4, SlotsMoved
<1>6. OnePlace' /\ NoStray'
  <2>1. OnePlace'
    BY <1>4 DEF ChainInv, OnePlace
  <2>2. NoStray'
    <3> SUFFICES ASSUME NEW p \in Object, life'[p] # "unused"
                 PROVE  \E s \in Slots, f \in Format : host'[s][f] = p
      BY DEF NoStray
    <3>1. p # o /\ life[p] # "unused"
      BY <1>1, <1>2 DEF ChainInv, ChainTypes, Holds
    <3>2. PICK s \in Slots, f \in Format : host[s][f] = p
      BY <3>1 DEF ChainInv, NoStray
    <3>   QED  BY <1>1, <1>4, <3>1, <3>2
  <2>   QED  BY <2>1, <2>2
<1> QED  BY <1>3, <1>5, <1>6 DEF ChainInv

\* The format is set, then the gate is opened.
LEMMA OpenChain ==
  ASSUME ChainInv, TagFormat \/ OpenGate
  PROVE  ChainInv'
<1>1. PICK c \in Slots, k \in Format :
        /\ c = call.slot /\ k = call.kind
        /\ ~loaded[c] /\ Holds(c, k, "running")
        /\ call.at \in {"tag", "open"}
        /\ call.at = "open" => format[c] = k
  <2> DEFINE c == call.slot
             k == call.kind
  <2>1. call.at \in {"tag", "open"}
    BY DEF TagFormat, OpenGate, CallStep
  <2>   QED  BY <2>1, AtWork DEF Underway, Holds
<1>2. /\ UNCHANGED <<enabled, bypass, host, life>>
      /\ \/ /\ call' = [call EXCEPT !.at = "open"]
            /\ format' = [format EXCEPT ![c] = k]
            /\ loaded' = loaded
         \/ /\ call.at = "open" /\ call' = NoCall
            /\ format' = format
            /\ loaded' = [loaded EXCEPT ![c] = TRUE]
  BY <1>1 DEF TagFormat, OpenGate, CallStep
<1>3. ChainTypes'
  <2>1. call' \in [at : CallSteps, slot : Slots, kind : Format \cup {Empty, Unknown}]
    BY <1>2, ChainAssumption DEF ChainInv, ChainTypes, CallSteps, NoCall, Slots
  <2>   QED  BY <1>1, <1>2, <2>1 DEF ChainInv, ChainTypes
<1>4. IF Busy(c)' THEN Underway(c)' ELSE Settled(c)'
  <2>1. CASE call' = NoCall /\ call.at = "open"
    <3>1. format'[c] = k /\ loaded'[c] /\ ~Busy(c)'
      BY <1>1, <1>2, <2>1 DEF Busy, NoCall, ChainInv, ChainTypes
    <3>2. Settled(c)'
      BY <1>1, <1>2, <3>1 DEF Settled, Holds
    <3>   QED  BY <3>1, <3>2
  <2>2. CASE call' = [call EXCEPT !.at = "open"] /\ format' = [format EXCEPT ![c] = k] /\ loaded' = loaded
    <3>1. format'[c] = k /\ ~loaded'[c] /\ call'.at = "open" /\ call'.kind = k /\ Busy(c)'
      BY <1>1, <2>2 DEF Busy, ChainInv, ChainTypes
    <3>2. Underway(c)'
      BY <1>1, <1>2, <3>1 DEF Underway, Holds
    <3>   QED  BY <3>1, <3>2
  <2>   QED  BY <1>2, <2>1, <2>2
<1>5. SlotsInv'
  <2>1. \A t \in Slots \ {c} :
          /\ ~Busy(t) /\ ~Busy(t)'
          /\ loaded'[t] = loaded[t] /\ format'[t] = format[t] /\ host'[t] = host[t]
    BY <1>1, <1>2 DEF Busy, NoCall, ChainInv, ChainTypes
  <2>2. \A p \in Object : life'[p] = life[p]
    BY <1>2
  <2>   QED  BY <1>1, <1>2, <1>4, <2>1, <2>2, SlotsMoved
<1>6. OnePlace' /\ NoStray'
  BY <1>2 DEF ChainInv, OnePlace, NoStray
<1> QED  BY <1>3, <1>5, <1>6 DEF ChainInv

\* The audio thread changes nothing of the chain.
LEMMA AudioKeepsChain ==
  ASSUME AudioNext
  PROVE  UNCHANGED <<chain, call>>
BY DEF AudioNext, BeginPass, EndLoop, ReadLoaded, ReadBypass, ReadFormat, ReadHost, EnterHost,
       PluginDone, PluginRefused, PluginCrashed, Deliver, AudioStep

LEMMA NextChain ==
  ASSUME ChainInv, [Next]_vars
  PROVE  ChainInv'
<1>1. CASE UNCHANGED <<chain, call>>
  BY <1>1 DEF chain, ChainInv, ChainTypes, SlotsInv, OnePlace, NoStray, Busy, Underway, Settled,
     Holds, Vacant
<1>2. CASE SetSlotBypass \/ SetChainEnabled
  <2>1. /\ UNCHANGED <<loaded, format, host, life, call>>
        /\ enabled' \in BOOLEAN /\ bypass' \in [Slots -> BOOLEAN]
    BY <1>2 DEF SetSlotBypass, SetChainEnabled, ChainInv, ChainTypes
  <2>   QED  BY <2>1 DEF ChainInv, ChainTypes, SlotsInv, OnePlace, NoStray, Busy, Underway,
             Settled, Holds, Vacant
<1>3. CASE LoadSlot \/ UnloadSlot
  <2>1. PICK s \in Slots, k \in Format \cup {Empty, Unknown} :
          /\ call.at = "idle"
          /\ loaded' = [loaded EXCEPT ![s] = FALSE]
          /\ call' = [at |-> StepAfterGate(s), slot |-> s, kind |-> k]
          /\ UNCHANGED <<enabled, bypass, format, host, life>>
    BY <1>3 DEF LoadSlot, UnloadSlot
  <2>   QED  BY <2>1, StartChain
<1>4. ControlNext => \/ SetSlotBypass \/ SetChainEnabled \/ LoadSlot \/ UnloadSlot
                     \/ Withdraw \/ TearDownActive \/ DeleteActive \/ ResetHost \/ ClearFormat
                     \/ MakeHost \/ LoadPlugin \/ UndoLoad \/ TagFormat \/ OpenGate
  BY DEF ControlNext
<1>5. UNCHANGED vars => UNCHANGED <<chain, call>>
  BY DEF vars, chain
<1> QED  BY <1>1, <1>2, <1>3, <1>4, <1>5, AudioKeepsChain, TeardownChain, ResetChain, ClearChain,
            MakeChain, LoadChain, UndoChain, OpenChain DEF Next

LEMMA ChainInductive == Spec => []ChainInv
BY InitChain, NextChain, PTL DEF Spec

\* An open gate lets Process see a complete slot, at every moment of every
\* load, failed load, replacement and unload, for any number of slots.
THEOREM OpenIsPopulated == Spec => []OpenSlotPopulated
<1>1. ChainInv => OpenSlotPopulated
  BY DEF ChainInv, SlotsInv, Underway, Settled, Holds, OpenSlotPopulated
<1> QED  BY <1>1, ChainInductive, PTL

\* Between calls nothing is left of hosts that were replaced, unloaded or
\* failed to load.
THEOREM NoLeak == Spec => []NothingLeftBehind
<1>1. ASSUME ChainInv, call.at = "idle"
      PROVE  /\ \A s \in Slots, f \in Format : host[s][f] # None <=> loaded[s] /\ format[s] = f
             /\ \A s \in Slots : loaded[s] <=> format[s] # Empty
             /\ \A o \in Object : HostAlive(o) => \E s \in Slots, f \in Format : host[s][f] = o
  <2>1. \A s \in Slots : Settled(s)
    BY <1>1 DEF ChainInv, SlotsInv, Busy
  <2>2. \A s \in Slots, f \in Format : host[s][f] # None <=> loaded[s] /\ format[s] = f
    BY <2>1, ChainAssumption, FormatAssumption DEF Settled, Holds, Vacant
  <2>3. \A s \in Slots : loaded[s] <=> format[s] # Empty
    BY <2>1, FormatAssumption DEF Settled, Holds
  <2>   QED  BY <1>1, <2>2, <2>3 DEF ChainInv, NoStray, HostAlive
<1>2. ChainInv => NothingLeftBehind
  BY <1>1 DEF NothingLeftBehind
<1> QED  BY <1>2, ChainInductive, PTL

----------------------------------------------------------------------------
(* The audio thread keeps its pass in order. *)

LEMMA InitPass == Init => PassTypes /\ BufferInv /\ HistoryInv
<1> SUFFICES ASSUME Init PROVE PassTypes /\ BufferInv /\ HistoryInv
  OBVIOUS
<1> USE DEF Init, AudioRest
<1>1. PassTypes
  BY ChainAssumption DEF PassTypes, AudioSteps, Body
<1>2. BufferInv
  <2>1. applied \in [1 .. 0 -> Slots] /\ 0 \in 0 .. slot
    OBVIOUS
  <2>   QED  BY <2>1 DEF BufferInv, Scratch, Content
<1>3. HistoryInv
  BY DEF HistoryInv, Body
<1> QED  BY <1>1, <1>2, <1>3

\* The control thread leaves the pass alone, lets go of what history says of a
\* slot it changes, and changes no slot behind an open gate.
LEMMA ControlKeepsPass ==
  ASSUME ChainInv, HistoryInv, ControlNext
  PROVE  /\ UNCHANGED pass
         /\ \A s \in alwaysOn' : s \in alwaysOn /\ loaded'[s] /\ ~bypass'[s]
         /\ \A s \in neverLoaded' : s \in neverLoaded /\ ~loaded'[s]
         /\ \A s \in alwaysBypassed' : s \in alwaysBypassed /\ bypass'[s]
         /\ \A s \in Slots : loaded[s] /\ loaded'[s] => UNCHANGED <<format[s], host[s]>>
<1> USE DEF history, HistoryInv
<1>1. CASE SetSlotBypass \/ SetChainEnabled \/ LoadSlot \/ UnloadSlot
  BY <1>1 DEF SetSlotBypass, SetChainEnabled, LoadSlot, UnloadSlot, Note
<1>2. CASE OpenGate
  BY <1>2 DEF OpenGate, Note
<1>3. CASE \/ Withdraw \/ TearDownActive \/ DeleteActive \/ ResetHost \/ ClearFormat
           \/ MakeHost \/ LoadPlugin \/ UndoLoad \/ TagFormat
  <2>1. call.at # "idle" /\ UNCHANGED <<bypass, loaded, pass, history>>
    BY <1>3 DEF Withdraw, TearDownActive, DeleteActive, ResetHost, ClearFormat, MakeHost,
       LoadPlugin, UndoLoad, TagFormat, CallStep, Becomes
  <2>2. call.slot \in Slots /\ ~loaded[call.slot]
    BY <2>1, AtWork DEF Underway
  <2>3. \A s \in Slots \ {call.slot} : UNCHANGED <<format[s], host[s]>>
    BY <1>3 DEF Withdraw, TearDownActive, DeleteActive, ResetHost, ClearFormat, MakeHost,
       LoadPlugin, UndoLoad, TagFormat, CallStep, Becomes, ChainInv, ChainTypes
  <2>   QED  BY <2>1, <2>2, <2>3
<1> QED  BY <1>1, <1>2, <1>3 DEF ControlNext

LEMMA ControlPass ==
  ASSUME ChainInv, PassTypes, BufferInv, HistoryInv, ControlNext
  PROVE  PassTypes' /\ BufferInv' /\ HistoryInv'
<1>1. UNCHANGED <<audio, slot, seen, cur, which, buffer, applied, tried>>
  BY ControlKeepsPass DEF pass
<1>2. PassTypes'
  BY <1>1, ControlKeepsPass DEF PassTypes
<1>3. BufferInv'
  BY <1>1 DEF BufferInv, Content
<1>4. HistoryInv'
  <2>1. \A s \in alwaysOn' : s \in Slots /\ loaded[s] /\ UNCHANGED <<format[s], host[s]>>
    BY ControlKeepsPass DEF PassTypes, HistoryInv
  <2>   QED  BY <1>1, <2>1, ControlKeepsPass DEF HistoryInv
<1> QED  BY <1>2, <1>3, <1>4

\* A slot that is on has all the loop asks for.
LEMMA OnIsPopulated ==
  ASSUME ChainInv, PassTypes, HistoryInv, NEW s \in alwaysOn
  PROVE  /\ s \in Slots /\ loaded[s] /\ ~bypass[s]
         /\ format[s] \in Format /\ format[s] # Empty
         /\ host[s][format[s]] \in Object /\ host[s][format[s]] # None
         /\ life[host[s][format[s]]] = "running"
<1>1. s \in Slots /\ loaded[s] /\ ~bypass[s]
  BY DEF PassTypes, HistoryInv
<1>2. Settled(s)
  BY <1>1 DEF ChainInv, SlotsInv, Underway
<1> QED  BY <1>1, <1>2, ChainAssumption, FormatAssumption DEF Settled, Holds

\* BeginPass takes stock; Deliver starts afresh.
LEMMA EndsPass ==
  ASSUME ChainInv, PassTypes, BufferInv, HistoryInv, BeginPass \/ EndLoop \/ Deliver
  PROVE  PassTypes' /\ BufferInv' /\ HistoryInv'
<1> USE ChainAssumption
<1>1. CASE BeginPass
  <2>1. PassTypes'
    BY <1>1 DEF BeginPass, PassTypes, AudioSteps, Body
  <2>2. BufferInv'
    BY <1>1 DEF BeginPass, BufferInv, Content
  <2>3. HistoryInv'
    BY <1>1 DEF BeginPass, HistoryInv, Body, chain, PassTypes, Slots
  <2>   QED  BY <2>1, <2>2, <2>3
<1>2. CASE EndLoop
  <2>1. PassTypes'
    BY <1>2 DEF EndLoop, AudioStep, PassTypes, AudioSteps, Body, history
  <2>2. BufferInv'
    BY <1>2 DEF EndLoop, AudioStep, BufferInv, Content
  <2>3. HistoryInv'
    BY <1>2 DEF EndLoop, AudioStep, HistoryInv, Body, chain, history, PassTypes, Slots
  <2>   QED  BY <2>1, <2>2, <2>3
<1>3. CASE Deliver
  <2>1. PassTypes'
    BY <1>3 DEF Deliver, PassTypes, AudioSteps, Body
  <2>2. BufferInv'
    <3>1. <<>> \in [1 .. 0 -> Slots] /\ slot' = 0
      BY <1>3 DEF Deliver
    <3>   QED  BY <1>3, <3>1 DEF Deliver, BufferInv, Content, Scratch
  <2>3. HistoryInv'
    BY <1>3 DEF Deliver, HistoryInv, Body
  <2>   QED  BY <2>1, <2>2, <2>3
<1> QED  BY <1>1, <1>2, <1>3

\* The loop looks at a slot.  One that is always on is passed by at no test.
LEMMA TestsPass ==
  ASSUME ChainInv, PassTypes, BufferInv, HistoryInv,
         ReadLoaded \/ ReadBypass \/ ReadFormat \/ ReadHost
  PROVE  PassTypes' /\ BufferInv' /\ HistoryInv'
<1> USE ChainAssumption DEF AudioStep, NextSlot
<1>1. /\ UNCHANGED <<chain, call, cur, which, buffer, applied, tried, history>>
      /\ slot' \in {slot, slot + 1} /\ slot \in Slots
  BY DEF ReadLoaded, ReadBypass, ReadFormat, ReadHost, PassTypes, Body, Slots
<1>2. PassTypes'
  <2>1. ReadLoaded => PassTypes'
    BY <1>1 DEF ReadLoaded, PassTypes, AudioSteps, Body, Slots, history
  <2>2. ReadBypass => PassTypes'
    BY <1>1 DEF ReadBypass, PassTypes, AudioSteps, Body, Slots, history
  <2>3. ReadFormat => PassTypes'
    BY <1>1 DEF ReadFormat, PassTypes, AudioSteps, Body, Slots, history, ChainInv, ChainTypes
  <2>4. ReadHost => PassTypes'
    BY <1>1 DEF ReadHost, PassTypes, AudioSteps, Body, Slots, history, ChainInv, ChainTypes
  <2>   QED  BY <2>1, <2>2, <2>3, <2>4
<1>3. BufferInv'
  <2>1. slot \in Nat /\ \A n \in 0 .. slot : n \in 0 .. slot'
    BY <1>1 DEF Slots
  <2>   QED  BY <1>1, <2>1 DEF BufferInv, Content
<1>4. HistoryInv'
  <2> DEFINE Rest ==
        /\ \A s \in alwaysOn : loaded[s] /\ ~bypass[s]
        /\ \A s \in neverLoaded : ~loaded[s]
        /\ \A s \in alwaysBypassed : bypass[s]
        /\ tried \cap (neverLoaded \cup alwaysBypassed) = {}
  <2>0. Rest /\ UNCHANGED <<alwaysOn, neverLoaded, alwaysBypassed, tried, loaded, bypass, format, host>>
    BY <1>1 DEF HistoryInv, history, chain
  <2>1. CASE audio' = "gate"
    <3>1. slot' = slot + 1 /\ slot \notin alwaysOn
      BY <2>1, OnIsPopulated DEF ReadLoaded, ReadBypass, ReadFormat, ReadHost, HistoryInv
    <3>2. \A s \in alwaysOn : s < slot' => s < slot
      BY <1>1, <3>1 DEF PassTypes, Slots
    <3>3. \A s \in alwaysOn : s < slot' => s \in tried
      BY <3>2 DEF ReadLoaded, ReadBypass, ReadFormat, ReadHost, HistoryInv, Body
    <3>   QED  BY <2>0, <2>1, <3>3 DEF HistoryInv, Body
  <2>2. CASE audio' # "gate"
    <3>1. slot' = slot /\ audio' \in Body /\ audio' # "inside" /\ audio \in Body \cup {"gate"}
      BY <2>2 DEF ReadLoaded, ReadBypass, ReadFormat, ReadHost, Body
    <3>2. \A s \in alwaysOn : s < slot => s \in tried
      BY <3>1 DEF HistoryInv
    <3>3. slot \in alwaysOn =>
            /\ audio' = "host" => seen' = format[slot]
            /\ audio' = "enter" => seen' = host[slot][format[slot]]
      BY <2>2 DEF ReadLoaded, ReadBypass, ReadFormat, ReadHost, HistoryInv
    <3>4. slot \notin neverLoaded
      BY <2>0, <2>2 DEF ReadLoaded, ReadBypass, ReadFormat, ReadHost, HistoryInv, Body
    <3>5. audio' # "bypass" => slot \notin alwaysBypassed
      BY <2>0, <2>2 DEF ReadLoaded, ReadBypass, ReadFormat, ReadHost, HistoryInv
    <3>   QED  BY <2>0, <3>1, <3>2, <3>3, <3>4, <3>5 DEF HistoryInv, Body
  <2>   QED  BY <2>1, <2>2
<1> QED  BY <1>2, <1>3, <1>4

\* Slots the plugins of a pass were applied at, one more of them.
LEMMA ResultsGrow ==
  ASSUME NEW n \in 0 .. LastSlot, NEW r \in [1 .. n -> Slots], NEW s \in Slots
  PROVE  /\ r \in Results
         /\ r # Scribbled
         /\ Append(r, s) \in [1 .. n + 1 -> Slots]
         /\ Append(r, s) \in Results
<1> USE ChainAssumption
<1>1. r \in Results
  <2>1. CASE n = 0
    <3>1. r \in Seq(Slots) /\ Len(r) = 0
      BY <2>1
    <3>   QED  BY <3>1 DEF Results
  <2>2. CASE n # 0
    BY <2>2 DEF Results
  <2>   QED  BY <2>1, <2>2
<1>2. Append(r, s) \in [1 .. n + 1 -> Slots]
  <2>1. n \in Nat /\ r \in Seq(Slots) /\ Len(r) = n
    OBVIOUS
  <2>2. Append(r, s) \in Seq(Slots) /\ Len(Append(r, s)) = n + 1
    BY <2>1
  <2>3. n + 1 \in Nat /\ Append(r, s) \in [1 .. Len(Append(r, s)) -> Slots]
    BY <2>2, LenProperties
  <2>   QED  BY <2>2, <2>3
<1>3. Append(r, s) \in Results
  BY <1>2 DEF Results
<1> QED  BY <1>1, <1>2, <1>3, BufferAssumption

LEMMA PluginPass ==
  ASSUME ChainInv, PassTypes, BufferInv, HistoryInv,
         EnterHost \/ PluginDone \/ PluginRefused \/ PluginCrashed
  PROVE  PassTypes' /\ BufferInv' /\ HistoryInv'
<1> USE ChainAssumption DEF AudioStep, NextSlot
<1>1. /\ UNCHANGED <<chain, call, history>>
      /\ slot' \in {slot, slot + 1} /\ slot \in Slots /\ audio \in {"enter", "inside"}
      /\ audio' \in {"inside", "gate", "crashed"}
      /\ audio' = "gate" => slot' = slot + 1
      /\ audio' # "gate" => slot' = slot /\ seen' = seen
      /\ tried' = IF audio = "enter" /\ audio' = "inside" THEN tried \cup {slot} ELSE tried
  BY DEF EnterHost, PluginDone, PluginRefused, PluginCrashed, PassTypes, Body, Slots
<1>2. PassTypes'
  <2>1. seen' = seen \/ seen' = None
    BY DEF EnterHost, PluginDone, PluginRefused, PluginCrashed
  <2>   QED  BY <1>1, <2>1 DEF PassTypes, AudioSteps, Body, Slots, history
<1>3. BufferInv'
  <2>1. PICK n \in 0 .. slot : applied \in [1 .. n -> Slots]
    BY DEF BufferInv
  <2>2. n \in 0 .. LastSlot /\ slot \in Nat
    BY <1>1, <2>1 DEF Slots
  <2>3. CASE UNCHANGED <<cur, which, buffer, applied>>
    <3>1. n \in 0 .. slot'
      BY <1>1, <2>1, <2>2
    <3>   QED  BY <2>1, <2>3, <3>1 DEF BufferInv, Content
  <2>4. CASE /\ UNCHANGED <<cur, which, applied, slot>>
             /\ buffer' = [buffer EXCEPT ![which] = Scribbled]
    BY <2>4 DEF BufferInv, Content
  <2>5. CASE PluginDone
    <3>1. /\ Content(cur) = applied /\ Processed(applied) = Append(applied, slot)
          /\ Append(applied, slot) \in [1 .. n + 1 -> Slots] /\ Append(applied, slot) \in Results
      BY <1>1, <2>1, <2>2, ResultsGrow DEF BufferInv, Processed
    <3>2. /\ buffer' = [buffer EXCEPT ![which] = Append(applied, slot)]
          /\ cur' = which /\ which' = Other(which) /\ applied' = Append(applied, slot)
      BY <2>5, <3>1 DEF PluginDone
    <3>3. Other(which) \in Scratch /\ Other(which) # which
      BY DEF BufferInv, Scratch, Other
    <3>4. buffer' \in [Scratch -> Results \cup {Scribbled}] /\ cur' \in Scratch
          /\ Content(cur)' = applied'
      BY <3>1, <3>2 DEF BufferInv, Content, Scratch
    <3>5. slot' = slot + 1 /\ n + 1 \in 0 .. slot'
      BY <2>1, <2>2, <2>5 DEF PluginDone
    <3>   QED  BY <3>1, <3>2, <3>3, <3>4, <3>5 DEF BufferInv
  <2>   QED  BY <2>3, <2>4, <2>5 DEF EnterHost, PluginRefused, PluginCrashed
<1>4. HistoryInv'
  <2>0. UNCHANGED <<alwaysOn, neverLoaded, alwaysBypassed, loaded, bypass, format, host>>
    BY <1>1 DEF history, chain
  <2>1. audio = "enter" /\ slot \in alwaysOn => audio' = "inside"
    BY OnIsPopulated DEF EnterHost, PluginDone, PluginRefused, PluginCrashed, HistoryInv,
       HostAlive
  <2>2. slot \in alwaysOn => slot \in tried'
    BY <1>1, <2>1 DEF HistoryInv
  <2>3. slot \notin neverLoaded \cup alwaysBypassed
    BY <1>1 DEF HistoryInv, Body
  <2>4. \A s \in alwaysOn : s < slot' => s \in tried'
    <3> SUFFICES ASSUME NEW s \in alwaysOn, s < slot' PROVE s \in tried'
      OBVIOUS
    <3>1. s < slot \/ s = slot
      BY <1>1 DEF PassTypes, Slots
    <3>2. s < slot => s \in tried
      BY <1>1 DEF HistoryInv, Body
    <3>   QED  BY <1>1, <2>2, <3>1, <3>2
  <2>5. tried' \cap (neverLoaded \cup alwaysBypassed) = {}
    BY <1>1, <2>3 DEF HistoryInv
  <2>   QED  BY <1>1, <2>0, <2>2, <2>3, <2>4, <2>5 DEF HistoryInv, Body
<1> QED  BY <1>2, <1>3, <1>4

LEMMA NextIInv == IInv /\ [Next]_vars => IInv'
<1> SUFFICES ASSUME IInv, [Next]_vars PROVE IInv'
  OBVIOUS
<1>1. ChainInv'
  BY NextChain DEF IInv
<1>2. PassTypes' /\ BufferInv' /\ HistoryInv'
  <2>1. CASE UNCHANGED vars
    BY <2>1 DEF IInv, vars, chain, pass, history, PassTypes, BufferInv, HistoryInv, Content
  <2>2. CASE ControlNext
    BY <2>2, ControlPass DEF IInv
  <2>3. CASE AudioNext
    BY <2>3, EndsPass, TestsPass, PluginPass DEF IInv, AudioNext
  <2>   QED  BY <2>1, <2>2, <2>3 DEF Next
<1> QED  BY <1>1, <1>2 DEF IInv

LEMMA Inductive == Spec => []IInv
<1>1. Init => IInv
  BY InitChain, InitPass DEF IInv
<1> QED  BY <1>1, NextIInv, PTL DEF Spec

\* Type correctness of the chain.
THEOREM TypeCorrect == Spec => []TypeOK
<1>1. ASSUME IInv PROVE TypeOK
  <2>1. applied \in Results
    <3>1. PICK n \in 0 .. slot : applied \in [1 .. n -> Slots]
      BY <1>1 DEF IInv, BufferInv
    <3>2. CASE n = 0
      <4>1. applied \in Seq(Slots) /\ Len(applied) = 0
        BY <3>1, <3>2
      <4>   QED  BY <4>1 DEF Results
    <3>3. CASE n # 0
      <4>1. n \in 1 .. LastSlot + 1
        BY <1>1, <3>1, <3>3, ChainAssumption DEF IInv, PassTypes
      <4>   QED  BY <3>1, <4>1 DEF Results
    <3>   QED  BY <3>2, <3>3
  <2>   QED  BY <1>1, <2>1 DEF IInv, ChainInv, ChainTypes, PassTypes, BufferInv, TypeOK
<1> QED  BY <1>1, Inductive, PTL

\* What is delivered is the input put through the plugins that accepted, in
\* slot order, whatever the control thread changes during the pass.
THEOREM OutputComposed == Spec => []OutputIsComposition
<1>1. IInv => OutputIsComposition
  BY DEF IInv, BufferInv, OutputIsComposition
<1> QED  BY <1>1, Inductive, PTL

\* A pass calls every plugin that stood open throughout, and none that was
\* unloaded or bypassed throughout.
THEOREM SteadyHonoured == Spec => []SteadySlotsHonoured
<1>1. IInv => SteadySlotsHonoured
  BY DEF IInv, HistoryInv, SteadySlotsHonoured
<1> QED  BY <1>1, Inductive, PTL

============================================================================
