------------------------- MODULE ParamBridgeProofs -------------------------
(***************************************************************************)
(* Theorems about the parameter bridge, for every set of parameters, range *)
(* of values, capacity of the queues and number of edits.                  *)
(***************************************************************************)
EXTENDS ParamBridge, SequenceTheorems, TLAPS

(***************************************************************************)
(* What each thread holds while it is where it is.                         *)
(***************************************************************************)
ThreadInv ==
  /\ editor.at # "idle" => editor.fire \in Fire
  /\ setter.at # "idle" => setter.fire \in Fire
  /\ drain = "dispatch" => inFlight \in Fire
  /\ drain # "dispatch" => inFlight = None

\* The destructor has started exactly when the stop is requested, and by then
\* no performEdit is in progress.
StopInv ==
  /\ stopRequested <=> handler # "live"
  /\ handler # "live" => editor.at = "idle"

\* The drain thread blocks only on an empty queue, and leaves it empty.
DrainInv ==
  /\ drain = "falseHeld" => queue = <<>>
  /\ drain = "exited" => queue = <<>> /\ stopRequested
  /\ SleepNeverStrands

\* NewestFireWins, which says nothing of an older fire still in flight: once
\* the newest was handed over, or missed for want of a callback, there is none.
InFlightIs(p) == drain = "dispatch" /\ inFlight.id = p

HandedOver(p) ==
  \/ Latest(queue, p, fired[p])
  \/ /\ NoneOf(queue, p)
     /\ InFlightIs(p) /\ inFlight.value = fired[p]
  \/ /\ NoneOf(queue, p)
     /\ ~InFlightIs(p)
     /\ shown[p] = fired[p] \/ p \in unheard
  \/ p \in evicted

FireInv == \A p \in Param : fired[p] # None => HandedOver(p)

IInv == TypeOK /\ ThreadInv /\ StopInv /\ DrainInv /\ FireInv /\ NewestPushWins

----------------------------------------------------------------------------
(* Lemmas about the capped deque and about the last of a parameter's entries. *)

\* A push drops the first d entries and adds f at the end.
IsPushed(r, q, f, d) ==
  /\ r \in Seq(Fire)
  /\ Len(q) \in Nat /\ Len(r) \in Nat /\ d \in {0, 1} /\ d <= Len(q)
  /\ Len(r) = Len(q) - d + 1
  /\ \A i \in 1 .. Len(q) - d : r[i] = q[i + d]
  /\ r[Len(r)] = f

Dropped(q, cap) == IF Len(q) >= cap THEN 1 ELSE 0

LEMMA PushedEntries ==
  ASSUME NEW q \in Seq(Fire), NEW f \in Fire, NEW cap \in Nat \ {0}
  PROVE  IsPushed(PushCapped(q, f, cap), q, f, Dropped(q, cap))
<1>1. CASE Len(q) >= cap
  <2>1. q # <<>> /\ Len(q) \in Nat
    BY <1>1, LenProperties, EmptySeq
  <2>2. PushCapped(q, f, cap) = Append(Tail(q), f)
    BY <1>1 DEF PushCapped
  <2>3. /\ Tail(q) \in Seq(Fire)
        /\ Len(Tail(q)) = Len(q) - 1
        /\ \A i \in 1 .. Len(Tail(q)) : Tail(q)[i] = q[i + 1]
    BY <2>1, HeadTailProperties
  <2>4. /\ Append(Tail(q), f) \in Seq(Fire)
        /\ Len(Append(Tail(q), f)) = Len(q) - 1 + 1
        /\ \A i \in 1 .. Len(q) - 1 : Append(Tail(q), f)[i] = Tail(q)[i]
        /\ Append(Tail(q), f)[Len(q) - 1 + 1] = f
    BY <2>3, AppendProperties
  <2>   QED  BY <1>1, <2>1, <2>2, <2>3, <2>4 DEF Dropped, IsPushed
<1>2. CASE ~(Len(q) >= cap)
  <2>1. PushCapped(q, f, cap) = Append(q, f) /\ Len(q) \in Nat
    BY <1>2, LenProperties DEF PushCapped
  <2>2. /\ Append(q, f) \in Seq(Fire)
        /\ Len(Append(q, f)) = Len(q) + 1
        /\ \A i \in 1 .. Len(q) : Append(q, f)[i] = q[i]
        /\ Append(q, f)[Len(q) + 1] = f
    BY AppendProperties
  <2>   QED  BY <1>2, <2>1, <2>2 DEF Dropped, IsPushed
<1> QED  BY <1>1, <1>2

\* The deque keeps its type and its bound.
LEMMA PushedBounded ==
  ASSUME NEW q \in Seq(Fire), NEW f \in Fire, NEW cap \in Nat \ {0}, Len(q) <= cap
  PROVE  PushCapped(q, f, cap) \in Seq(Fire) /\ Len(PushCapped(q, f, cap)) <= cap
BY PushedEntries DEF Dropped, IsPushed

\* What is pushed is the newest of its parameter.
LEMMA PushedNewest ==
  ASSUME NEW q \in Seq(Fire), NEW f \in Fire, NEW cap \in Nat \ {0}
  PROVE  Latest(PushCapped(q, f, cap), f.id, f.value)
<1> DEFINE r == PushCapped(q, f, cap)
<1>1. Len(r) \in Nat \ {0} /\ r[Len(r)] = f
  BY PushedEntries DEF IsPushed
<1>2. f = [id |-> f.id, value |-> f.value]
  BY DEF Fire
<1> QED  BY <1>1, <1>2 DEF Latest

\* The newest of another parameter stays, unless it is the entry dropped.
LEMMA PushedOthers ==
  ASSUME NEW q \in Seq(Fire), NEW f \in Fire, NEW cap \in Nat \ {0},
         NEW p \in Param, p # f.id, NEW v
  PROVE  /\ Latest(q, p, v) =>
              Latest(PushCapped(q, f, cap), p, v) \/ p \in Evicted(q, f, cap)
         /\ NoneOf(q, p) => NoneOf(PushCapped(q, f, cap), p)
<1> DEFINE r == PushCapped(q, f, cap)
<1>0. Len(q) \in Nat
  BY LenProperties
<1>1. PICK d : d = Dropped(q, cap) /\ IsPushed(r, q, f, d)
  BY PushedEntries
<1>2. NoneOf(q, p) => NoneOf(r, p)
  <2> SUFFICES ASSUME NoneOf(q, p), NEW k \in 1 .. Len(r) PROVE r[k].id # p
    BY DEF NoneOf
  <2>1. CASE k = Len(r)
    BY <1>0, <1>1, <2>1 DEF IsPushed
  <2>2. CASE k # Len(r)
    <3>1. k \in 1 .. Len(q) - d /\ k + d \in 1 .. Len(q)
      BY <1>0, <1>1, <2>2 DEF IsPushed
    <3>   QED  BY <1>1, <3>1 DEF IsPushed, NoneOf
  <2>   QED  BY <2>1, <2>2
<1>3. ASSUME Latest(q, p, v) PROVE Latest(r, p, v) \/ p \in Evicted(q, f, cap)
  <2>1. PICK k \in 1 .. Len(q) :
          /\ q[k] = [id |-> p, value |-> v]
          /\ \A j \in k + 1 .. Len(q) : q[j].id # p
    BY <1>3 DEF Latest
  <2>2. CASE k > d
    <3>1. k - d \in 1 .. Len(r) /\ r[k - d] = q[k]
      BY <1>0, <1>1, <2>2 DEF IsPushed
    <3>2. ASSUME NEW j \in k - d + 1 .. Len(r) PROVE r[j].id # p
      <4>1. CASE j = Len(r)
        BY <1>0, <1>1, <4>1 DEF IsPushed
      <4>2. CASE j # Len(r)
        <5>1. j \in 1 .. Len(q) - d /\ j + d \in k + 1 .. Len(q)
          BY <1>0, <1>1, <2>2, <4>2 DEF IsPushed
        <5>   QED  BY <1>1, <2>1, <5>1 DEF IsPushed
      <4>   QED  BY <4>1, <4>2
    <3>   QED  BY <2>1, <3>1, <3>2 DEF Latest
  <2>3. CASE ~(k > d)
    <3>1. k = 1 /\ Len(q) >= cap
      BY <1>0, <1>1, <2>3 DEF IsPushed, Dropped
    <3>2. Head(q) = q[1]
      BY <1>0, <2>1, <3>1, EmptySeq
    <3>3. Head(q).id = p
      BY <2>1, <3>1, <3>2
    <3>4. \A j \in 2 .. Len(q) : q[j].id # p
      BY <2>1, <3>1
    <3>   QED  BY <3>1, <3>3, <3>4 DEF Evicted
  <2>   QED  BY <2>2, <2>3
<1> QED  BY <1>2, <1>3

\* Taking the first entry leaves the newest of every parameter, unless it was
\* that entry.
LEMMA TailLatest ==
  ASSUME NEW q \in Seq(Fire), q # <<>>, NEW p \in Param, NEW v
  PROVE  /\ Latest(q, p, v) =>
              \/ Latest(Tail(q), p, v)
              \/ Head(q) = [id |-> p, value |-> v] /\ NoneOf(Tail(q), p)
         /\ NoneOf(q, p) => NoneOf(Tail(q), p) /\ Head(q).id # p
<1>1. /\ Len(q) \in Nat \ {0}
      /\ Head(q) = q[1]
      /\ Len(Tail(q)) = Len(q) - 1
      /\ \A i \in 1 .. Len(q) - 1 : Tail(q)[i] = q[i + 1]
  BY HeadTailProperties, LenProperties, EmptySeq
<1>2. NoneOf(q, p) => NoneOf(Tail(q), p) /\ Head(q).id # p
  BY <1>1 DEF NoneOf
<1>3. ASSUME Latest(q, p, v)
      PROVE  \/ Latest(Tail(q), p, v)
             \/ Head(q) = [id |-> p, value |-> v] /\ NoneOf(Tail(q), p)
  <2>1. PICK k \in 1 .. Len(q) :
          /\ q[k] = [id |-> p, value |-> v]
          /\ \A j \in k + 1 .. Len(q) : q[j].id # p
    BY <1>3 DEF Latest
  <2>2. CASE k = 1
    BY <1>1, <2>1, <2>2 DEF NoneOf
  <2>3. CASE k # 1
    <3>1. k - 1 \in 1 .. Len(Tail(q)) /\ Tail(q)[k - 1] = q[k]
      BY <1>1, <2>3
    <3>2. ASSUME NEW j \in (k - 1) + 1 .. Len(Tail(q)) PROVE Tail(q)[j].id # p
      BY <1>1, <2>1
    <3>   QED  BY <2>1, <3>1, <3>2 DEF Latest
  <2>   QED  BY <2>2, <2>3
<1> QED  BY <1>2, <1>3

\* A parameter has one newest value.
LEMMA LatestUnique ==
  ASSUME NEW q \in Seq(Fire), NEW p \in Param, NEW v, NEW w, Latest(q, p, v)
  PROVE  ~NoneOf(q, p) /\ (Latest(q, p, w) => v = w)
<1>1. Len(q) \in Nat
  BY LenProperties
<1>2. PICK k \in 1 .. Len(q) :
        /\ q[k] = [id |-> p, value |-> v]
        /\ \A j \in k + 1 .. Len(q) : q[j].id # p
  BY DEF Latest
<1>3. ~NoneOf(q, p)
  BY <1>2 DEF NoneOf
<1>4. ASSUME Latest(q, p, w) PROVE v = w
  <2>1. PICK m \in 1 .. Len(q) :
          /\ q[m] = [id |-> p, value |-> w]
          /\ \A j \in m + 1 .. Len(q) : q[j].id # p
    BY <1>4 DEF Latest
  <2>2. k = m
    BY <1>1, <1>2, <2>1
  <2>   QED  BY <1>2, <2>1, <2>2
<1> QED  BY <1>3, <1>4

----------------------------------------------------------------------------
(* Types, and what each thread holds. *)

LEMMA FireFields ==
  ASSUME NEW f \in Fire
  PROVE  f.id \in Param /\ f.value \in Value /\ f = [id |-> f.id, value |-> f.value]
BY DEF Fire

LEMMA InitTypes == Init => TypeOK /\ ThreadInv /\ StopInv
<1> SUFFICES ASSUME Init PROVE TypeOK /\ ThreadInv /\ StopInv
  OBVIOUS
<1>1. 0 \in Value /\ 0 \in 0 .. MaxEdits
  BY BridgeAssumption DEF Value
<1>2. NoCall \in Call({"idle", "push"})
      /\ NoCall \in Call({"idle", "coalesce", "push", "enqueue", "notify"})
  BY DEF NoCall, Call
<1>3. <<>> \in Seq(Fire) /\ Len(<<>>) <= QueueCap /\ Len(<<>>) <= PendingCap
  BY BridgeAssumption, EmptySeq
<1>4. TypeOK
  BY <1>1, <1>2, <1>3 DEF Init, TypeOK
<1> QED  BY <1>4 DEF Init, ThreadInv, StopInv, NoCall

LEMMA EvictedType ==
  ASSUME NEW q \in Seq(Fire), NEW f \in Fire, NEW cap \in Nat \ {0}
  PROVE  Evicted(q, f, cap) \subseteq Param
<1>1. CASE Len(q) >= cap
  <2>1. Head(q) \in Fire
    BY <1>1, LenProperties, EmptySeq, HeadTailProperties
  <2>   QED  BY <2>1, FireFields DEF Evicted
<1>2. CASE ~(Len(q) >= cap)
  BY <1>2 DEF Evicted
<1> QED  BY <1>1, <1>2

\* A push to pendingChanges keeps the audio side's types.
LEMMA PushPendingTypes ==
  ASSUME TypeOK, NEW f \in Fire, PushPending(f)
  PROVE  /\ pending' \in Seq(Fire) /\ Len(pending') <= PendingCap
         /\ pushed' \in [Param -> Value \cup {None}]
         /\ lostPush' \subseteq Param
<1>1. pending' \in Seq(Fire) /\ Len(pending') <= PendingCap
  BY BridgeAssumption, PushedBounded DEF TypeOK, PushPending
<1>2. pushed' \in [Param -> Value \cup {None}]
  BY FireFields DEF TypeOK, PushPending
<1>3. lostPush' \subseteq Param
  BY EvictedType, BridgeAssumption DEF TypeOK, PushPending
<1> QED  BY <1>1, <1>2, <1>3

LEMMA NextTypes ==
  ASSUME TypeOK, ThreadInv, [Next]_vars
  PROVE  TypeOK' /\ ThreadInv'
<1>1. CASE TurnKnob
  <2>1. PICK f \in Fire :
          /\ knob' = [knob EXCEPT ![f.id] = f.value]
          /\ editor' = [at |-> "coalesce", fire |-> f]
    BY <1>1 DEF TurnKnob
  <2>2. knob' \in [Param -> Value] /\ edits' \in 0 .. MaxEdits
    BY <1>1, <2>1, BridgeAssumption, FireFields DEF TurnKnob, TypeOK
  <2>3. editor' \in Call({"idle", "coalesce", "push", "enqueue", "notify"})
        /\ editor'.fire \in Fire
    BY <2>1 DEF Call
  <2>   QED  BY <1>1, <2>2, <2>3 DEF TurnKnob, TypeOK, ThreadInv, coalesce, audioQ, hostQ, sent
<1>2. CASE Coalesce
  <2>1. editor.fire \in Fire /\ editor.fire.id \in Param /\ editor.fire.value \in Value
    BY <1>2, FireFields DEF Coalesce, ThreadInv
  <2>2. lastFire' \in [Param -> Value \cup {None}] /\ windowOpen' \in [Param -> BOOLEAN]
    BY <1>2, <2>1 DEF Coalesce, TypeOK
  <2>3. /\ editor' \in Call({"idle", "coalesce", "push", "enqueue", "notify"})
        /\ editor'.at # "idle" => editor'.fire \in Fire
    BY <1>2, <2>1 DEF Coalesce, TypeOK, Call, NoCall
  <2>   QED  BY <1>2, <2>2, <2>3 DEF Coalesce, TypeOK, ThreadInv, plugin, audioQ, hostQ, sent
<1>3. CASE AudioQueuePush
  <2>1. editor.fire \in Fire /\ PushPending(editor.fire)
    BY <1>3 DEF AudioQueuePush, ThreadInv
  <2>2. /\ editor' \in Call({"idle", "coalesce", "push", "enqueue", "notify"})
        /\ editor'.fire \in Fire
    BY <1>3, <2>1 DEF AudioQueuePush, TypeOK, Call
  <2>   QED  BY <1>3, <2>1, <2>2, PushPendingTypes
             DEF AudioQueuePush, TypeOK, ThreadInv, plugin, coalesce, hostQ, sent
<1>4. CASE Enqueue
  <2>1. editor.fire \in Fire
    BY <1>4 DEF Enqueue, ThreadInv
  <2>2. /\ editor' \in Call({"idle", "coalesce", "push", "enqueue", "notify"})
        /\ editor'.fire \in Fire
    BY <1>4, <2>1 DEF Enqueue, TypeOK, Call
  <2>3. queue' \in Seq(Fire) /\ Len(queue') <= QueueCap
    BY <1>4, <2>1, BridgeAssumption, PushedBounded DEF Enqueue, TypeOK
  <2>4. fired' \in [Param -> Value \cup {None}]
    BY <1>4, <2>1, FireFields DEF Enqueue, TypeOK
  <2>5. evicted' \subseteq Param
    BY <1>4, <2>1, EvictedType, BridgeAssumption DEF Enqueue, TypeOK
  <2>   QED  BY <1>4, <2>2, <2>3, <2>4, <2>5
             DEF Enqueue, TypeOK, ThreadInv, plugin, coalesce, audioQ, sent
<1>5. CASE NotifyDrain
  BY <1>5 DEF NotifyDrain, TypeOK, ThreadInv, Call, NoCall, plugin, coalesce, audioQ, hostQ, sent, Notify
<1>6. CASE WindowCloses
  BY <1>6 DEF WindowCloses, TypeOK, ThreadInv, Call, NoCall, plugin, coalesce, audioQ, hostQ, sent
<1>7. CASE DrainTest
  <2>1. CASE queue # <<>> /\ queue' = Tail(queue) /\ inFlight' = Head(queue) /\ drain' = "dispatch"
    <3>1. Head(queue) \in Fire /\ Tail(queue) \in Seq(Fire) /\ Len(Tail(queue)) = Len(queue) - 1
          /\ Len(queue) \in Nat
      BY <2>1, HeadTailProperties, LenProperties DEF TypeOK
    <3>   QED  BY <1>7, <2>1, <3>1, BridgeAssumption
               DEF DrainTest, TypeOK, ThreadInv, plugin, coalesce, audioQ
  <2>2. CASE UNCHANGED <<inFlight, queue>> /\ drain' \in {"exited", "falseHeld"}
    BY <1>7, <2>2 DEF DrainTest, TypeOK, ThreadInv, plugin, coalesce, audioQ
  <2>   QED  BY <1>7, <2>1, <2>2 DEF DrainTest
<1>8. CASE DrainBlock
  BY <1>8 DEF DrainBlock, TypeOK, ThreadInv, Call, NoCall, plugin, coalesce, audioQ, hostQ, sent
<1>9. CASE Dispatch
  <2>1. inFlight.id \in Param /\ inFlight.value \in Value
    BY <1>9, FireFields DEF Dispatch, ThreadInv
  <2>2. shown' \in [Param -> Value \cup {None}] /\ unheard' \subseteq Param
    BY <1>9, <2>1 DEF Dispatch, TypeOK
  <2>   QED  BY <1>9, <2>2 DEF Dispatch, TypeOK, ThreadInv, plugin, coalesce, audioQ, hostQ
<1>10. CASE SpuriousWake
  BY <1>10 DEF SpuriousWake, TypeOK, ThreadInv, Call, NoCall, plugin, coalesce, audioQ, hostQ, sent
<1>11. CASE DrainPending
  <2>1. pending' \in Seq(Fire) /\ Len(pending') <= PendingCap
    BY <1>11, BridgeAssumption, EmptySeq DEF DrainPending
  <2>   QED  BY <1>11, <2>1 DEF DrainPending, TypeOK, ThreadInv, coalesce, hostQ, sent
<1>12. CASE SetParamChangedCallback
  BY <1>12 DEF SetParamChangedCallback, TypeOK, ThreadInv, Call, NoCall, plugin, coalesce, audioQ, hostQ, sent
<1>13. CASE SetParam
  <2>1. PICK f \in Fire :
          /\ knob' = [knob EXCEPT ![f.id] = f.value]
          /\ setter' = [at |-> "push", fire |-> f]
    BY <1>13 DEF SetParam
  <2>2. knob' \in [Param -> Value] /\ edits' \in 0 .. MaxEdits
    BY <1>13, <2>1, BridgeAssumption, FireFields DEF SetParam, TypeOK
  <2>3. setter' \in Call({"idle", "push"}) /\ setter'.fire \in Fire
    BY <2>1 DEF Call
  <2>   QED  BY <1>13, <2>2, <2>3 DEF SetParam, TypeOK, ThreadInv, coalesce, audioQ, hostQ, sent
<1>14. CASE SetParamPush
  <2>1. setter.fire \in Fire /\ PushPending(setter.fire)
    BY <1>14 DEF SetParamPush, ThreadInv
  <2>2. setter' \in Call({"idle", "push"}) /\ setter'.at = "idle"
    BY <1>14 DEF SetParamPush, Call, NoCall
  <2>   QED  BY <1>14, <2>1, <2>2, PushPendingTypes
             DEF SetParamPush, TypeOK, ThreadInv, plugin, coalesce, hostQ, sent
<1>15. CASE DestroyHandler
  BY <1>15 DEF DestroyHandler, TypeOK, ThreadInv, Call, NoCall, plugin, coalesce, audioQ, hostQ, sent
<1>16. CASE NotifyStop
  BY <1>16 DEF NotifyStop, TypeOK, ThreadInv, Call, NoCall, plugin, coalesce, audioQ, hostQ, sent, Notify
<1>17. CASE Join
  BY <1>17 DEF Join, TypeOK, ThreadInv, Call, NoCall, plugin, coalesce, audioQ, hostQ, sent
<1>18. CASE UNCHANGED vars
  BY <1>18 DEF vars, TypeOK, ThreadInv, Call, NoCall, plugin, coalesce, audioQ, hostQ, sent
<1> QED
  BY <1>1, <1>2, <1>3, <1>4, <1>5, <1>6, <1>7, <1>8, <1>9, <1>10, <1>11, <1>12, <1>13, <1>14, <1>15, <1>16, <1>17, <1>18 DEF Next, EditNext, DrainNext

----------------------------------------------------------------------------
(* The drain thread's sleep and its end. *)

LEMMA NextDrain ==
  ASSUME TypeOK, StopInv, DrainInv, [Next]_vars
  PROVE  StopInv' /\ DrainInv'
<1>1. CASE TurnKnob
  BY <1>1 DEF TurnKnob, StopInv, DrainInv, SleepNeverStrands, NoCall, Notify, plugin, coalesce, audioQ, hostQ, sent
<1>2. CASE Coalesce
  BY <1>2 DEF Coalesce, StopInv, DrainInv, SleepNeverStrands, NoCall, Notify, plugin, coalesce, audioQ, hostQ, sent
<1>3. CASE AudioQueuePush
  BY <1>3 DEF AudioQueuePush, StopInv, DrainInv, SleepNeverStrands, NoCall, Notify, plugin, coalesce, audioQ, hostQ, sent
<1>4. CASE Enqueue
  BY <1>4 DEF Enqueue, StopInv, DrainInv, SleepNeverStrands, NoCall, Notify, plugin, coalesce, audioQ, hostQ, sent
<1>5. CASE NotifyDrain
  BY <1>5 DEF NotifyDrain, StopInv, DrainInv, SleepNeverStrands, NoCall, Notify, plugin, coalesce, audioQ, hostQ, sent
<1>6. CASE WindowCloses
  BY <1>6 DEF WindowCloses, StopInv, DrainInv, SleepNeverStrands, NoCall, Notify, plugin, coalesce, audioQ, hostQ, sent
<1>7. CASE DrainTest
  BY <1>7 DEF DrainTest, StopInv, DrainInv, SleepNeverStrands, NoCall, Notify, plugin, coalesce, audioQ, hostQ, sent
<1>8. CASE DrainBlock
  BY <1>8 DEF DrainBlock, StopInv, DrainInv, SleepNeverStrands, NoCall, Notify, plugin, coalesce, audioQ, hostQ, sent
<1>9. CASE Dispatch
  BY <1>9 DEF Dispatch, StopInv, DrainInv, SleepNeverStrands, NoCall, Notify, plugin, coalesce, audioQ, hostQ, sent
<1>10. CASE SpuriousWake
  BY <1>10 DEF SpuriousWake, StopInv, DrainInv, SleepNeverStrands, NoCall, Notify, plugin, coalesce, audioQ, hostQ, sent
<1>11. CASE DrainPending
  BY <1>11 DEF DrainPending, StopInv, DrainInv, SleepNeverStrands, NoCall, Notify, plugin, coalesce, audioQ, hostQ, sent
<1>12. CASE SetParamChangedCallback
  BY <1>12 DEF SetParamChangedCallback, StopInv, DrainInv, SleepNeverStrands, NoCall, Notify, plugin, coalesce, audioQ, hostQ, sent
<1>13. CASE SetParam
  BY <1>13 DEF SetParam, StopInv, DrainInv, SleepNeverStrands, NoCall, Notify, plugin, coalesce, audioQ, hostQ, sent
<1>14. CASE SetParamPush
  BY <1>14 DEF SetParamPush, StopInv, DrainInv, SleepNeverStrands, NoCall, Notify, plugin, coalesce, audioQ, hostQ, sent
<1>15. CASE DestroyHandler
  BY <1>15 DEF DestroyHandler, StopInv, DrainInv, SleepNeverStrands, NoCall, Notify, plugin, coalesce, audioQ, hostQ, sent
<1>16. CASE NotifyStop
  BY <1>16 DEF NotifyStop, StopInv, DrainInv, SleepNeverStrands, NoCall, Notify, plugin, coalesce, audioQ, hostQ, sent
<1>17. CASE Join
  BY <1>17 DEF Join, StopInv, DrainInv, SleepNeverStrands, NoCall, Notify, plugin, coalesce, audioQ, hostQ, sent
<1>18. CASE UNCHANGED vars
  BY <1>18 DEF vars, StopInv, DrainInv, SleepNeverStrands, NoCall, Notify, plugin, coalesce, audioQ, hostQ, sent
<1> QED
  BY <1>1, <1>2, <1>3, <1>4, <1>5, <1>6, <1>7, <1>8, <1>9, <1>10, <1>11, <1>12, <1>13, <1>14, <1>15, <1>16, <1>17, <1>18 DEF Next, EditNext, DrainNext

----------------------------------------------------------------------------
(* The newest value, on both ways. *)

\* Nothing that FireInv speaks of changes.
LEMMA SameFires ==
  ASSUME FireInv, UNCHANGED <<queue, fired, evicted, shown, unheard, inFlight>>,
         drain' = "dispatch" <=> drain = "dispatch"
  PROVE  FireInv'
BY DEF FireInv, HandedOver, InFlightIs, Latest, NoneOf

LEMMA NextFire ==
  ASSUME TypeOK, ThreadInv, DrainInv, FireInv, [Next]_vars
  PROVE  FireInv'
<1>1. CASE TurnKnob
  BY <1>1, SameFires DEF TurnKnob, Notify, hostQ, sent
<1>2. CASE Coalesce
  BY <1>2, SameFires DEF Coalesce, Notify, hostQ, sent
<1>3. CASE AudioQueuePush
  BY <1>3, SameFires DEF AudioQueuePush, Notify, hostQ, sent
<1>4. CASE Enqueue
  <2>1. editor.fire \in Fire /\ queue \in Seq(Fire) /\ QueueCap \in Nat \ {0}
    BY <1>4, BridgeAssumption DEF Enqueue, ThreadInv, TypeOK
  <2> SUFFICES ASSUME NEW p \in Param, fired'[p] # None
               PROVE  HandedOver(p)'
    BY DEF FireInv
  <2>2. CASE p = editor.fire.id
    <3>1. fired'[p] = editor.fire.value
      BY <1>4, <2>2 DEF Enqueue, TypeOK
    <3>   QED  BY <1>4, <2>1, <2>2, <3>1, PushedNewest DEF Enqueue, HandedOver
  <2>3. CASE p # editor.fire.id
    <3>1. fired'[p] = fired[p] /\ HandedOver(p)
      BY <1>4, <2>3 DEF Enqueue, TypeOK, FireInv
    <3>2. /\ Latest(queue, p, fired[p]) => Latest(queue', p, fired[p]) \/ p \in evicted'
          /\ NoneOf(queue, p) => NoneOf(queue', p)
          /\ p \in evicted => p \in evicted'
      BY <1>4, <2>1, <2>3, PushedOthers DEF Enqueue
    <3>   QED  BY <1>4, <3>1, <3>2 DEF Enqueue, HandedOver, InFlightIs, sent
  <2>   QED  BY <2>2, <2>3
<1>5. CASE NotifyDrain
  BY <1>5, SameFires DEF NotifyDrain, Notify, hostQ, sent
<1>6. CASE WindowCloses
  BY <1>6, SameFires DEF WindowCloses, Notify, hostQ, sent
<1>7. CASE DrainTest
  <2>1. CASE queue # <<>> /\ queue' = Tail(queue) /\ inFlight' = Head(queue) /\ drain' = "dispatch"
    <3>1. Head(queue) \in Fire
      BY <2>1, HeadTailProperties DEF TypeOK
    <3> SUFFICES ASSUME NEW p \in Param, fired[p] # None, HandedOver(p)
                 PROVE  HandedOver(p)'
      BY <1>7 DEF DrainTest, FireInv
    <3>2. /\ Latest(queue, p, fired[p]) =>
               \/ Latest(queue', p, fired[p])
               \/ Head(queue) = [id |-> p, value |-> fired[p]] /\ NoneOf(queue', p)
          /\ NoneOf(queue, p) => NoneOf(queue', p) /\ Head(queue).id # p
      BY <2>1, TailLatest DEF TypeOK
    <3>   QED  BY <1>7, <2>1, <3>2 DEF DrainTest, HandedOver, InFlightIs
  <2>2. CASE UNCHANGED <<inFlight, queue>> /\ drain' \in {"exited", "falseHeld"}
    BY <1>7, <2>2, SameFires DEF DrainTest
  <2>   QED  BY <1>7, <2>1, <2>2 DEF DrainTest
<1>8. CASE DrainBlock
  BY <1>8, SameFires DEF DrainBlock, Notify, hostQ, sent
<1>9. CASE Dispatch
  <2>1. inFlight.id \in Param
    BY <1>9, FireFields DEF Dispatch, ThreadInv
  <2> SUFFICES ASSUME NEW p \in Param, fired[p] # None, HandedOver(p)
               PROVE  HandedOver(p)'
    BY <1>9 DEF Dispatch, FireInv, hostQ
  <2>2. CASE p = inFlight.id
    <3>1. IF callbackSet THEN shown'[p] = inFlight.value ELSE p \in unheard'
      BY <1>9, <2>2 DEF Dispatch, TypeOK
    <3>   QED  BY <1>9, <2>2, <3>1 DEF Dispatch, HandedOver, InFlightIs, hostQ
  <2>3. CASE p # inFlight.id
    <3>1. shown'[p] = shown[p] /\ (p \in unheard' <=> p \in unheard)
      BY <1>9, <2>3 DEF Dispatch, TypeOK
    <3>   QED  BY <1>9, <2>3, <3>1 DEF Dispatch, HandedOver, InFlightIs, hostQ
  <2>   QED  BY <2>2, <2>3
<1>10. CASE SpuriousWake
  BY <1>10, SameFires DEF SpuriousWake, Notify, hostQ, sent
<1>11. CASE DrainPending
  BY <1>11, SameFires DEF DrainPending, Notify, hostQ, sent
<1>12. CASE SetParamChangedCallback
  BY <1>12, SameFires DEF SetParamChangedCallback, Notify, hostQ, sent
<1>13. CASE SetParam
  BY <1>13, SameFires DEF SetParam, Notify, hostQ, sent
<1>14. CASE SetParamPush
  BY <1>14, SameFires DEF SetParamPush, Notify, hostQ, sent
<1>15. CASE DestroyHandler
  BY <1>15, SameFires DEF DestroyHandler, Notify, hostQ, sent
<1>16. CASE NotifyStop
  BY <1>16, SameFires DEF NotifyStop, Notify, hostQ, sent
<1>17. CASE Join
  BY <1>17, SameFires DEF Join, Notify, hostQ, sent
<1>18. CASE UNCHANGED vars
  BY <1>18, SameFires DEF vars, Notify, hostQ, sent
<1> QED
  BY <1>1, <1>2, <1>3, <1>4, <1>5, <1>6, <1>7, <1>8, <1>9, <1>10, <1>11, <1>12, <1>13, <1>14, <1>15, <1>16, <1>17, <1>18 DEF Next, EditNext, DrainNext

\* Nothing that NewestPushWins speaks of changes.
LEMMA SamePushes ==
  ASSUME NewestPushWins, UNCHANGED <<pending, pushed, lostPush, processor>>
  PROVE  NewestPushWins'
BY DEF NewestPushWins, Latest, NoneOf

LEMMA PushKeepsNewest ==
  ASSUME TypeOK, NewestPushWins, NEW f \in Fire, PushPending(f), processor' = processor
  PROVE  NewestPushWins'
<1>1. pending \in Seq(Fire) /\ PendingCap \in Nat \ {0}
  BY BridgeAssumption DEF TypeOK
<1> SUFFICES ASSUME NEW p \in Param, pushed'[p] # None
             PROVE  \/ Latest(pending', p, pushed'[p])
                    \/ NoneOf(pending', p) /\ processor[p] = pushed'[p]
                    \/ p \in lostPush'
  BY DEF NewestPushWins
<1>2. CASE p = f.id
  BY <1>1, <1>2, PushedNewest DEF PushPending, TypeOK
<1>3. CASE p # f.id
  <2>1. pushed'[p] = pushed[p]
    BY <1>3 DEF PushPending, TypeOK
  <2>2. /\ Latest(pending, p, pushed[p]) => Latest(pending', p, pushed[p]) \/ p \in lostPush'
        /\ NoneOf(pending, p) => NoneOf(pending', p)
        /\ p \in lostPush => p \in lostPush'
    BY <1>1, <1>3, PushedOthers DEF PushPending
  <2>   QED  BY <2>1, <2>2 DEF NewestPushWins
<1> QED  BY <1>2, <1>3

LEMMA NextPush ==
  ASSUME TypeOK, ThreadInv, NewestPushWins, [Next]_vars
  PROVE  NewestPushWins'
<1>1. CASE TurnKnob
  BY <1>1, SamePushes DEF TurnKnob, plugin, audioQ
<1>2. CASE Coalesce
  BY <1>2, SamePushes DEF Coalesce, plugin, audioQ
<1>3. CASE AudioQueuePush
  BY <1>3, PushKeepsNewest DEF AudioQueuePush, ThreadInv, plugin
<1>4. CASE Enqueue
  BY <1>4, SamePushes DEF Enqueue, plugin, audioQ
<1>5. CASE NotifyDrain
  BY <1>5, SamePushes DEF NotifyDrain, plugin, audioQ
<1>6. CASE WindowCloses
  BY <1>6, SamePushes DEF WindowCloses, plugin, audioQ
<1>7. CASE DrainTest
  BY <1>7, SamePushes DEF DrainTest, plugin, audioQ
<1>8. CASE DrainBlock
  BY <1>8, SamePushes DEF DrainBlock, plugin, audioQ
<1>9. CASE Dispatch
  BY <1>9, SamePushes DEF Dispatch, plugin, audioQ
<1>10. CASE SpuriousWake
  BY <1>10, SamePushes DEF SpuriousWake, plugin, audioQ
<1>11. CASE DrainPending
  <2>1. \A p \in Param : NoneOf(pending', p)
    BY <1>11, EmptySeq DEF DrainPending, NoneOf
  <2> SUFFICES ASSUME NEW p \in Param, pushed[p] # None, p \notin lostPush
               PROVE  processor'[p] = pushed[p]
    BY <1>11, <2>1 DEF DrainPending, NewestPushWins
  <2>2. CASE NoneOf(pending, p)
    <3>1. ~Latest(pending, p, pushed[p])
      BY <2>2, LatestUnique DEF TypeOK
    <3>   QED  BY <1>11, <2>2, <3>1 DEF DrainPending, NewestPushWins
  <2>3. CASE ~NoneOf(pending, p)
    BY <1>11, <2>3, LatestUnique DEF DrainPending, NewestPushWins, TypeOK
  <2>   QED  BY <2>2, <2>3
<1>12. CASE SetParamChangedCallback
  BY <1>12, SamePushes DEF SetParamChangedCallback, plugin, audioQ
<1>13. CASE SetParam
  BY <1>13, SamePushes DEF SetParam, plugin, audioQ
<1>14. CASE SetParamPush
  BY <1>14, PushKeepsNewest DEF SetParamPush, ThreadInv, plugin
<1>15. CASE DestroyHandler
  BY <1>15, SamePushes DEF DestroyHandler, plugin, audioQ
<1>16. CASE NotifyStop
  BY <1>16, SamePushes DEF NotifyStop, plugin, audioQ
<1>17. CASE Join
  BY <1>17, SamePushes DEF Join, plugin, audioQ
<1>18. CASE UNCHANGED vars
  BY <1>18, SamePushes DEF vars, plugin, audioQ
<1> QED
  BY <1>1, <1>2, <1>3, <1>4, <1>5, <1>6, <1>7, <1>8, <1>9, <1>10, <1>11, <1>12, <1>13, <1>14, <1>15, <1>16, <1>17, <1>18 DEF Next, EditNext, DrainNext

----------------------------------------------------------------------------
LEMMA Inductive == Spec => []IInv
<1>1. Init => IInv
  <2> SUFFICES ASSUME Init PROVE IInv
    OBVIOUS
  <2>1. \A p \in Param : fired[p] = None /\ pushed[p] = None
    BY DEF Init
  <2>   QED  BY <2>1, InitTypes
             DEF Init, IInv, DrainInv, SleepNeverStrands, FireInv, NewestPushWins
<1>2. IInv /\ [Next]_vars => IInv'
  BY NextTypes, NextDrain, NextFire, NextPush DEF IInv
<1> QED  BY <1>1, <1>2, PTL DEF Spec

\* Type correctness of the bridge; neither queue outgrows its capacity.
THEOREM TypeCorrect == Spec => []TypeOK
<1>1. IInv => TypeOK
  BY DEF IInv
<1> QED  BY <1>1, Inductive, PTL

\* Last write wins on the way to the host, through a queue that drops its
\* oldest entry and a drain thread that holds one outside the lock.
THEOREM NewestFireReachesHost == Spec => []NewestFireWins
<1>1. IInv => NewestFireWins
  <2> SUFFICES ASSUME IInv, NEW p \in Param, fired[p] # None
               PROVE  \/ Latest(queue, p, fired[p])
                      \/ NoneOf(queue, p) /\ inFlight = [id |-> p, value |-> fired[p]]
                      \/ NoneOf(queue, p) /\ shown[p] = fired[p]
                      \/ p \in evicted \cup unheard
    BY DEF NewestFireWins
  <2>1. HandedOver(p)
    BY DEF IInv, FireInv
  <2>2. InFlightIs(p) /\ inFlight.value = fired[p] => inFlight = [id |-> p, value |-> fired[p]]
    BY FireFields DEF IInv, ThreadInv, InFlightIs
  <2>   QED  BY <2>1, <2>2 DEF HandedOver
<1> QED  BY <1>1, Inductive, PTL

\* Last write wins on the way to the processor, whichever thread wrote.
THEOREM NewestPushReachesProcessor == Spec => []NewestPushWins
<1>1. IInv => NewestPushWins
  BY DEF IInv
<1> QED  BY <1>1, Inductive, PTL

\* The drain thread leaves with every queued fire dispatched.
THEOREM NothingLeftAtExit == Spec => []ExitLeavesNothing
<1>1. IInv => ExitLeavesNothing
  BY DEF IInv, DrainInv, ThreadInv, ExitLeavesNothing
<1> QED  BY <1>1, Inductive, PTL

\* The drain thread never sleeps on a fire whose notification was made.
THEOREM NoStrandedFire == Spec => []SleepNeverStrands
<1>1. IInv => SleepNeverStrands
  BY DEF IInv, DrainInv
<1> QED  BY <1>1, Inductive, PTL
============================================================================
