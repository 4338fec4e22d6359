------------------------- MODULE BrokerUdpProofs -------------------------
(***************************************************************************)
(* Proofs about the UDP plane of a tunnel (module BrokerUdp), for any      *)
(* number of sessions, flows and addresses and all limits: the inductive   *)
(* invariant, the steps that send, complete a send and close sessions, the *)
(* steps that begin sessions, authenticate them and pass datagrams on, and *)
(* the theorems.                                                           *)
(***************************************************************************)
EXTENDS BrokerUdp, TLAPS

----------------------------------------------------------------------------
(* Queues *)

\* What is in a queue.
In(q) == {q[k] : k \in DOMAIN q}

\* Sequences with the same items are equal.
LEMMA SameItems ==
    ASSUME NEW T, NEW s \in Seq(T), NEW t \in Seq(T), Len(s) = Len(t),
           \A i \in 1 .. Len(s) : s[i] = t[i]
    PROVE  s = t
OBVIOUS

\* Queueing adds its item, and taking the first of a queue adds nothing.
LEMMA QueueFacts ==
    ASSUME NEW T, NEW q \in Seq(T), NEW x \in T
    PROVE  /\ Append(q, x) \in Seq(T) /\ In(Append(q, x)) = In(q) \cup {x}
           /\ Len(Append(q, x)) = Len(q) + 1
           /\ SubSeq(q, 2, Len(q)) \in Seq(T) /\ In(SubSeq(q, 2, Len(q))) \subseteq In(q)
           /\ Len(SubSeq(q, 2, Len(q))) = IF q = <<>> THEN 0 ELSE Len(q) - 1
<1>1. Append(q, x) \in Seq(T) /\ Len(Append(q, x)) = Len(q) + 1
  OBVIOUS
<1>2. In(Append(q, x)) = In(q) \cup {x}
  <2>1. /\ DOMAIN q = 1 .. Len(q) /\ Len(q) \in Nat /\ DOMAIN Append(q, x) = 1 .. Len(q) + 1
        /\ \A k \in 1 .. Len(q) : Append(q, x)[k] = q[k]
        /\ Append(q, x)[Len(q) + 1] = x
    OBVIOUS
  <2>2. In(Append(q, x)) \subseteq In(q) \cup {x}
    BY <2>1 DEF In
  <2>3. In(q) \cup {x} \subseteq In(Append(q, x))
    BY <2>1 DEF In
  <2> QED  BY <2>2, <2>3
<1>3. /\ SubSeq(q, 2, Len(q)) \in Seq(T)
      /\ Len(SubSeq(q, 2, Len(q))) = IF q = <<>> THEN 0 ELSE Len(q) - 1
  OBVIOUS
<1>4. In(SubSeq(q, 2, Len(q))) \subseteq In(q)
  <2>1. Len(q) \in Nat /\ DOMAIN q = 1 .. Len(q)
    OBVIOUS
  <2>2. ASSUME NEW k \in DOMAIN SubSeq(q, 2, Len(q))
        PROVE  SubSeq(q, 2, Len(q))[k] = q[k + 1] /\ k + 1 \in DOMAIN q
    BY <2>1
  <2> QED  BY <2>2 DEF In
<1> QED  BY <1>1, <1>2, <1>3, <1>4

\* The first of a queue and the rest of it were in the queue.
LEMMA FirstAndRest ==
    ASSUME NEW T, NEW q \in Seq(T), q # <<>>
    PROVE  /\ Head(q) \in T /\ Head(q) \in In(q)
           /\ Tail(q) \in Seq(T) /\ In(Tail(q)) \subseteq In(q)
           /\ Len(Tail(q)) = Len(q) - 1 /\ Len(q) \in Nat \ {0}
           /\ DOMAIN q = 1 .. Len(q) /\ DOMAIN Tail(q) = 1 .. Len(q) - 1
           /\ \A k \in 1 .. Len(q) - 1 : Tail(q)[k] = q[k + 1]
<1>1. /\ Len(q) \in Nat \ {0} /\ DOMAIN q = 1 .. Len(q) /\ Head(q) = q[1] /\ Head(q) \in T
      /\ Tail(q) \in Seq(T) /\ Len(Tail(q)) = Len(q) - 1
      /\ DOMAIN Tail(q) = 1 .. Len(q) - 1
      /\ \A k \in 1 .. Len(q) - 1 : Tail(q)[k] = q[k + 1]
  OBVIOUS
<1>2. Head(q) \in In(q)
  BY <1>1 DEF In
<1>3. \A k \in DOMAIN Tail(q) : Tail(q)[k] = q[k + 1] /\ k + 1 \in DOMAIN q
  BY <1>1
<1>4. In(Tail(q)) \subseteq In(q)
  BY <1>3 DEF In
<1> QED  BY <1>1, <1>2, <1>4

\* What pump_out leaves in the queue and finds in wbio once SSL_write took the
\* first n envelopes, one or none.
Left(q, n) == SubSeq(q, n + 1, Len(q))
Waiting(wb, q, n) == wb \o SubSeq(q, 1, n)

\* All of it waited in wbio or in the queue.
LEMMA WaitingFacts ==
    ASSUME NEW T, NEW wb \in Seq(T), NEW q \in Seq(T), NEW n \in {0, 1}, n = 1 => q # <<>>
    PROVE  /\ Waiting(wb, q, n) \in Seq(T) /\ Left(q, n) \in Seq(T)
           /\ In(Waiting(wb, q, n)) \subseteq In(wb) \cup In(q)
           /\ In(Left(q, n)) \subseteq In(q) /\ Len(Left(q, n)) <= Len(q)
<1>1. CASE n = 0
  <2>1. Waiting(wb, q, n) = wb
    <3>1. SubSeq(q, 1, 0) = <<>>
      OBVIOUS
    <3>2. wb \o <<>> = wb
      OBVIOUS
    <3> QED  BY <1>1, <3>1, <3>2 DEF Waiting
  <2>2. Left(q, n) = q
    <3>1. SubSeq(q, 1, Len(q)) = q
      OBVIOUS
    <3> QED  BY <1>1, <3>1 DEF Left
  <2>3. Len(q) <= Len(q)
    OBVIOUS
  <2> QED  BY <2>1, <2>2, <2>3
<1>2. CASE n = 1
  <2>0. q # <<>>
    BY <1>2
  <2>1. Len(q) \in Nat \ {0} /\ DOMAIN q = 1 .. Len(q) /\ q[1] \in T /\ q[1] \in In(q)
    BY <2>0 DEF In
  <2>2. Waiting(wb, q, n) = Append(wb, q[1])
    <3>1. SubSeq(q, 1, 1) = <<q[1]>>
      <4>1. SubSeq(q, 1, 1) \in Seq(T) /\ Len(SubSeq(q, 1, 1)) = 1 /\ SubSeq(q, 1, 1)[1] = q[1]
        BY <2>1
      <4>2. <<q[1]>> \in Seq(T) /\ Len(<<q[1]>>) = 1 /\ <<q[1]>>[1] = q[1]
        BY <2>1
      <4>3. \A k \in 1 .. 1 : SubSeq(q, 1, 1)[k] = <<q[1]>>[k]
        BY <4>1, <4>2
      <4> QED  BY ONLY <4>1, <4>2, <4>3, SameItems, Zenon
    <3>2. wb \o <<q[1]>> = Append(wb, q[1])
      BY <2>1
    <3> QED  BY <1>2, <3>1, <3>2 DEF Waiting
  <2>3. Append(wb, q[1]) \in Seq(T) /\ In(Append(wb, q[1])) = In(wb) \cup {q[1]}
    BY <2>1, QueueFacts, SMTT(30)
  <2>4. /\ SubSeq(q, 2, Len(q)) \in Seq(T) /\ In(SubSeq(q, 2, Len(q))) \subseteq In(q)
        /\ Len(SubSeq(q, 2, Len(q))) = Len(q) - 1
    BY <2>0, <2>1, QueueFacts, SMTT(30)
  <2>5. Left(q, n) = SubSeq(q, 2, Len(q))
    BY <1>2 DEF Left
  <2>6. Len(q) - 1 <= Len(q)
    BY <2>1
  <2> QED  BY <2>1, <2>2, <2>3, <2>4, <2>5, <2>6
<1> QED  BY <1>1, <1>2

----------------------------------------------------------------------------
(* What holds of a world, whatever call it is in the middle of.  o and n stand
   for owner and next, which a call may be about to change. *)

SessionType == Sessions \cup {FreeSession}
SendType == [slot : {0} \cup Slots, dst : Addrs, item : Items]
Worlds == [sess : [Slots -> SessionType], sends : Seq(SendType), raw : Nat]

\* An item may go to dst.
Fits(x, dst, o, n) ==
    /\ x \in Items
    /\ x.k = "rep" => x.own = <<dst, x.id>>
    /\ x.k = "req" => x.own = o[x.id] /\ x.id < n

SessionOK(s, o, n) ==
    s.st # "free" =>
        /\ Len(s.q) <= QueueMax
        /\ \A x \in In(s.q) \cup In(s.wb) : Fits(x, s.peer, o, n)
        /\ s.st = "closing" => s.timer # "armed" /\ (s.timer = "closing" \/ s.inflight)

\* A session waits for a send to dst.
Holds(s, dst) == s.st # "free" /\ s.inflight /\ s.peer = dst

Linked(se, sn) ==
    \A k \in DOMAIN sn : sn[k].slot # 0 =>
        /\ Holds(se[sn[k].slot], sn[k].dst)
        /\ \A l \in DOMAIN sn : sn[l].slot = sn[k].slot => l = k

WorldOK(w, o, n) ==
    /\ w \in Worlds
    /\ \A i \in Slots : SessionOK(w.sess[i], o, n)
    /\ \A k \in DOMAIN w.sends : Fits(w.sends[k].item, w.sends[k].dst, o, n)
    /\ w.raw = Len(w.sends) /\ w.raw <= QueueMax
    /\ Linked(w.sess, w.sends)

\* A send of session i is in flight.
HasSend(sn, i) == \E k \in DOMAIN sn : sn[k].slot = i

\* pump_out left nothing behind in the queues of a session, but for SSL_write's
\* wanting to read.
Calm(s) ==
    s.st = "live" => (s.q # <<>> => s.inflight \/ s.want) /\ (s.wb # <<>> => s.inflight)

\* The send that session i is marked for is in flight, or was dropped.
Backed(w, i) ==
    w.sess[i].st # "free" /\ w.sess[i].inflight => w.sess[i].dropped \/ HasSend(w.sends, i)

Settled(w, i) == Calm(w.sess[i]) /\ Backed(w, i)

\* The fields of a session that the tables are about; sending leaves them alone.
Same(s, t) ==
    /\ s.st = t.st
    /\ s.st # "free" => s.peer = t.peer /\ s.role = t.role /\ s.timer = t.timer

\* A world is v but for session i, of which sending changed its queues; the
\* sends of the others are still in flight.
Moved(w, v, i) ==
    /\ \A j \in Slots \ {i} : v.sess[j] = w.sess[j] /\ (HasSend(w.sends, j) => HasSend(v.sends, j))
    /\ Same(v.sess[i], w.sess[i])

\* Only a session's memory is free, and 0 is none.
LEMMA SlotFacts ==
    /\ 0 \notin Slots
    /\ \A s \in SessionType : s.st # "free" <=> s \in Sessions
  BY BrokerUdpAssumption DEF SessionType, Sessions, FreeSession

\* The session of a send is a session.
LEMMA SendFacts ==
    ASSUME NEW sn \in Seq(SendType), NEW k \in DOMAIN sn
    PROVE  sn[k] \in SendType /\ sn[k].slot \in {0} \cup Slots
<1>1. sn[k] \in SendType
  OBVIOUS
<1> QED  BY <1>1 DEF SendType

\* A world stays sound when one session becomes another sound one that waits
\* for the send the first one waited for.
LEMMA SessionChanged ==
    ASSUME NEW o, NEW n, NEW w, WorldOK(w, o, n), NEW i \in Slots, NEW t \in SessionType,
           SessionOK(t, o, n), \A k \in DOMAIN w.sends :
               w.sends[k].slot = i /\ Holds(w.sess[i], w.sends[k].dst) => Holds(t, w.sends[k].dst),
           NEW v \in Worlds, v.sess = [w.sess EXCEPT ![i] = t], v.sends = w.sends, v.raw = w.raw
    PROVE  WorldOK(v, o, n) /\ v.sess[i] = t
<1>1. /\ w.sess \in [Slots -> SessionType] /\ w.sends \in Seq(SendType)
      /\ \A j \in Slots : v.sess[j] = IF j = i THEN t ELSE w.sess[j]
  BY DEF WorldOK, Worlds
<1>2. \A j \in Slots : SessionOK(v.sess[j], o, n)
  BY <1>1 DEF WorldOK
<1>3. Linked(v.sess, v.sends)
  <2> SUFFICES ASSUME NEW k \in DOMAIN w.sends, w.sends[k].slot # 0
               PROVE  /\ Holds(v.sess[w.sends[k].slot], w.sends[k].dst)
                      /\ \A l \in DOMAIN w.sends : w.sends[l].slot = w.sends[k].slot => l = k
    BY DEF Linked
  <2>0. w.sends[k] \in SendType
    BY <1>1
  <2>1. w.sends[k].slot \in Slots
    BY <2>0 DEF SendType
  <2>2. /\ Holds(w.sess[w.sends[k].slot], w.sends[k].dst)
        /\ \A l \in DOMAIN w.sends : w.sends[l].slot = w.sends[k].slot => l = k
    BY DEF WorldOK, Linked
  <2> QED  BY <1>1, <2>1, <2>2
<1> QED  BY <1>1, <1>2, <1>3 DEF WorldOK

\* A world stays sound when a send is added, below the cap, for no session or
\* for one that waits for it and for no other.
LEMMA SendAdded ==
    ASSUME NEW o, NEW n, NEW w, WorldOK(w, o, n), w.raw < QueueMax, NEW d \in SendType,
           Fits(d.item, d.dst, o, n),
           d.slot # 0 => /\ Holds(w.sess[d.slot], d.dst)
                         /\ \A k \in DOMAIN w.sends : w.sends[k].slot # d.slot,
           NEW v \in Worlds, v.sess = w.sess, v.sends = Append(w.sends, d), v.raw = w.raw + 1
    PROVE  WorldOK(v, o, n)
<1>1. /\ w.sends \in Seq(SendType) /\ Len(w.sends) \in Nat /\ w.raw = Len(w.sends)
      /\ DOMAIN w.sends = 1 .. Len(w.sends) /\ DOMAIN v.sends = 1 .. Len(w.sends) + 1
      /\ \A k \in DOMAIN w.sends : v.sends[k] = w.sends[k]
      /\ v.sends[Len(w.sends) + 1] = d /\ Len(v.sends) = Len(w.sends) + 1
  BY DEF WorldOK, Worlds
<1>2. \A k \in DOMAIN v.sends : k \in DOMAIN w.sends \/ k = Len(w.sends) + 1
  BY <1>1
<1>3. \A k \in DOMAIN v.sends : Fits(v.sends[k].item, v.sends[k].dst, o, n)
  BY <1>1, <1>2 DEF WorldOK
<1>4. Linked(v.sess, v.sends)
  BY <1>1, <1>2 DEF WorldOK, Linked
<1>5. v.raw = Len(v.sends) /\ v.raw <= QueueMax
  BY <1>1, BrokerUdpAssumption
<1>6. \A i \in Slots : SessionOK(v.sess[i], o, n)
  BY DEF WorldOK
<1> QED  BY <1>3, <1>4, <1>5, <1>6 DEF WorldOK

----------------------------------------------------------------------------
(* Sending *)

\* The worlds that differ in their sends, or in their sessions.
WithSends(w, sn, r) == [w EXCEPT !.sends = sn, !.raw = r]
WithSess(w, se) == [w EXCEPT !.sess = se]

\* Their fields.
LEMMA WithSendsFields ==
    ASSUME NEW w \in Worlds, NEW sn \in Seq(SendType), NEW r \in Nat
    PROVE  /\ WithSends(w, sn, r) \in Worlds /\ WithSends(w, sn, r).sess = w.sess
           /\ WithSends(w, sn, r).sends = sn /\ WithSends(w, sn, r).raw = r
  BY Zenon DEF Worlds, WithSends

\* Likewise.
LEMMA WithSessFields ==
    ASSUME NEW w \in Worlds, NEW se \in [Slots -> SessionType]
    PROVE  /\ WithSess(w, se) \in Worlds /\ WithSess(w, se).sess = se
           /\ WithSess(w, se).sends = w.sends /\ WithSess(w, se).raw = w.raw
  BY DEF Worlds, WithSess

At(w, i, t) == [w EXCEPT !.sess[i] = t]

\* It is the world with other sessions.
LEMMA SessAt ==
    ASSUME NEW u, NEW i, NEW t
    PROVE  At(u, i, t) = WithSess(u, [u.sess EXCEPT ![i] = t])
  BY Zenon DEF At, WithSess

\* The fields of the world with another session in its slot.
LEMMA AtFields ==
    ASSUME NEW w \in Worlds, NEW i \in Slots, NEW t \in SessionType
    PROVE  /\ At(w, i, t) \in Worlds /\ At(w, i, t).sess = [w.sess EXCEPT ![i] = t]
           /\ At(w, i, t).sends = w.sends /\ At(w, i, t).raw = w.raw
  BY DEF At, Worlds

\* It is sound if the session is, and waits as the one before it did.
LEMMA AtOK ==
    ASSUME NEW o, NEW n, NEW w, WorldOK(w, o, n), NEW i \in Slots, NEW t \in SessionType,
           SessionOK(t, o, n), \A k \in DOMAIN w.sends :
               w.sends[k].slot = i /\ Holds(w.sess[i], w.sends[k].dst) => Holds(t, w.sends[k].dst)
    PROVE  WorldOK(At(w, i, t), o, n)
<1>1. w \in Worlds
  BY DEF WorldOK
<1>2. /\ At(w, i, t) \in Worlds /\ At(w, i, t).sess = [w.sess EXCEPT ![i] = t]
      /\ At(w, i, t).sends = w.sends /\ At(w, i, t).raw = w.raw
  BY <1>1, AtFields
<1>3. PICK v \in Worlds : v = At(w, i, t)
  BY <1>2
<1>4. WorldOK(v, o, n)
  BY <1>2, <1>3, SessionChanged
<1> QED  BY <1>3, <1>4

\* udp_send_raw drops the datagram or adds a send, and touches no session.
LEMMA SentRaw ==
    ASSUME NEW w \in Worlds, NEW i \in {0} \cup Slots, NEW dst \in Addrs, NEW x \in Items,
           NEW v \in udp_send_raw(w, i, dst, x)
    PROVE  /\ v \in Worlds /\ v.sess = w.sess
           /\ \/ v = w
              \/ /\ w.raw < QueueMax /\ v.raw = w.raw + 1
                 /\ v.sends = Append(w.sends, [slot |-> i, dst |-> dst, item |-> x])
<1>0. PICK d \in SendType : d = [slot |-> i, dst |-> dst, item |-> x]
  BY Zenon DEF SendType
<1>1. PICK sn \in Seq(SendType), r \in Nat : sn = Append(w.sends, d) /\ r = w.raw + 1
  <2>1. w.sends \in Seq(SendType) /\ w.raw + 1 \in Nat
    BY DEF Worlds
  <2>2. Append(w.sends, d) \in Seq(SendType)
    BY ONLY <2>1
  <2> QED  BY <2>1, <2>2, Zenon
<1>2. v = w \/ (w.raw < QueueMax /\ v = WithSends(w, sn, r))
  BY <1>0, <1>1, BrokerUdpAssumption DEF udp_send_raw, Worlds, WithSends
<1>3. /\ WithSends(w, sn, r) \in Worlds /\ WithSends(w, sn, r).sess = w.sess
      /\ WithSends(w, sn, r).sends = sn /\ WithSends(w, sn, r).raw = r
  BY WithSendsFields
<1> QED  BY <1>0, <1>1, <1>2, <1>3

\* One send more.
LEMMA SendMore ==
    ASSUME NEW sn \in Seq(SendType), NEW d \in SendType, NEW j
    PROVE  /\ HasSend(sn, j) => HasSend(Append(sn, d), j)
           /\ HasSend(Append(sn, d), d.slot)
<1>1. /\ Len(sn) \in Nat /\ DOMAIN sn = 1 .. Len(sn) /\ DOMAIN Append(sn, d) = 1 .. Len(sn) + 1
      /\ \A k \in 1 .. Len(sn) : Append(sn, d)[k] = sn[k]
      /\ Append(sn, d)[Len(sn) + 1] = d
  OBVIOUS
<1>2. \A k \in DOMAIN sn : k \in DOMAIN Append(sn, d) /\ Append(sn, d)[k] = sn[k]
  BY <1>1
<1>3. Len(sn) + 1 \in DOMAIN Append(sn, d)
  BY <1>1
<1>4. HasSend(sn, j) => HasSend(Append(sn, d), j)
  BY ONLY <1>2, Zenon DEF HasSend
<1>5. HasSend(Append(sn, d), d.slot)
  BY ONLY <1>1, <1>3, Zenon DEF HasSend
<1> QED  BY <1>4, <1>5

\* The fields of a session whose first envelopes SSL_write took.
LEMMA EncryptFields ==
    ASSUME NEW s \in Sessions, NEW n \in Written(s)
    PROVE  /\ Encrypt(s, n) \in Sessions /\ Same(Encrypt(s, n), s)
           /\ Encrypt(s, n).inflight = s.inflight
           /\ Encrypt(s, n).q = Left(s.q, n) /\ Encrypt(s, n).wb = Waiting(s.wb, s.q, n)
           /\ n \in {0, 1} /\ (n = 1 => s.q # <<>>)
<1>1. s.q \in Seq(Items) /\ s.wb \in Seq(Items)
  BY DEF Sessions
<1>2. n \in {0, 1} /\ (n = 1 => s.q # <<>>)
  BY DEF Written
<1>3. PICK q, wb : q \in Seq(Items) /\ wb \in Seq(Items) /\ q = Left(s.q, n) /\ wb = Waiting(s.wb, s.q, n)
  BY <1>1, <1>2, WaitingFacts
<1>4. Encrypt(s, n) = [s EXCEPT !.q = q, !.wb = wb]
  BY <1>3, Zenon DEF Encrypt, Left, Waiting
<1>5. PICK e : e = [s EXCEPT !.q = q, !.wb = wb]
  BY Zenon
<1>6. /\ e \in Sessions /\ Same(e, s) /\ e.inflight = s.inflight /\ e.q = q /\ e.wb = wb
  BY <1>3, <1>5, Zenon DEF Sessions, Same
<1> QED  BY ONLY <1>2, <1>3, <1>4, <1>5, <1>6, Zenon

\* It is sound.
LEMMA EncryptOK ==
    ASSUME NEW o, NEW n, NEW s \in Sessions, SessionOK(s, o, n), NEW k \in Written(s)
    PROVE  SessionOK(Encrypt(s, k), o, n)
<1>1. s.q \in Seq(Items) /\ s.wb \in Seq(Items) /\ s.st # "free"
  BY DEF Sessions
<1>2. PICK e : e = Encrypt(s, k)
  OBVIOUS
<1>3. /\ e \in Sessions /\ Same(e, s) /\ e.inflight = s.inflight
      /\ e.q = Left(s.q, k) /\ e.wb = Waiting(s.wb, s.q, k) /\ k \in {0, 1} /\ (k = 1 => s.q # <<>>)
  BY <1>2, EncryptFields, Zenon
<1>4. /\ In(e.wb) \subseteq In(s.wb) \cup In(s.q) /\ In(e.q) \subseteq In(s.q) /\ Len(e.q) <= Len(s.q)
      /\ e.q \in Seq(Items)
  <2>1. /\ Left(s.q, k) \in Seq(Items)
        /\ In(Waiting(s.wb, s.q, k)) \subseteq In(s.wb) \cup In(s.q)
        /\ In(Left(s.q, k)) \subseteq In(s.q) /\ Len(Left(s.q, k)) <= Len(s.q)
    BY ONLY <1>1, <1>3, WaitingFacts, Zenon
  <2> QED  BY ONLY <1>3, <2>1, Zenon
<1>5. Len(e.q) <= QueueMax
  <2>1. Len(s.q) <= QueueMax /\ QueueMax \in Nat
    BY <1>1, BrokerUdpAssumption DEF SessionOK
  <2>2. Len(s.q) \in Nat /\ Len(e.q) \in Nat
    BY ONLY <1>1, <1>4
  <2> QED  BY ONLY <1>4, <2>1, <2>2
<1>6. /\ \A x \in In(s.q) \cup In(s.wb) : Fits(x, s.peer, o, n)
      /\ s.st = "closing" => s.timer # "armed" /\ (s.timer = "closing" \/ s.inflight)
  BY <1>1, Zenon DEF SessionOK
<1>7. e.st = s.st /\ e.peer = s.peer /\ e.timer = s.timer
  BY <1>1, <1>3, Zenon DEF Same
<1>8. \A x \in In(e.q) \cup In(e.wb) : Fits(x, e.peer, o, n)
  BY ONLY <1>4, <1>6, <1>7, Zenon
<1> QED  BY ONLY <1>2, <1>3, <1>5, <1>6, <1>7, <1>8, Zenon DEF SessionOK

\* What pump_out makes of a session that has nothing to send, or something, which
\* was dropped (d) or not.
Rested(e) == [e EXCEPT !.want = e.q # <<>>]
Pumped(e, d) == [e EXCEPT !.wb = Tail(e.wb), !.inflight = TRUE, !.want = FALSE, !.dropped = d]

\* A session that has nothing to send stays sound.
LEMMA RestedFields ==
    ASSUME NEW o, NEW n, NEW e \in Sessions, SessionOK(e, o, n), e.wb = <<>>, ~e.inflight
    PROVE  /\ Rested(e) \in Sessions /\ Rested(e).inflight = FALSE /\ Same(Rested(e), e)
           /\ SessionOK(Rested(e), o, n) /\ Calm(Rested(e))
<1>1. PICK b \in BOOLEAN : b = (e.q # <<>>)
  BY Zenon
<1>2. PICK t : t = [e EXCEPT !.want = b]
  BY Zenon
<1>3. Rested(e) = t
  BY ONLY <1>1, <1>2, Zenon DEF Rested
<1>4. /\ t \in Sessions /\ t.inflight = e.inflight /\ Same(t, e) /\ t.q = e.q /\ t.wb = e.wb
      /\ t.want = b
  BY <1>2, Zenon DEF Sessions, Same
<1>5. e.inflight = FALSE /\ e.st # "free"
  BY DEF Sessions
<1>6. SessionOK(t, o, n)
  BY ONLY <1>4, <1>5, SessionOK(e, o, n), Zenon DEF SessionOK, Same
<1>7. Calm(t)
  BY ONLY <1>1, <1>4, e.wb = <<>>, Zenon DEF Calm
<1> QED  BY ONLY <1>3, <1>4, <1>5, <1>6, <1>7, Zenon

\* So does one that has, and what is sent was waiting.
LEMMA PumpedFields ==
    ASSUME NEW o, NEW n, NEW e \in Sessions, SessionOK(e, o, n), e.wb # <<>>, NEW d \in BOOLEAN
    PROVE  /\ Pumped(e, d) \in Sessions /\ Pumped(e, d).inflight = TRUE /\ Same(Pumped(e, d), e)
           /\ Pumped(e, d).dropped = d /\ SessionOK(Pumped(e, d), o, n) /\ Calm(Pumped(e, d))
           /\ Head(e.wb) \in Items /\ Fits(Head(e.wb), e.peer, o, n)
<1>1. e.q \in Seq(Items) /\ e.wb \in Seq(Items) /\ e.st # "free"
  BY DEF Sessions
<1>2. /\ Head(e.wb) \in Items /\ Head(e.wb) \in In(e.wb)
      /\ Tail(e.wb) \in Seq(Items) /\ In(Tail(e.wb)) \subseteq In(e.wb)
  BY <1>1, FirstAndRest
<1>3. PICK t : t = Pumped(e, d)
  OBVIOUS
<1>4. /\ t \in Sessions /\ t.inflight = TRUE /\ Same(t, e) /\ t.q = e.q /\ t.wb = Tail(e.wb)
      /\ t.dropped = d
  BY <1>2, <1>3, Zenon DEF Pumped, Sessions, Same
<1>5. t.st = e.st /\ t.peer = e.peer /\ t.timer = e.timer
  BY <1>1, <1>4, Zenon DEF Same
<1>6. /\ \A x \in In(e.q) \cup In(e.wb) : Fits(x, e.peer, o, n)
      /\ Len(e.q) <= QueueMax /\ (e.st = "closing" => e.timer # "armed")
  BY <1>1, Zenon DEF SessionOK
<1>7. \A x \in In(t.q) \cup In(t.wb) : Fits(x, t.peer, o, n)
  BY ONLY <1>2, <1>4, <1>5, <1>6, Zenon
<1>8. SessionOK(t, o, n) /\ Calm(t)
  BY ONLY <1>4, <1>5, <1>6, <1>7, Zenon DEF SessionOK, Calm
<1> QED  BY ONLY <1>2, <1>3, <1>4, <1>6, <1>8, Zenon

\* Sending, or not sending, from session i, which becomes e once SSL_write is
\* done, keeps the world sound and leaves the session settled.
LEMMA Emitted ==
    ASSUME NEW o, NEW n, NEW w, WorldOK(w, o, n), NEW i \in Slots, w.sess[i].st = "live",
           ~w.sess[i].inflight, NEW e \in Sessions, Same(e, w.sess[i]), ~e.inflight,
           SessionOK(e, o, n), NEW v \in Emit(w, i, e)
    PROVE  WorldOK(v, o, n) /\ Moved(w, v, i) /\ Settled(v, i)
<1>1. /\ w \in Worlds /\ w.sess \in [Slots -> SessionType] /\ w.sends \in Seq(SendType)
      /\ e.st = "live" /\ e.peer = w.sess[i].peer /\ e.peer \in Addrs
  BY DEF WorldOK, Worlds, Same, Sessions
<1>2. \A k \in DOMAIN w.sends : w.sends[k].slot # i
  BY SlotFacts, Zenon DEF WorldOK, Linked, Holds
<1>3. ASSUME NEW t \in Sessions, SessionOK(t, o, n), Same(t, e), NEW z, z = At(w, i, t)
      PROVE  /\ WorldOK(z, o, n) /\ z \in Worlds /\ z.sess = [w.sess EXCEPT ![i] = t]
             /\ z.sends = w.sends /\ z.raw = w.raw /\ z.sess[i] = t /\ Moved(w, z, i)
  <2>1. /\ t \in SessionType
        /\ \A k \in DOMAIN w.sends :
               w.sends[k].slot = i /\ Holds(w.sess[i], w.sends[k].dst) => Holds(t, w.sends[k].dst)
    BY <1>2, Zenon DEF SessionType
  <2>2. WorldOK(z, o, n)
    BY ONLY WorldOK(w, o, n), i \in Slots, <1>3, <2>1, AtOK, Zenon
  <2>3. /\ z \in Worlds /\ z.sess = [w.sess EXCEPT ![i] = t] /\ z.sends = w.sends /\ z.raw = w.raw
    BY ONLY <1>1, <1>3, <2>1, i \in Slots, AtFields, Zenon
  <2>4. z.sess[i] = t /\ \A j \in Slots \ {i} : z.sess[j] = w.sess[j]
    BY ONLY <1>1, <2>1, <2>3, i \in Slots
  <2>5. Same(t, w.sess[i])
    BY ONLY <1>3, Same(e, w.sess[i]), Zenon DEF Same
  <2> QED  BY ONLY <2>2, <2>3, <2>4, <2>5, Zenon DEF Moved
<1>4. CASE e.wb = <<>>
  <2>1. PICK t \in Sessions : /\ t = Rested(e) /\ t.inflight = FALSE /\ Same(t, e)
                              /\ SessionOK(t, o, n) /\ Calm(t)
    BY <1>4, RestedFields, Zenon
  <2>2. v = At(w, i, t)
    BY ONLY <1>4, <2>1, v \in Emit(w, i, e), Zenon DEF Emit, At, Rested
  <2>3. WorldOK(v, o, n) /\ v.sess[i] = t /\ Moved(w, v, i)
    BY ONLY <1>3, <2>1, <2>2, Zenon
  <2> QED  BY ONLY <2>1, <2>3, Zenon DEF Settled, Backed
<1>5. CASE e.wb # <<>>
  <2>1. PICK u \in udp_send_raw(w, i, e.peer, Head(e.wb)) : v = At(u, i, Pumped(e, u.sends = w.sends))
    BY ONLY <1>5, v \in Emit(w, i, e), Zenon DEF Emit, At, Pumped
  <2>2. PICK d \in BOOLEAN : d = (u.sends = w.sends)
    BY Zenon
  <2>3. PICK t \in Sessions : /\ t = Pumped(e, d) /\ t.inflight = TRUE /\ Same(t, e) /\ t.dropped = d
                              /\ SessionOK(t, o, n) /\ Calm(t)
    BY <1>5, PumpedFields, Zenon
  <2>4. Head(e.wb) \in Items /\ Fits(Head(e.wb), e.peer, o, n)
    <3>1. PICK c \in BOOLEAN : c = TRUE
      BY Zenon
    <3> QED  BY ONLY <1>5, <3>1, e \in Sessions, SessionOK(e, o, n), PumpedFields, Zenon
  <2>5. v = At(u, i, t)
    BY ONLY <2>1, <2>2, <2>3, Zenon
  <2>6. /\ u \in Worlds /\ u.sess = w.sess
        /\ \/ u = w
           \/ /\ w.raw < QueueMax /\ u.raw = w.raw + 1
              /\ u.sends = Append(w.sends, [slot |-> i, dst |-> e.peer, item |-> Head(e.wb)])
    <3>1. PICK c \in {0} \cup Slots, a \in Addrs, x \in Items : c = i /\ a = e.peer /\ x = Head(e.wb)
      BY <1>1, <2>4, Zenon
    <3>2. w \in Worlds /\ u \in udp_send_raw(w, c, a, x)
      BY ONLY <1>1, <2>1, <3>1, Zenon
    <3>3. /\ u \in Worlds /\ u.sess = w.sess
          /\ \/ u = w
             \/ /\ w.raw < QueueMax /\ u.raw = w.raw + 1
                /\ u.sends = Append(w.sends, [slot |-> c, dst |-> a, item |-> x])
      BY ONLY c \in {0} \cup Slots, a \in Addrs, x \in Items, <3>2, SentRaw, Zenon
    <3> QED  BY ONLY <3>1, <3>3, Zenon
  <2>7. PICK z : z = At(w, i, t)
    OBVIOUS
  <2>8. /\ WorldOK(z, o, n) /\ z \in Worlds /\ z.sess = [w.sess EXCEPT ![i] = t]
        /\ z.sends = w.sends /\ z.raw = w.raw /\ z.sess[i] = t /\ Moved(w, z, i)
    BY ONLY <1>3, <2>3, <2>7, Zenon
  <2>9. CASE u = w
    <3>1. v = z /\ d = TRUE
      BY ONLY <2>2, <2>5, <2>7, <2>9, Zenon
    <3> QED  BY ONLY <2>3, <2>8, <3>1, Zenon DEF Settled, Backed
  <2>10. CASE /\ w.raw < QueueMax /\ u.raw = w.raw + 1
              /\ u.sends = Append(w.sends, [slot |-> i, dst |-> e.peer, item |-> Head(e.wb)])
    <3>1. PICK x \in SendType : /\ x = [slot |-> i, dst |-> e.peer, item |-> Head(e.wb)]
                                /\ x.slot = i /\ x.dst = e.peer /\ x.item = Head(e.wb)
      <4>1. [slot |-> i, dst |-> e.peer, item |-> Head(e.wb)] \in SendType
        BY <1>1, <2>4, Zenon DEF SendType
      <4> QED  BY <4>1, Zenon
    <3>2. v \in Worlds /\ v.sess = z.sess /\ v.sends = Append(z.sends, x) /\ v.raw = z.raw + 1
      <4>1. t \in SessionType
        BY Zenon DEF SessionType
      <4>2. v \in Worlds /\ v.sess = [u.sess EXCEPT ![i] = t] /\ v.sends = u.sends /\ v.raw = u.raw
        BY ONLY <2>5, <2>6, <4>1, i \in Slots, AtFields, Zenon
      <4> QED  BY ONLY <2>6, <2>8, <2>10, <3>1, <4>2, Zenon
    <3>3. /\ Holds(z.sess[x.slot], x.dst) /\ Fits(x.item, x.dst, o, n) /\ z.raw < QueueMax
          /\ \A k \in DOMAIN z.sends : z.sends[k].slot # x.slot
      <4>1. t.st # "free" /\ t.inflight /\ t.peer = e.peer
        BY <1>1, <2>3 DEF Same
      <4>2. Holds(z.sess[x.slot], x.dst)
        BY ONLY <2>8, <3>1, <4>1, Zenon DEF Holds
      <4>3. Fits(x.item, x.dst, o, n)
        BY ONLY <2>4, <3>1, Zenon
      <4>4. z.raw < QueueMax /\ \A k \in DOMAIN z.sends : z.sends[k].slot # x.slot
        BY ONLY <1>2, <2>8, <2>10, <3>1, Zenon
      <4> QED  BY ONLY <4>2, <4>3, <4>4, Zenon
    <3>4. WorldOK(v, o, n)
      BY ONLY <2>8, <3>2, <3>3, x \in SendType, SendAdded, Zenon
    <3>5. HasSend(v.sends, i) /\ \A j : HasSend(w.sends, j) => HasSend(v.sends, j)
      <4>1. PICK sn \in Seq(SendType) : sn = w.sends
        BY <1>1, Zenon
      <4>2. HasSend(Append(sn, x), x.slot) /\ \A j : HasSend(sn, j) => HasSend(Append(sn, x), j)
        BY ONLY sn \in Seq(SendType), x \in SendType, SendMore, Zenon
      <4>3. v.sends = Append(sn, x) /\ x.slot = i
        BY ONLY <2>8, <3>1, <3>2, <4>1, Zenon
      <4> QED  BY ONLY <4>1, <4>2, <4>3, Zenon
    <3> QED  BY ONLY <2>3, <2>8, <3>2, <3>4, <3>5, Zenon DEF Settled, Backed, Moved
  <2> QED  BY ONLY <2>6, <2>9, <2>10, Zenon
<1> QED  BY <1>4, <1>5

\* pump_out keeps a world sound, moves nothing but the queues of its session,
\* and leaves nothing behind in them that no completion picks up.
LEMMA PumpOut ==
    ASSUME NEW o, NEW n, NEW w, WorldOK(w, o, n), NEW i \in Slots, Backed(w, i), NEW v \in pump_out(w, i)
    PROVE  WorldOK(v, o, n) /\ Moved(w, v, i) /\ Settled(v, i)
<1>1. w \in Worlds /\ w.sess[i] \in SessionType /\ SessionOK(w.sess[i], o, n)
  BY DEF WorldOK, Worlds
<1>2. CASE v = w /\ (w.sess[i].st # "live" \/ w.sess[i].inflight)
  <2>1. Calm(w.sess[i])
    BY <1>2, Zenon DEF Calm
  <2> QED  BY <1>2, <2>1, Zenon DEF Moved, Same, Settled
<1>3. CASE /\ w.sess[i].st = "live" /\ ~w.sess[i].inflight
           /\ \E k \in Written(w.sess[i]) : v \in Emit(w, i, Encrypt(w.sess[i], k))
  <2>1. PICK s \in Sessions : s = w.sess[i] /\ SessionOK(s, o, n)
    BY <1>1, <1>3, SlotFacts
  <2>2. PICK k \in Written(s) : v \in Emit(w, i, Encrypt(s, k))
    BY <1>3, <2>1, Zenon
  <2>3. PICK e : e = Encrypt(s, k)
    OBVIOUS
  <2>4. /\ e \in Sessions /\ Same(e, s) /\ e.inflight = s.inflight /\ SessionOK(e, o, n)
    <3>1. e \in Sessions /\ Same(e, s) /\ e.inflight = s.inflight
      BY ONLY s \in Sessions, k \in Written(s), <2>3, EncryptFields, Zenon
    <3>2. SessionOK(e, o, n)
      BY ONLY s \in Sessions, k \in Written(s), <2>1, <2>3, EncryptOK, Zenon
    <3> QED  BY <3>1, <3>2
  <2>5. /\ w.sess[i].st = "live" /\ ~w.sess[i].inflight /\ Same(e, w.sess[i]) /\ ~e.inflight
        /\ v \in Emit(w, i, e)
    BY ONLY <1>3, <2>1, <2>2, <2>3, <2>4, Zenon
  <2> QED  BY ONLY WorldOK(w, o, n), i \in Slots, <2>4, <2>5, Emitted, Zenon
<1>4. \/ v = w /\ (w.sess[i].st # "live" \/ w.sess[i].inflight)
      \/ /\ w.sess[i].st = "live" /\ ~w.sess[i].inflight
         /\ \E k \in Written(w.sess[i]) : v \in Emit(w, i, Encrypt(w.sess[i], k))
  BY Zenon DEF pump_out
<1> QED  BY <1>2, <1>3, <1>4, Zenon

----------------------------------------------------------------------------
(* Changing one session *)

\* Moving the queues of a session and moving them again is moving them.
LEMMA MovedTwice ==
    ASSUME NEW w, NEW z, NEW v, NEW i, Moved(w, z, i), Moved(z, v, i)
    PROVE  Moved(w, v, i)
  BY DEF Moved, Same

WithQ(s, q) == [s EXCEPT !.q = q]
WithWb(s, wb) == [s EXCEPT !.wb = wb]

\* The fields of a session with another queue.
LEMMA WithQueueFields ==
    ASSUME NEW s \in Sessions, NEW q \in Seq(Items)
    PROVE  /\ WithQ(s, q) \in Sessions /\ Same(WithQ(s, q), s)
           /\ WithQ(s, q).inflight = s.inflight /\ WithQ(s, q).q = q /\ WithQ(s, q).wb = s.wb
           /\ WithQ(s, q).dropped = s.dropped /\ WithWb(s, q).dropped = s.dropped
           /\ WithWb(s, q) \in Sessions /\ Same(WithWb(s, q), s)
           /\ WithWb(s, q).inflight = s.inflight /\ WithWb(s, q).q = s.q /\ WithWb(s, q).wb = q
  BY Zenon DEF WithQ, WithWb, Sessions, Same

\* A world stays sound when the queues of a session become other sound ones.
LEMMA QueuesChanged ==
    ASSUME NEW o, NEW n, NEW w, WorldOK(w, o, n), NEW i \in Slots, w.sess[i].st # "free",
           NEW t \in Sessions, Same(t, w.sess[i]), t.inflight = w.sess[i].inflight,
           t.dropped = w.sess[i].dropped, Backed(w, i),
           Len(t.q) <= QueueMax, \A x \in In(t.q) \cup In(t.wb) : Fits(x, t.peer, o, n)
    PROVE  /\ WorldOK(At(w, i, t), o, n) /\ Moved(w, At(w, i, t), i) /\ At(w, i, t).sess[i] = t
           /\ Backed(At(w, i, t), i)
<1>1. w \in Worlds /\ t \in SessionType /\ SessionOK(w.sess[i], o, n)
  BY DEF WorldOK, SessionType
<1>2. SessionOK(t, o, n)
  BY <1>1 DEF SessionOK, Same
<1>3. \A d : Holds(w.sess[i], d) => Holds(t, d)
  BY DEF Holds, Same
<1>4. WorldOK(At(w, i, t), o, n)
  BY <1>1, <1>2, <1>3, AtOK
<1>5. Moved(w, At(w, i, t), i) /\ At(w, i, t).sess[i] = t /\ Backed(At(w, i, t), i)
  <2>1. At(w, i, t).sess = [w.sess EXCEPT ![i] = t] /\ At(w, i, t).sends = w.sends
    BY <1>1, AtFields
  <2>2. w.sess \in [Slots -> SessionType]
    BY <1>1 DEF Worlds
  <2>3. PICK v : v = At(w, i, t)
    OBVIOUS
  <2>4. v.sess[i] = t /\ v.sends = w.sends /\ \A j \in Slots \ {i} : v.sess[j] = w.sess[j]
    BY <2>1, <2>2, <2>3
  <2>5. Moved(w, v, i)
    BY <2>4, Zenon DEF Moved
  <2>6. Backed(v, i)
    BY <2>4, Zenon DEF Backed
  <2> QED  BY <2>3, <2>4, <2>5, <2>6, Zenon
<1> QED  BY <1>4, <1>5

\* session_queue, of an item that may go to its session, keeps a world sound,
\* moves nothing but the queues of the session and leaves nothing behind.
LEMMA SessionQueue ==
    ASSUME NEW o, NEW n, NEW w, WorldOK(w, o, n), NEW i \in Slots, Settled(w, i),
           NEW x \in Items, w.sess[i].st = "live" => Fits(x, w.sess[i].peer, o, n),
           NEW v \in session_queue(w, i, x)
    PROVE  WorldOK(v, o, n) /\ Moved(w, v, i) /\ Settled(v, i)
<1> DEFINE s == w.sess[i]
<1>1. CASE v = w
  BY <1>1 DEF Moved, Same
<1>2. CASE /\ s.st = "live" /\ ~(Len(s.q) >= QueueMax)
           /\ v \in pump_out([w EXCEPT !.sess[i].q = Append(@, x)], i)
  <2>1. s \in Sessions /\ SessionOK(s, o, n) /\ w \in Worlds
    <3>1. w \in Worlds /\ s \in SessionType /\ SessionOK(s, o, n)
      BY DEF WorldOK, Worlds
    <3> QED  BY <1>2, <3>1, SlotFacts
  <2>2. s.q \in Seq(Items)
    BY <2>1 DEF Sessions
  <2>3. PICK q \in Seq(Items) : q = Append(s.q, x) /\ In(q) = In(s.q) \cup {x} /\ Len(q) = Len(s.q) + 1
    <3>1. PICK r \in Seq(Items) : r = s.q
      BY <2>2
    <3>2. /\ Append(r, x) \in Seq(Items) /\ In(Append(r, x)) = In(r) \cup {x}
          /\ Len(Append(r, x)) = Len(r) + 1
      BY ONLY r \in Seq(Items), x \in Items, QueueFacts
    <3> QED  BY ONLY <3>1, <3>2, Zenon
  <2>4. PICK t \in Sessions : /\ t = WithQ(s, q) /\ Same(t, s) /\ t.inflight = s.inflight
                              /\ t.q = q /\ t.wb = s.wb /\ t.dropped = s.dropped
    BY <2>1, WithQueueFields
  <2>5. [w EXCEPT !.sess[i].q = Append(@, x)] = At(w, i, t)
    BY <2>1, <2>3, <2>4 DEF At, WithQ, Worlds
  <2>6. Len(t.q) <= QueueMax
    <3>1. PICK r \in Seq(Items) : r = s.q
      BY <2>2
    <3>2. ~(Len(r) >= QueueMax) /\ Len(t.q) = Len(r) + 1 /\ QueueMax \in Nat
      BY ONLY <1>2, <2>3, <2>4, <3>1, BrokerUdpAssumption, Zenon
    <3> QED  BY ONLY <3>2, r \in Seq(Items)
  <2>7. \A y \in In(t.q) \cup In(t.wb) : Fits(y, t.peer, o, n)
    BY <1>2, <2>1, <2>3, <2>4, Zenon DEF SessionOK, Same
  <2>8. WorldOK(At(w, i, t), o, n) /\ Moved(w, At(w, i, t), i) /\ Backed(At(w, i, t), i)
    <3>1. w.sess[i].st # "free" /\ Backed(w, i)
      BY <1>2 DEF Settled
    <3> QED  BY <2>4, <2>6, <2>7, <3>1, QueuesChanged, Zenon
  <2>9. v \in pump_out(At(w, i, t), i)
    BY <1>2, <2>5, Zenon
  <2>10. PICK z : z = At(w, i, t)
    OBVIOUS
  <2>11. WorldOK(v, o, n) /\ Moved(z, v, i) /\ Settled(v, i)
    BY <2>8, <2>9, <2>10, PumpOut
  <2> QED  BY <2>8, <2>10, <2>11, MovedTwice
<1> QED  BY <1>1, <1>2 DEF session_queue

\* A handshake flight may wait in any session.
LEMMA FlightWaits ==
    ASSUME NEW o, NEW n, NEW w, WorldOK(w, o, n), NEW i \in Slots, w.sess[i].st = "live",
           Backed(w, i), NEW f
    PROVE  /\ WorldOK(WithFlight(w, i, f), o, n) /\ Moved(w, WithFlight(w, i, f), i)
           /\ Backed(WithFlight(w, i, f), i)
<1> DEFINE s == w.sess[i]
<1>1. s \in Sessions /\ SessionOK(s, o, n) /\ w \in Worlds
  <2>1. w \in Worlds /\ s \in SessionType /\ SessionOK(s, o, n)
    BY DEF WorldOK, Worlds
  <2> QED  BY <2>1, SlotFacts
<1>2. s.wb \in Seq(Items) /\ s.q \in Seq(Items)
  BY <1>1 DEF Sessions
<1>3. Flight \in Items /\ Flight.k = "hs"
  BY DEF Flight, Item, Items
<1>4. PICK wb \in Seq(Items) : /\ wb = IF f = 1 /\ s.wb = <<>> THEN <<Flight>> ELSE s.wb
                               /\ In(wb) \subseteq In(s.wb) \cup {Flight}
  <2>1. <<Flight>> \in Seq(Items) /\ In(<<Flight>>) \subseteq {Flight}
    BY <1>3 DEF In
  <2> QED  BY <1>2, <2>1, Zenon
<1>5. PICK t \in Sessions : /\ t = WithWb(s, wb) /\ Same(t, s) /\ t.inflight = s.inflight
                            /\ t.q = s.q /\ t.wb = wb /\ t.dropped = s.dropped
  BY <1>1, WithQueueFields
<1>6. WithFlight(w, i, f) = At(w, i, t)
  BY <1>1, <1>4, <1>5 DEF At, WithWb, Worlds, WithFlight
<1>7. \A d : Fits(Flight, d, o, n)
  BY <1>3 DEF Fits
<1>8. Len(t.q) <= QueueMax /\ \A y \in In(t.q) \cup In(t.wb) : Fits(y, t.peer, o, n)
  <2>1. s.st # "free" /\ t.peer = s.peer
    BY <1>5 DEF Same
  <2>2. Len(s.q) <= QueueMax /\ \A y \in In(s.q) \cup In(s.wb) : Fits(y, s.peer, o, n)
    BY <1>1, <2>1 DEF SessionOK
  <2>3. In(t.q) \cup In(t.wb) \subseteq In(s.q) \cup In(s.wb) \cup {Flight} /\ t.q = s.q
    BY ONLY <1>4, <1>5, Zenon
  <2> QED  BY ONLY <1>7, <2>1, <2>2, <2>3, Zenon
<1>9. WorldOK(At(w, i, t), o, n) /\ Moved(w, At(w, i, t), i) /\ Backed(At(w, i, t), i)
  <2>1. /\ WorldOK(w, o, n) /\ i \in Slots /\ w.sess[i].st # "free" /\ t \in Sessions
        /\ Same(t, w.sess[i]) /\ t.inflight = w.sess[i].inflight /\ t.dropped = w.sess[i].dropped
        /\ Backed(w, i)
    BY <1>5
  <2> QED  BY ONLY <1>8, <2>1, QueuesChanged, SMTT(30)
<1> QED  BY <1>5, <1>6, <1>9

----------------------------------------------------------------------------
(* The tables.  fl, se, ag, o and n stand for flows, sess, agent, owner and
   next. *)

FlowType == [id : 1 .. MaxFlowId, slot : {0} \cup Slots, sf : {0} \cup PeerFlows,
             src : Addrs, used : BOOLEAN]

\* A flow has its owner, and the session of a peer's flow is that peer's.
FlowOK(f, se, o, n) ==
    /\ o[f.id] = <<f.src, f.sf>> /\ f.id < n
    /\ f.slot = 0 => f.sf = 0
    /\ f.slot # 0 => /\ se[f.slot].st = "live" /\ se[f.slot].role = "peer"
                     /\ se[f.slot].peer = f.src

FlowsOK(fl, se, o, n) ==
    /\ fl \subseteq FlowType
    /\ \A f, g \in fl : f.id = g.id \/ <<f.slot, f.src, f.sf>> = <<g.slot, g.src, g.sf>> => f = g
    /\ \A f \in fl : FlowOK(f, se, o, n)

SessionsOK(se, ag) ==
    /\ \A i, j \in Slots :
        se[i].st = "live" /\ se[j].st = "live" /\ se[i].peer = se[j].peer => i = j
    /\ \A i \in Slots : se[i].st = "live" /\ se[i].role = "agent" <=> ag = i
    /\ \A i \in Slots : se[i].st = "live" => se[i].timer = "armed"

Quiet(w) == \A i \in Slots : Settled(w, i)

\* The inductive invariant.
IInv ==
    /\ mode \in Modes /\ open \in BOOLEAN /\ agent \in {0} \cup Slots
    /\ next \in 1 .. MaxFlowId + 1 /\ owner \in [1 .. MaxFlowId -> Owners \cup {NoOwner}]
    /\ WorldOK(World, owner, next) /\ Quiet(World)
    /\ FlowsOK(flows, World.sess, owner, next) /\ SessionsOK(World.sess, agent)

\* A call that moves the queues of a session moves nothing of the tables.
LEMMA MovedTables ==
    ASSUME NEW w, NEW v, NEW i \in Slots, Moved(w, v, i)
    PROVE  /\ \A fl, o, n : FlowsOK(fl, w.sess, o, n) => FlowsOK(fl, v.sess, o, n)
           /\ \A ag : SessionsOK(w.sess, ag) => SessionsOK(v.sess, ag)
           /\ Quiet(w) /\ Settled(v, i) => Quiet(v)
<1>1. \A j \in Slots : Same(v.sess[j], w.sess[j])
  BY DEF Moved, Same
<1>2. ASSUME NEW fl, NEW o, NEW n, FlowsOK(fl, w.sess, o, n)
      PROVE  FlowsOK(fl, v.sess, o, n)
  <2>1. \A f \in fl : f.slot \in {0} \cup Slots
    BY <1>2 DEF FlowsOK, FlowType
  <2>2. \A f \in fl : FlowOK(f, v.sess, o, n)
    BY <1>1, <1>2, <2>1 DEF FlowsOK, FlowOK, Same
  <2> QED  BY <1>2, <2>2 DEF FlowsOK
<1>3. ASSUME NEW ag, SessionsOK(w.sess, ag)
      PROVE  SessionsOK(v.sess, ag)
  BY <1>1, <1>3 DEF SessionsOK, Same
<1>4. Quiet(w) /\ Settled(v, i) => Quiet(v)
  <2>1. \A j \in Slots \ {i} : Settled(w, j) => Settled(v, j)
    BY Zenon DEF Moved, Settled, Backed
  <2> QED  BY <2>1, Zenon DEF Quiet
<1> QED  BY <1>2, <1>3, <1>4

\* The state a call leads to is the world it returns.
LEMMA WorldIs ==
    ASSUME NEW v \in Worlds, Becomes(v)
    PROVE  World' = v
  BY DEF World, Becomes, Worlds

\* What a step has to show.
LEMMA StepTo ==
    ASSUME IInv, NEW v, Becomes(v), WorldOK(v, owner', next'), Quiet(v),
           FlowsOK(flows', v.sess, owner', next'), SessionsOK(v.sess, agent'),
           mode' = mode, open' \in BOOLEAN, agent' \in {0} \cup Slots,
           next' \in 1 .. MaxFlowId + 1, owner' \in [1 .. MaxFlowId -> Owners \cup {NoOwner}]
    PROVE  IInv'
<1>1. World' = v
  BY WorldIs DEF WorldOK
<1> QED  BY <1>1 DEF IInv

\* A step that moves the queues of one session and nothing of the tables.
LEMMA SendStep ==
    ASSUME IInv, NEW i \in Slots, NEW v, Becomes(v), WorldOK(v, owner, next),
           Moved(World, v, i), Settled(v, i),
           UNCHANGED <<mode, open, agent, flows, next, owner>>
    PROVE  IInv'
<1>1. /\ FlowsOK(flows, v.sess, owner, next) /\ SessionsOK(v.sess, agent) /\ Quiet(v)
  <2>1. PICK w : w = World
    OBVIOUS
  <2>2. /\ FlowsOK(flows, w.sess, owner, next) /\ SessionsOK(w.sess, agent) /\ Quiet(w)
    BY <2>1 DEF IInv
  <2>3. Moved(w, v, i)
    BY <2>1
  <2> QED  BY <2>2, <2>3, MovedTables
<1> QED  BY <1>1, StepTo, Zenon DEF IInv

\* A step that changes the tables and then moves the queues of a session.
LEMMA SendAfter ==
    ASSUME IInv, NEW z, FlowsOK(flows', z.sess, owner', next'), SessionsOK(z.sess, agent'),
           Quiet(z), NEW i \in Slots, NEW v, Becomes(v), WorldOK(v, owner', next'),
           Moved(z, v, i), Settled(v, i),
           mode' = mode, open' \in BOOLEAN, agent' \in {0} \cup Slots,
           next' \in 1 .. MaxFlowId + 1, owner' \in [1 .. MaxFlowId -> Owners \cup {NoOwner}]
    PROVE  IInv'
<1>1. /\ FlowsOK(flows', v.sess, owner', next') /\ SessionsOK(v.sess, agent') /\ Quiet(v)
  BY MovedTables
<1> QED  BY <1>1, StepTo

\* What the invariant says of the state, in the variables.
LEMMA Now ==
    ASSUME IInv
    PROVE  /\ World \in Worlds /\ World.sess = sess /\ World.sends = sends /\ World.raw = raw
           /\ sess \in [Slots -> SessionType]
           /\ \A i \in Slots : /\ SessionOK(sess[i], owner, next) /\ Settled(World, i)
                               /\ sess[i].st # "free" => sess[i] \in Sessions
<1>1. World \in Worlds /\ World.sess = sess /\ World.sends = sends /\ World.raw = raw
  BY DEF IInv, WorldOK, World
<1>2. sess \in [Slots -> SessionType]
  BY <1>1 DEF Worlds
<1>3. \A i \in Slots : SessionOK(sess[i], owner, next) /\ Settled(World, i)
  BY <1>1 DEF IInv, WorldOK, Quiet
<1> QED  BY <1>1, <1>2, <1>3, SlotFacts

\* Control messages and flights may go to any session.
LEMMA NoPayload ==
    /\ Ctl \in Items /\ \A d, o, n : Fits(Ctl, d, o, n)
  BY DEF Ctl, Item, Items, Fits

----------------------------------------------------------------------------
(* The steps that only send *)

\* A flight and pump_out on a live session.
LEMMA FlightStep ==
    ASSUME IInv, NEW i \in Slots, NEW w, WorldOK(w, owner, next), Moved(World, w, i),
           w.sess[i].st = "live", Backed(w, i), NEW f, NEW v \in pump_out(WithFlight(w, i, f), i),
           Becomes(v),
           UNCHANGED <<mode, open, agent, flows, next, owner>>
    PROVE  IInv'
<1>1. PICK z : z = WithFlight(w, i, f)
  OBVIOUS
<1>2. WorldOK(z, owner, next) /\ Moved(w, z, i) /\ Backed(z, i)
  BY <1>1, FlightWaits
<1>3. WorldOK(v, owner, next) /\ Moved(z, v, i) /\ Settled(v, i)
  BY <1>1, <1>2, PumpOut
<1>4. Moved(World, v, i)
  BY <1>2, <1>3, MovedTwice
<1> QED  BY <1>3, <1>4, SendStep

WithHs(s) == [s EXCEPT !.hs = TRUE]
Idle(s) == [s EXCEPT !.inflight = FALSE]

\* The fields of a session after its handshake, or after a send of its.
LEMMA FlagFields ==
    ASSUME NEW s \in Sessions
    PROVE  /\ WithHs(s) \in Sessions /\ Same(WithHs(s), s) /\ WithHs(s).inflight = s.inflight
           /\ WithHs(s).q = s.q /\ WithHs(s).wb = s.wb /\ WithHs(s).dropped = s.dropped
           /\ Idle(s) \in Sessions /\ Same(Idle(s), s) /\ Idle(s).inflight = FALSE
           /\ Idle(s).q = s.q /\ Idle(s).wb = s.wb
  BY Zenon DEF WithHs, Idle, Sessions, Same

\* A handshake message.
LEMMA PumpInStep ==
    ASSUME IInv, NEW i \in Slots, pump_in(i)
    PROVE  IInv'
<1>1. /\ WorldOK(World, owner, next) /\ Moved(World, World, i) /\ World.sess[i] = sess[i]
      /\ sess[i] \in Sessions /\ SessionOK(sess[i], owner, next) /\ sess[i].st = "live"
      /\ World \in Worlds /\ Backed(World, i)
  BY Now DEF IInv, Moved, Same, pump_in, LiveSess, Settled
<1>2. UNCHANGED <<mode, open, agent, flows, next, owner>>
  BY DEF pump_in
<1>3. ASSUME NEW f, NEW v \in pump_out(WithFlight(World, i, f), i), Becomes(v)
      PROVE  IInv'
  BY <1>1, <1>2, <1>3, FlightStep
<1>4. ASSUME NEW v \in pump_out(WithFlight([World EXCEPT !.sess[i].hs = TRUE], i, 1), i), Becomes(v)
      PROVE  IInv'
  <2>1. PICK t \in Sessions : /\ t = WithHs(sess[i]) /\ Same(t, sess[i])
                              /\ t.inflight = sess[i].inflight /\ t.q = sess[i].q /\ t.wb = sess[i].wb
                              /\ t.dropped = sess[i].dropped
    BY <1>1, FlagFields, Zenon
  <2>2. [World EXCEPT !.sess[i].hs = TRUE] = At(World, i, t)
    BY <1>1, <2>1 DEF At, WithHs, Worlds
  <2>3. Len(t.q) <= QueueMax /\ \A x \in In(t.q) \cup In(t.wb) : Fits(x, t.peer, owner, next)
    BY <1>1, <2>1 DEF SessionOK, Same
  <2>4. /\ WorldOK(At(World, i, t), owner, next) /\ Moved(World, At(World, i, t), i)
        /\ At(World, i, t).sess[i] = t /\ Backed(At(World, i, t), i)
    BY <1>1, <2>1, <2>3, QueuesChanged
  <2>5. t.st = "live"
    BY <1>1, <2>1 DEF Same
  <2>6. PICK w : w = At(World, i, t)
    OBVIOUS
  <2> QED  BY <1>2, <1>4, <2>2, <2>4, <2>5, <2>6, FlightStep, Zenon
<1> QED  BY <1>3, <1>4, Zenon DEF pump_in

\* What pump_in ends with: one more pump_out, on the session of the record.
Last(z, i) == IF i = 0 THEN Becomes(z) ELSE \E v \in pump_out(z, i) : Becomes(v)

\* A step that leads to a sound world and pumps out once more.
LEMMA LastStep ==
    ASSUME IInv, NEW z, WorldOK(z, owner', next'), Quiet(z), FlowsOK(flows', z.sess, owner', next'),
           SessionsOK(z.sess, agent'), NEW i \in {0} \cup Slots, Last(z, i),
           mode' = mode, open' \in BOOLEAN, agent' \in {0} \cup Slots,
           next' \in 1 .. MaxFlowId + 1, owner' \in [1 .. MaxFlowId -> Owners \cup {NoOwner}]
    PROVE  IInv'
<1>1. CASE i = 0
  <2>1. Becomes(z)
    BY <1>1 DEF Last
  <2> QED  BY <2>1, StepTo, Zenon
<1>2. CASE i # 0
  <2>1. PICK j \in Slots : j = i
    BY <1>2, Zenon
  <2>2. PICK v \in pump_out(z, j) : Becomes(v)
    BY <1>2, <2>1, Zenon DEF Last
  <2>3. WorldOK(v, owner', next') /\ Moved(z, v, j) /\ Settled(v, j)
    <3>1. PICK o, n : o = owner' /\ n = next'
      OBVIOUS
    <3>2. WorldOK(z, o, n) /\ Backed(z, j)
      BY <3>1, Zenon DEF Quiet, Settled
    <3>3. WorldOK(v, o, n) /\ Moved(z, v, j) /\ Settled(v, j)
      BY ONLY <3>2, j \in Slots, v \in pump_out(z, j), PumpOut, Zenon
    <3> QED  BY <3>1, <3>3
  <2> QED  BY <2>2, <2>3, SendAfter, Zenon
<1> QED  BY <1>1, <1>2

\* A step that queues an item on session i, on which the record came, after it
\* changed the tables.
LEMMA AnswerStep ==
    ASSUME IInv, NEW z, WorldOK(z, owner, next), Quiet(z), FlowsOK(flows', z.sess, owner, next),
           SessionsOK(z.sess, agent'), NEW i \in Slots, ThenPump(session_queue(z, i, Ctl), i),
           UNCHANGED <<mode, open, next, owner>>, agent' \in {0} \cup Slots
    PROVE  IInv'
<1>1. PICK y \in session_queue(z, i, Ctl) : Last(y, i)
  BY Zenon DEF ThenPump, Last
<1>2. WorldOK(y, owner, next) /\ Moved(z, y, i) /\ Settled(y, i)
  <2>1. Settled(z, i)
    BY Zenon DEF Quiet
  <2> QED  BY <1>1, <2>1, NoPayload, SessionQueue, Zenon
<1>3. FlowsOK(flows', y.sess, owner, next) /\ SessionsOK(y.sess, agent') /\ Quiet(y)
  BY <1>2, MovedTables, Zenon
<1>4. i \in {0} \cup Slots
  OBVIOUS
<1>5. /\ WorldOK(y, owner', next') /\ FlowsOK(flows', y.sess, owner', next') /\ mode' = mode
      /\ open' \in BOOLEAN /\ next' \in 1 .. MaxFlowId + 1
      /\ owner' \in [1 .. MaxFlowId -> Owners \cup {NoOwner}]
  BY <1>2, <1>3, Zenon DEF IInv
<1> QED  BY <1>1, <1>3, <1>4, <1>5, LastStep, Zenon

\* A refused credential.
LEMMA RefusedStep ==
    ASSUME IInv, NEW i \in Slots, AuthRefused(i)
    PROVE  IInv'
<1>1. PICK z : z = World
  OBVIOUS
<1>2. /\ WorldOK(z, owner, next) /\ Quiet(z) /\ FlowsOK(flows, z.sess, owner, next)
      /\ SessionsOK(z.sess, agent) /\ agent \in {0} \cup Slots
  BY <1>1 DEF IInv
<1>3. ThenPump(session_queue(z, i, Ctl), i) /\ UNCHANGED <<mode, open, agent, flows, next, owner>>
  BY <1>1, Zenon DEF AuthRefused
<1>4. FlowsOK(flows', z.sess, owner, next) /\ SessionsOK(z.sess, agent') /\ agent' \in {0} \cup Slots
  BY <1>2, <1>3, Zenon
<1> QED  BY <1>2, <1>3, <1>4, AnswerStep, Zenon

\* A record nothing comes of.
LEMMA IgnoredStep ==
    ASSUME IInv, NEW i \in Slots, Ignored(i)
    PROVE  IInv'
<1>1. PICK w, v : w = World /\ v \in pump_out(w, i) /\ Becomes(v)
  BY Zenon DEF Ignored
<1>2. WorldOK(w, owner, next) /\ Backed(w, i)
  BY <1>1, Now, Zenon DEF IInv, Settled
<1>3. WorldOK(v, owner, next) /\ Moved(w, v, i) /\ Settled(v, i)
  BY ONLY i \in Slots, <1>1, <1>2, PumpOut, Zenon
<1>4. Moved(World, v, i) /\ Becomes(v) /\ UNCHANGED <<mode, open, agent, flows, next, owner>>
  BY <1>1, <1>3, Zenon DEF Ignored
<1> QED  BY <1>3, <1>4, SendStep, Zenon

\* The session's timer, when it does not close the session.
LEMMA RetransmitStep ==
    ASSUME IInv, NEW i \in Slots, LiveSess(i), NEW f,
           NEW v \in pump_out(WithFlight(World, i, f), i), Becomes(v),
           UNCHANGED <<mode, open, agent, flows, next, owner>>
    PROVE  IInv'
<1>1. /\ WorldOK(World, owner, next) /\ Moved(World, World, i) /\ World.sess[i].st = "live"
      /\ Backed(World, i)
  BY Now, Zenon DEF IInv, Moved, Same, LiveSess, Settled
<1> QED  BY <1>1, FlightStep

----------------------------------------------------------------------------
(* Closing *)

\* What is left of a session that is closed.
LEMMA ClosingFields ==
    ASSUME NEW o, NEW n, NEW s \in Sessions
    PROVE  /\ ClosingSession(s) \in Sessions /\ ClosingSession(s).st = "closing"
           /\ SessionOK(ClosingSession(s), o, n) /\ Calm(ClosingSession(s))
           /\ \A d : Holds(s, d) => Holds(ClosingSession(s), d)
           /\ ClosingSession(s).inflight = s.inflight /\ ClosingSession(s).dropped = s.dropped
<1>1. <<>> \in Seq(Items) /\ In(<<>>) = {} /\ Len(<<>>) <= QueueMax
  BY BrokerUdpAssumption DEF In
<1>2. /\ ClosingSession(s) \in Sessions /\ ClosingSession(s).st = "closing"
      /\ ClosingSession(s).timer = "closing" /\ ClosingSession(s).q = <<>>
      /\ ClosingSession(s).wb = <<>> /\ ClosingSession(s).inflight = s.inflight
      /\ ClosingSession(s).peer = s.peer /\ ClosingSession(s).dropped = s.dropped
  BY <1>1, Zenon DEF ClosingSession, Sessions
<1> QED  BY <1>1, <1>2 DEF SessionOK, Calm, Holds

\* The sessions after tm_udp_session_close of the sessions I.
LEMMA CloseFields ==
    ASSUME NEW w \in Worlds, NEW I, \A i \in I \cap Slots : w.sess[i] \in Sessions
    PROVE  /\ CloseSlots(w, I) \in Worlds /\ CloseSlots(w, I).sends = w.sends
           /\ CloseSlots(w, I).raw = w.raw
           /\ \A i \in Slots :
                CloseSlots(w, I).sess[i] = IF i \in I THEN ClosingSession(w.sess[i]) ELSE w.sess[i]
<1>1. PICK se : se = [i \in Slots |-> IF i \in I THEN ClosingSession(w.sess[i]) ELSE w.sess[i]]
  BY Zenon
<1>2. se \in [Slots -> SessionType]
  <2>1. \A i \in Slots : (IF i \in I THEN ClosingSession(w.sess[i]) ELSE w.sess[i]) \in SessionType
    <3>1. \A i \in Slots : w.sess[i] \in SessionType
      BY DEF Worlds
    <3>2. \A i \in I \cap Slots : ClosingSession(w.sess[i]) \in SessionType
      BY ClosingFields DEF SessionType
    <3> QED  BY <3>1, <3>2
  <2> QED  BY <1>1, <2>1
<1>3. CloseSlots(w, I) = WithSess(w, se)
  BY <1>1 DEF CloseSlots, WithSess, Worlds
<1> QED  BY <1>1, <1>2, <1>3, WithSessFields

\* Closing sessions keeps a world sound: a send in flight still finds its
\* session, and nothing waits in a queue.
LEMMA Closing ==
    ASSUME NEW o, NEW n, NEW w, WorldOK(w, o, n), NEW I,
           \A i \in I \cap Slots : w.sess[i].st # "free"
    PROVE  WorldOK(CloseSlots(w, I), o, n) /\ (Quiet(w) => Quiet(CloseSlots(w, I)))
<1>1. /\ w \in Worlds /\ w.sess \in [Slots -> SessionType] /\ w.sends \in Seq(SendType)
      /\ \A i \in I \cap Slots : w.sess[i] \in Sessions
  <2>1. w \in Worlds /\ w.sess \in [Slots -> SessionType] /\ w.sends \in Seq(SendType)
    BY DEF WorldOK, Worlds
  <2> QED  BY <2>1, SlotFacts
<1>2. PICK v : v = CloseSlots(w, I)
  OBVIOUS
<1>3. /\ v \in Worlds /\ v.sends = w.sends /\ v.raw = w.raw
      /\ \A i \in Slots : v.sess[i] = IF i \in I THEN ClosingSession(w.sess[i]) ELSE w.sess[i]
  <2>1. w \in Worlds /\ \A i \in I \cap Slots : w.sess[i] \in Sessions
    BY ONLY <1>1
  <2>2. /\ CloseSlots(w, I) \in Worlds /\ CloseSlots(w, I).sends = w.sends
        /\ CloseSlots(w, I).raw = w.raw
        /\ \A i \in Slots :
             CloseSlots(w, I).sess[i] = IF i \in I THEN ClosingSession(w.sess[i]) ELSE w.sess[i]
    BY ONLY <2>1, CloseFields, SMTT(30)
  <2> QED  BY ONLY <1>2, <2>2
<1>4. \A i \in Slots : /\ SessionOK(v.sess[i], o, n)
                       /\ Settled(w, i) => Settled(v, i)
                       /\ \A d : Holds(w.sess[i], d) => Holds(v.sess[i], d)
  <2> SUFFICES ASSUME NEW i \in Slots
               PROVE  /\ SessionOK(v.sess[i], o, n)
                      /\ Settled(w, i) => Settled(v, i)
                      /\ \A d : Holds(w.sess[i], d) => Holds(v.sess[i], d)
    OBVIOUS
  <2>1. CASE i \in I
    <3>1. v.sess[i] = ClosingSession(w.sess[i]) /\ w.sess[i] \in Sessions
      BY <1>1, <1>3, <2>1
    <3>2. PICK s, t : s \in Sessions /\ s = w.sess[i] /\ t = ClosingSession(s)
      BY ONLY <3>1, Zenon
    <3>3. /\ SessionOK(t, o, n) /\ Calm(t) /\ \A d : Holds(s, d) => Holds(t, d)
          /\ t.inflight = s.inflight /\ t.dropped = s.dropped
      BY ONLY <3>2, ClosingFields, Zenon
    <3>4. v.sess[i] = t /\ w.sess[i] = s /\ s.st # "free" /\ v.sends = w.sends
      <4>1. s.st # "free"
        BY <3>2 DEF Sessions
      <4> QED  BY ONLY <1>3, <3>1, <3>2, <4>1, Zenon
    <3>5. Settled(w, i) => Settled(v, i)
      BY ONLY <3>3, <3>4, Zenon DEF Settled, Backed
    <3> QED  BY ONLY <3>3, <3>4, <3>5, Zenon
  <2>2. CASE i \notin I
    <3>1. v.sess[i] = w.sess[i] /\ v.sends = w.sends /\ SessionOK(w.sess[i], o, n)
      BY <1>3, <2>2, Zenon DEF WorldOK
    <3> QED  BY ONLY <3>1, Zenon DEF Settled, Backed
  <2> QED  BY <2>1, <2>2
<1>5. Linked(v.sess, v.sends)
  <2>1. \A k \in DOMAIN w.sends : w.sends[k].slot # 0 => w.sends[k].slot \in Slots
    BY <1>1, SendFacts
  <2>2. \A k \in DOMAIN w.sends : w.sends[k].slot # 0 => Holds(v.sess[w.sends[k].slot], w.sends[k].dst)
    BY <1>4, <2>1, Zenon DEF WorldOK, Linked
  <2> QED  BY <1>3, <2>2, Zenon DEF WorldOK, Linked
<1>6. WorldOK(v, o, n)
  BY <1>3, <1>4, <1>5, Zenon DEF WorldOK
<1> QED  BY <1>2, <1>4, <1>6 DEF Quiet

\* Fewer flows.
LEMMA FewerFlows ==
    ASSUME NEW fl, NEW se, NEW o, NEW n, FlowsOK(fl, se, o, n), NEW gl, gl \subseteq fl
    PROVE  FlowsOK(gl, se, o, n)
  BY DEF FlowsOK

\* The tables are about live sessions: they are sound for other sessions if no
\* flow left is of a session that changed, and those that are live were.
LEMMA LiveTables ==
    ASSUME NEW fl, NEW se, NEW o, NEW n, FlowsOK(fl, se, o, n), NEW tt,
           \A f \in fl : f.slot # 0 => tt[f.slot] = se[f.slot]
    PROVE  FlowsOK(fl, tt, o, n)
  BY DEF FlowsOK, FlowOK

\* After tm_udp_session_close the flows of the sessions are gone, the sessions
\* that are live were, and agent_session is not one of them.
LEMMA ClosedTables ==
    ASSUME NEW o, NEW n, NEW w \in Worlds, NEW I, \A i \in I \cap Slots : w.sess[i].st # "free",
           NEW fl, FlowsOK(fl, w.sess, o, n), NEW ag, SessionsOK(w.sess, ag),
           NEW v, v = CloseSlots(w, I), NEW bg, bg = IF ag \in I THEN 0 ELSE ag
    PROVE  FlowsOK({f \in fl : f.slot \notin I}, v.sess, o, n) /\ SessionsOK(v.sess, bg)
<1>1. w.sess \in [Slots -> SessionType] /\ \A i \in I \cap Slots : w.sess[i] \in Sessions
  <2>1. w.sess \in [Slots -> SessionType]
    BY DEF Worlds
  <2> QED  BY <2>1, SlotFacts
<1>2. \A i \in Slots : v.sess[i] = IF i \in I THEN ClosingSession(w.sess[i]) ELSE w.sess[i]
  <2>1. w \in Worlds /\ \A i \in I \cap Slots : w.sess[i] \in Sessions
    BY ONLY <1>1, w \in Worlds
  <2>2. \A i \in Slots :
          CloseSlots(w, I).sess[i] = IF i \in I THEN ClosingSession(w.sess[i]) ELSE w.sess[i]
    BY ONLY <2>1, CloseFields, SMTT(30)
  <2> QED  BY ONLY <2>2, v = CloseSlots(w, I)
<1>3. \A i \in I \cap Slots : v.sess[i].st = "closing"
  BY <1>1, <1>2, ClosingFields, Zenon
<1>4. \A i \in Slots \ I : v.sess[i] = w.sess[i]
  BY <1>2
<1>5. PICK gl : gl = {f \in fl : f.slot \notin I}
  BY Zenon
<1>6. FlowsOK(gl, w.sess, o, n)
  BY <1>5, FewerFlows
<1>7. \A f \in gl : f.slot # 0 => v.sess[f.slot] = w.sess[f.slot]
  BY <1>4, <1>5, <1>6 DEF FlowsOK, FlowType
<1>8. FlowsOK(gl, v.sess, o, n)
  <2>1. PICK se, tt : se = w.sess /\ tt = v.sess
    OBVIOUS
  <2> QED  BY <1>6, <1>7, <2>1, LiveTables, Zenon
<1>9. \A i \in Slots : v.sess[i].st = "live" => i \notin I /\ v.sess[i] = w.sess[i]
  BY <1>3, <1>4
<1>10. SessionsOK(v.sess, bg)
  <2>1. PICK se, tt : se = w.sess /\ tt = v.sess
    OBVIOUS
  <2>2. /\ SessionsOK(se, ag) /\ \A i \in Slots \ I : tt[i] = se[i]
        /\ \A i \in Slots : tt[i].st = "live" => i \notin I /\ tt[i] = se[i]
    BY ONLY <1>4, <1>9, <2>1, SessionsOK(w.sess, ag), Zenon
  <2>3. \A i \in Slots : tt[i].st = "live" /\ tt[i].role = "agent" <=> bg = i
    BY ONLY <2>2, bg = IF ag \in I THEN 0 ELSE ag, SlotFacts, SMTT(30) DEF SessionsOK
  <2>4. SessionsOK(tt, bg)
    BY ONLY <2>2, <2>3, SMTT(30) DEF SessionsOK
  <2> QED  BY ONLY <2>1, <2>4, Zenon
<1> QED  BY <1>5, <1>8, <1>10

\* A session is closed by its timer.
LEMMA CloseStep ==
    ASSUME IInv, NEW i \in Slots, LiveSess(i), tm_udp_session_close(i)
    PROVE  IInv'
<1>1. PICK v : v = CloseSlots(World, {i}) /\ Becomes(v)
  BY DEF tm_udp_session_close
<1>2. /\ World \in Worlds /\ WorldOK(World, owner, next) /\ Quiet(World)
      /\ \A j \in {i} \cap Slots : World.sess[j].st # "free"
      /\ FlowsOK(flows, World.sess, owner, next) /\ SessionsOK(World.sess, agent)
  BY Now, Zenon DEF IInv, LiveSess
<1>3. WorldOK(v, owner, next) /\ Quiet(v)
  BY <1>1, <1>2, Closing, Zenon
<1>4. /\ flows' = {f \in flows : f.slot \notin {i}} /\ agent' = IF agent \in {i} THEN 0 ELSE agent
      /\ UNCHANGED <<mode, open, next, owner>>
  BY DEF tm_udp_session_close, FlowsWithout
<1>5. FlowsOK(flows', v.sess, owner, next) /\ SessionsOK(v.sess, agent')
  <2>1. PICK w, I, bg : w \in Worlds /\ w = World /\ I = {i} /\ bg = IF agent \in I THEN 0 ELSE agent
    BY <1>2, Zenon
  <2>2. /\ \A j \in I \cap Slots : w.sess[j].st # "free"
        /\ FlowsOK(flows, w.sess, owner, next) /\ SessionsOK(w.sess, agent) /\ v = CloseSlots(w, I)
        /\ w \in Worlds /\ bg = IF agent \in I THEN 0 ELSE agent
    BY <1>1, <1>2, <2>1, Zenon
  <2>3. FlowsOK({f \in flows : f.slot \notin I}, v.sess, owner, next) /\ SessionsOK(v.sess, bg)
    BY ONLY <2>2, ClosedTables, Zenon
  <2> QED  BY <1>4, <2>1, <2>3
<1> QED  BY <1>1, <1>3, <1>4, <1>5, StepTo, Zenon DEF IInv

\* The socket is closed with all sessions.
LEMMA StopStep ==
    ASSUME IInv, tm_udp_stop
    PROVE  IInv'
<1>1. PICK I : I = {i \in Slots : LiveSess(i)}
  BY Zenon
<1>2. PICK v : v = CloseSlots(World, I) /\ Becomes(v)
  BY <1>1 DEF tm_udp_stop
<1>3. /\ World \in Worlds /\ WorldOK(World, owner, next) /\ Quiet(World)
      /\ \A j \in I \cap Slots : World.sess[j].st # "free"
      /\ \A j \in Slots : j \in I <=> World.sess[j].st = "live"
      /\ FlowsOK(flows, World.sess, owner, next) /\ SessionsOK(World.sess, agent)
  BY <1>1, Now, Zenon DEF IInv, LiveSess
<1>4. WorldOK(v, owner, next) /\ Quiet(v)
  BY <1>2, <1>3, Closing, Zenon
<1>5. PICK bg : bg = IF agent \in I THEN 0 ELSE agent
  OBVIOUS
<1>6. bg = 0
  BY <1>3, <1>5, Zenon DEF SessionsOK, IInv
<1>7. SessionsOK(v.sess, 0) /\ FlowsOK({f \in flows : f.slot \notin I}, v.sess, owner, next)
  <2>1. PICK w \in Worlds : w = World
    BY <1>3
  <2>2. /\ \A j \in I \cap Slots : w.sess[j].st # "free"
        /\ FlowsOK(flows, w.sess, owner, next) /\ SessionsOK(w.sess, agent) /\ v = CloseSlots(w, I)
    BY <1>2, <1>3, <2>1
  <2>3. FlowsOK({f \in flows : f.slot \notin I}, v.sess, owner, next) /\ SessionsOK(v.sess, bg)
    BY ONLY <1>5, <2>1, <2>2, ClosedTables, Zenon
  <2> QED  BY <1>6, <2>3
<1>8. FlowsOK({}, v.sess, owner, next)
  BY <1>7, FewerFlows
<1> QED  BY <1>2, <1>4, <1>7, <1>8, StepTo, Zenon DEF IInv, tm_udp_stop

\* The tables do not see what becomes of a session that is not live.
LEMMA DeadStep ==
    ASSUME IInv, NEW i \in Slots, sess[i].st # "live", NEW t \in SessionType, t.st # "live",
           NEW v, v.sess = [sess EXCEPT ![i] = t], WorldOK(v, owner, next), Becomes(v),
           Backed(v, i), \A j \in Slots \ {i} : HasSend(sends, j) => HasSend(v.sends, j),
           UNCHANGED <<mode, open, agent, flows, next, owner>>
    PROVE  IInv'
<1>1. /\ sess \in [Slots -> SessionType] /\ FlowsOK(flows, sess, owner, next)
      /\ SessionsOK(sess, agent) /\ \A j \in Slots : Settled(World, j)
      /\ World.sess = sess /\ World.sends = sends
  BY Now, Zenon DEF IInv
<1>2. \A j \in Slots : v.sess[j] = IF j = i THEN t ELSE sess[j]
  BY <1>1, Zenon
<1>3. \A f \in flows : f.slot # 0 => v.sess[f.slot] = sess[f.slot]
  <2>1. \A f \in flows : f.slot # 0 => f.slot \in Slots /\ sess[f.slot].st = "live"
    BY <1>1, Zenon DEF FlowsOK, FlowOK, FlowType
  <2> QED  BY <1>2, <2>1
<1>4. FlowsOK(flows, v.sess, owner, next)
  <2>1. PICK se, tt : se = sess /\ tt = v.sess
    BY Zenon
  <2>2. FlowsOK(flows, se, owner, next) /\ \A f \in flows : f.slot # 0 => tt[f.slot] = se[f.slot]
    BY ONLY <1>1, <1>3, <2>1, Zenon
  <2>3. FlowsOK(flows, tt, owner, next)
    BY ONLY <2>2, LiveTables, Zenon
  <2> QED  BY ONLY <2>1, <2>3, Zenon
<1>5. SessionsOK(v.sess, agent) /\ Quiet(v)
  <2>1. PICK se, tt : se = sess /\ tt = v.sess
    OBVIOUS
  <2>2. /\ SessionsOK(se, agent) /\ se[i].st # "live" /\ t.st # "live"
        /\ \A j \in Slots : tt[j] = (IF j = i THEN t ELSE se[j])
    BY <1>1, <1>2, <2>1, Zenon
  <2>3. SessionsOK(tt, agent)
    BY ONLY <2>2, SMTT(30) DEF SessionsOK
  <2>4. Settled(v, i)
    BY <1>2, Zenon DEF Settled, Calm
  <2>5. \A j \in Slots \ {i} : Settled(v, j)
    <3>1. \A j \in Slots \ {i} : /\ v.sess[j] = World.sess[j] /\ Settled(World, j)
                                 /\ HasSend(World.sends, j) => HasSend(v.sends, j)
      BY <1>1, <1>2, Zenon
    <3> QED  BY ONLY <3>1, Zenon DEF Settled, Backed
  <2> QED  BY ONLY <2>1, <2>3, <2>4, <2>5, Zenon DEF Quiet
<1> QED  BY <1>4, <1>5, StepTo, Zenon DEF IInv

TimerClosed(s) == [s EXCEPT !.timer = "closed"]

\* The fields of a closed session whose timer is closed, or whose send completed.
LEMMA ClosedFields ==
    ASSUME NEW s \in Sessions
    PROVE  /\ TimerClosed(s) \in Sessions /\ TimerClosed(s).st = s.st /\ TimerClosed(s).timer = "closed"
           /\ TimerClosed(s).peer = s.peer /\ TimerClosed(s).q = s.q /\ TimerClosed(s).wb = s.wb
           /\ TimerClosed(s).inflight = s.inflight /\ TimerClosed(s).dropped = s.dropped
  BY DEF TimerClosed, Sessions

\* A session is freed only when no send needs it, and otherwise waits for one.
LEMMA MaybeFree ==
    ASSUME NEW o, NEW n, NEW s \in Sessions, s.st = "closing", s.timer # "armed",
           \A x \in In(s.q) \cup In(s.wb) : Fits(x, s.peer, o, n), Len(s.q) <= QueueMax
    PROVE  /\ session_maybe_free(s) \in SessionType /\ SessionOK(session_maybe_free(s), o, n)
           /\ session_maybe_free(s).st # "live" /\ session_maybe_free(s) \in {s, FreeSession}
           /\ \A d : Holds(s, d) => Holds(session_maybe_free(s), d)
<1>1. CASE ~s.inflight /\ s.timer = "closed"
  <2>1. session_maybe_free(s) = FreeSession
    BY <1>1 DEF session_maybe_free
  <2>2. FreeSession \in SessionType /\ FreeSession.st = "free"
    BY DEF SessionType, FreeSession
  <2> QED  BY <1>1, <2>1, <2>2, Zenon DEF SessionOK, Holds
<1>2. CASE ~(~s.inflight /\ s.timer = "closed")
  <2>1. session_maybe_free(s) = s
    BY <1>2 DEF session_maybe_free
  <2>2. s.timer \in {"armed", "closing", "closed"}
    BY DEF Sessions
  <2> QED  BY <1>2, <2>1, <2>2, Zenon DEF SessionOK, SessionType
<1> QED  BY <1>1, <1>2, Zenon

\* The timer of a closed session is closed.
LEMMA TimerClosedStep ==
    ASSUME IInv, NEW i \in Slots, session_timer_closed(i)
    PROVE  IInv'
<1>1. /\ sess[i].st = "closing" /\ sess[i] \in Sessions /\ SessionOK(sess[i], owner, next)
      /\ World \in Worlds /\ World.sess = sess /\ World.sends = sends /\ World.raw = raw
      /\ WorldOK(World, owner, next)
  BY Now DEF IInv, session_timer_closed
<1>2. PICK s \in Sessions : /\ s = TimerClosed(sess[i]) /\ s.st = "closing" /\ s.timer = "closed"
                            /\ s.peer = sess[i].peer /\ s.q = sess[i].q /\ s.wb = sess[i].wb
                            /\ s.inflight = sess[i].inflight /\ s.dropped = sess[i].dropped
  <2>1. PICK x \in Sessions : x = sess[i]
    BY <1>1
  <2>2. PICK s : s = TimerClosed(x)
    OBVIOUS
  <2>3. /\ s \in Sessions /\ s.st = x.st /\ s.timer = "closed" /\ s.peer = x.peer /\ s.q = x.q
        /\ s.wb = x.wb /\ s.inflight = x.inflight /\ s.dropped = x.dropped
    BY ONLY x \in Sessions, <2>2, ClosedFields, Zenon
  <2> QED  BY ONLY <1>1, <2>1, <2>2, <2>3, Zenon
<1>3. (\A x \in In(s.q) \cup In(s.wb) : Fits(x, s.peer, owner, next)) /\ Len(s.q) <= QueueMax
  BY <1>1, <1>2, Zenon DEF SessionOK
<1>4. PICK t \in SessionType : /\ t = session_maybe_free(s) /\ SessionOK(t, owner, next)
                               /\ t.st # "live" /\ \A d : Holds(s, d) => Holds(t, d)
                               /\ t \in {s, FreeSession}
  <2>1. s.timer # "armed"
    BY <1>2
  <2> QED  BY <1>2, <1>3, <2>1, MaybeFree, Zenon
<1>5. \A d : Holds(sess[i], d) => Holds(t, d)
  BY <1>1, <1>2, <1>4, Zenon DEF Holds
<1>6. PICK v : v = At(World, i, t)
  OBVIOUS
<1>7. WorldOK(v, owner, next)
  <2>1. \A k \in DOMAIN World.sends :
            World.sends[k].slot = i /\ Holds(World.sess[i], World.sends[k].dst) => Holds(t, World.sends[k].dst)
    BY <1>1, <1>5, Zenon
  <2> QED  BY ONLY i \in Slots, <1>1, <1>4, <1>6, <2>1, AtOK, ZenonT(60)
<1>8. v.sess = [sess EXCEPT ![i] = t] /\ v.sends = sends /\ v.raw = raw
  <2>1. PICK w \in Worlds : w = World
    BY <1>1
  <2>2. v = At(w, i, t) /\ w.sess = sess /\ w.sends = sends /\ w.raw = raw
    BY ONLY <1>1, <1>6, <2>1, Zenon
  <2>3. v.sess = [w.sess EXCEPT ![i] = t] /\ v.sends = w.sends /\ v.raw = w.raw
    BY ONLY w \in Worlds, i \in Slots, t \in SessionType, <2>2, AtFields, Zenon
  <2> QED  BY ONLY <2>2, <2>3, Zenon
<1>9. sess' = [sess EXCEPT ![i] = t]
  BY <1>2, <1>4 DEF session_timer_closed, TimerClosed
<1>10. Becomes(v) /\ UNCHANGED <<mode, open, agent, flows, next, owner>>
  BY <1>8, <1>9, Zenon DEF Becomes, session_timer_closed
<1>11. Backed(v, i)
  <2>1. Backed(World, i) /\ sess[i].st # "free" /\ FreeSession.st = "free"
    BY <1>1, Now, Zenon DEF Settled, FreeSession
  <2>2. v.sess[i] = t
    BY Now, <1>8, Zenon
  <2>3. CASE t = FreeSession
    BY ONLY <2>1, <2>2, <2>3, Zenon DEF Backed
  <2>4. CASE t = s
    <3>1. /\ v.sess[i].inflight = World.sess[i].inflight /\ v.sess[i].dropped = World.sess[i].dropped
          /\ World.sess[i].st # "free" /\ v.sends = World.sends
      <4>1. v.sess[i] = s /\ World.sess[i] = sess[i]
        BY ONLY <1>1, <2>2, <2>4, Zenon
      <4>2. s.inflight = sess[i].inflight /\ s.dropped = sess[i].dropped
        BY ONLY <1>2, Zenon
      <4>3. v.sends = World.sends
        BY ONLY <1>1, <1>8, Zenon
      <4> QED  BY ONLY <2>1, <4>1, <4>2, <4>3, Zenon
    <3> QED  BY ONLY <2>1, <3>1, Zenon DEF Backed
  <2> QED  BY <1>4, <2>3, <2>4, Zenon
<1>12. \A j \in Slots \ {i} : HasSend(sends, j) => HasSend(v.sends, j)
  BY <1>8, Zenon
<1> QED  BY <1>1, <1>4, <1>7, <1>8, <1>10, <1>11, <1>12, DeadStep, Zenon

\* The session of the first send, and the world without that send.
First(w) == Head(w.sends).slot
Done(w) == WithSends(w, Tail(w.sends), w.raw - 1)

\* v is w without its first send: whose session is still there and has no other.
Completion(w, v, o, n) ==
    /\ WorldOK(v, o, n) /\ v.sess = w.sess
    /\ First(w) \in {0} \cup Slots
    /\ First(w) # 0 => /\ w.sess[First(w)].st # "free"
                      /\ \A k \in DOMAIN v.sends : v.sends[k].slot # First(w)
    /\ \A j : j # First(w) /\ HasSend(w.sends, j) => HasSend(v.sends, j)

\* A completed send leaves the world sound, and no other send of its session.
LEMMA Completed ==
    ASSUME NEW o, NEW n, NEW w, WorldOK(w, o, n), w.sends # <<>>,
           NEW v, v = Done(w)
    PROVE  Completion(w, v, o, n)
<1>1. w \in Worlds /\ w.sends \in Seq(SendType) /\ w.raw = Len(w.sends) /\ w.raw <= QueueMax
  BY DEF WorldOK, Worlds
<1>2. /\ Head(w.sends) \in SendType /\ Tail(w.sends) \in Seq(SendType)
      /\ Len(Tail(w.sends)) = Len(w.sends) - 1 /\ Len(w.sends) \in Nat \ {0}
      /\ DOMAIN w.sends = 1 .. Len(w.sends) /\ DOMAIN Tail(w.sends) = 1 .. Len(w.sends) - 1
      /\ \A k \in 1 .. Len(w.sends) - 1 : Tail(w.sends)[k] = w.sends[k + 1]
  BY <1>1, FirstAndRest
<1>3. PICK sn \in Seq(SendType), r \in Nat : sn = Tail(w.sends) /\ r = w.raw - 1
  <2>1. w.raw - 1 \in Nat
    BY <1>1, <1>2
  <2> QED  BY ONLY <1>2, <2>1, Zenon
<1>4. v \in Worlds /\ v.sess = w.sess /\ v.sends = sn /\ v.raw = r
  <2>1. v = WithSends(w, sn, r)
    BY ONLY <1>3, v = Done(w), Zenon DEF Done
  <2>2. w \in Worlds
    BY <1>1
  <2>3. /\ WithSends(w, sn, r) \in Worlds /\ WithSends(w, sn, r).sess = w.sess
        /\ WithSends(w, sn, r).sends = sn /\ WithSends(w, sn, r).raw = r
    BY ONLY sn \in Seq(SendType), r \in Nat, <2>2, WithSendsFields
  <2> QED  BY ONLY <2>1, <2>3, Zenon
<1>5. \A k \in DOMAIN sn : k + 1 \in DOMAIN w.sends /\ sn[k] = w.sends[k + 1] /\ k \in Nat \ {0}
  BY <1>2, <1>3
<1>6. 1 \in DOMAIN w.sends /\ Head(w.sends) = w.sends[1]
  BY <1>1, <1>2
<1>7. \A k \in DOMAIN sn : Fits(sn[k].item, sn[k].dst, o, n)
  BY <1>5 DEF WorldOK
<1>8. Linked(w.sess, sn)
  <2>1. PICK se, os : se = w.sess /\ os = w.sends
    OBVIOUS
  <2>2. Linked(se, os) /\ \A k \in DOMAIN sn : k + 1 \in DOMAIN os /\ sn[k] = os[k + 1] /\ k \in Nat \ {0}
    BY <1>5, <2>1 DEF WorldOK
  <2>3. Linked(se, sn)
    BY ONLY <2>2, SMTT(30) DEF Linked
  <2> QED  BY ONLY <2>1, <2>3, Zenon
<1>9. r = Len(sn) /\ r <= QueueMax
  BY <1>1, <1>2, <1>3, BrokerUdpAssumption
<1>10. WorldOK(v, o, n)
  BY <1>4, <1>7, <1>8, <1>9, Zenon DEF WorldOK
<1>11. Head(w.sends).slot # 0 => \A k \in DOMAIN sn : sn[k].slot # Head(w.sends).slot
  <2>1. PICK se, os, h : se = w.sess /\ os = w.sends /\ h = Head(w.sends)
    OBVIOUS
  <2>2. /\ Linked(se, os) /\ 1 \in DOMAIN os /\ h = os[1]
        /\ \A k \in DOMAIN sn : k + 1 \in DOMAIN os /\ sn[k] = os[k + 1] /\ k \in Nat \ {0}
    BY <1>5, <1>6, <2>1, Zenon DEF WorldOK
  <2>3. h.slot # 0 => \A k \in DOMAIN sn : sn[k].slot # h.slot
    BY ONLY <2>2, SMTT(30) DEF Linked
  <2> QED  BY ONLY <2>1, <2>3, Zenon
<1>12. Head(w.sends).slot # 0 => w.sess[Head(w.sends).slot].st # "free"
  BY <1>6, Zenon DEF WorldOK, Linked, Holds
<1>13. Head(w.sends).slot \in {0} \cup Slots
  BY <1>2 DEF SendType
<1>14. ASSUME NEW j, j # First(w), HasSend(w.sends, j)
       PROVE  HasSend(v.sends, j)
  <2>1. PICK k \in DOMAIN w.sends : w.sends[k].slot = j
    BY <1>14, Zenon DEF HasSend
  <2>2. k # 1 /\ k \in 1 .. Len(w.sends)
    BY <1>2, <1>6, <1>14, <2>1, Zenon DEF First
  <2>3. PICK l : l = k - 1
    OBVIOUS
  <2>4. l \in 1 .. Len(w.sends) - 1 /\ l + 1 = k
    BY ONLY <1>2, <2>2, <2>3
  <2>5. l \in DOMAIN sn /\ sn[l] = w.sends[k]
    BY ONLY <1>2, <1>3, <2>4, Zenon
  <2> QED  BY ONLY <1>4, <2>1, <2>5, Zenon DEF HasSend
<1> QED  BY <1>4, <1>10, <1>11, <1>12, <1>13, <1>14, Zenon DEF First, Completion

\* The first send completes.
LEMMA SendDoneStep ==
    ASSUME IInv, send_done
    PROVE  IInv'
<1>1. /\ World \in Worlds /\ World.sess = sess /\ World.sends = sends /\ World.raw = raw
      /\ WorldOK(World, owner, next) /\ sess \in [Slots -> SessionType]
  BY Now, Zenon DEF IInv
<1>2. UNCHANGED <<mode, open, agent, flows, next, owner>> /\ sends # <<>>
  BY DEF send_done
<1>3. PICK w, i : w = Done(World) /\ i = Head(sends).slot
  OBVIOUS
<1>4. /\ WorldOK(w, owner, next) /\ w.sess = sess /\ i \in {0} \cup Slots
      /\ i # 0 => sess[i].st # "free" /\ \A k \in DOMAIN w.sends : w.sends[k].slot # i
      /\ \A j : j # i /\ HasSend(sends, j) => HasSend(w.sends, j)
  <2>1. PICK u : u = World
    OBVIOUS
  <2>2. WorldOK(u, owner, next) /\ u.sends # <<>> /\ w = Done(u)
    BY <1>1, <1>2, <1>3, <2>1
  <2>3. /\ WorldOK(w, owner, next) /\ w.sess = u.sess /\ First(u) \in {0} \cup Slots
        /\ First(u) # 0 => /\ u.sess[First(u)].st # "free"
                          /\ \A k \in DOMAIN w.sends : w.sends[k].slot # First(u)
        /\ \A j : j # First(u) /\ HasSend(u.sends, j) => HasSend(w.sends, j)
    <3>1. Completion(u, w, owner, next)
      BY ONLY <2>2, Completed, Zenon
    <3> QED  BY ONLY <3>1, Zenon DEF Completion
  <2>4. First(u) = i
    BY <1>1, <1>3, <2>1 DEF First
  <2> QED  BY <1>1, <2>1, <2>3, <2>4, Zenon
<1>5. [World EXCEPT !.sends = Tail(@), !.raw = @ - 1] = w /\ w \in Worlds
  BY <1>1, <1>3, <1>4 DEF Done, WithSends, WorldOK, World
<1>6. CASE i = 0
  <2>1. Becomes(w)
    BY <1>3, <1>5, <1>6 DEF send_done
  <2>2. FlowsOK(flows, w.sess, owner, next) /\ SessionsOK(w.sess, agent)
    BY <1>1, <1>4, Zenon DEF IInv
  <2>3. Quiet(w)
    <3>1. \A j \in Slots : /\ Settled(World, j) /\ w.sess[j] = World.sess[j]
                           /\ HasSend(World.sends, j) => HasSend(w.sends, j)
      BY <1>1, <1>4, <1>6, SlotFacts, Zenon DEF IInv, Quiet
    <3> QED  BY ONLY <3>1, Zenon DEF Quiet, Settled, Backed
  <2> QED  BY <1>2, <1>4, <2>1, <2>2, <2>3, StepTo, Zenon DEF IInv
<1>7. CASE i # 0
  <2>1. i \in Slots /\ sess[i] \in Sessions /\ SessionOK(sess[i], owner, next)
    BY <1>4, <1>7, Now, Zenon
  <2>w. w \in Worlds
    BY <1>5
  <2>2. PICK s \in Sessions : /\ s = Idle(sess[i]) /\ Same(s, sess[i]) /\ s.inflight = FALSE
                              /\ s.q = sess[i].q /\ s.wb = sess[i].wb
    BY <2>1, FlagFields, Zenon
  <2>3. /\ \A x \in In(s.q) \cup In(s.wb) : Fits(x, s.peer, owner, next)
        /\ Len(s.q) <= QueueMax /\ s.st = sess[i].st
        /\ s.st = "closing" => s.timer # "armed"
    BY <1>4, <1>7, <2>1, <2>2, Zenon DEF SessionOK, Same
  <2>0. ASSUME NEW t \in SessionType, SessionOK(t, owner, next)
        PROVE  WorldOK(At(w, i, t), owner, next)
    <3>1. \A k \in DOMAIN w.sends :
            w.sends[k].slot = i /\ Holds(w.sess[i], w.sends[k].dst) => Holds(t, w.sends[k].dst)
      BY <1>4, <1>7, Zenon
    <3> QED  BY <1>4, <2>0, <2>1, <3>1, AtOK, Zenon
  <2>4. CASE sess[i].st = "closing"
    <3>1. PICK t \in SessionType : /\ t = session_maybe_free(s) /\ SessionOK(t, owner, next)
                                   /\ t.st # "live" /\ t \in {s, FreeSession}
      BY <2>2, <2>3, <2>4, MaybeFree, Zenon
    <3>2. PICK v : v = At(w, i, t)
      OBVIOUS
    <3>3. Becomes(v)
      <4>1. Becomes([w EXCEPT !.sess[i] = session_maybe_free([@ EXCEPT !.inflight = FALSE])])
        BY <1>3, <1>5, <1>7, <2>4, Zenon DEF send_done
      <4>2. [w EXCEPT !.sess[i] = session_maybe_free([@ EXCEPT !.inflight = FALSE])] = v
        BY <1>4, <1>5, <2>2, <3>1, <3>2 DEF At, Idle
      <4> QED  BY <4>1, <4>2
    <3>4. WorldOK(v, owner, next)
      BY <2>0, <3>1, <3>2
    <3>5. v.sess = [sess EXCEPT ![i] = t]
      <4>1. v.sess = [w.sess EXCEPT ![i] = t]
        <5>1. w \in Worlds /\ i \in Slots /\ t \in SessionType
          BY ONLY <2>w, <2>1, t \in SessionType
        <5>2. At(w, i, t).sess = [w.sess EXCEPT ![i] = t]
          BY ONLY <5>1, AtFields, Zenon
        <5> QED  BY ONLY <3>2, <5>2, Zenon
      <4> QED  BY <1>4, <4>1, Zenon
    <3>6. v.sends = w.sends
      BY ONLY <2>w, <2>1, <3>1, <3>2, t \in SessionType, AtFields, Zenon
    <3>7. Backed(v, i)
      <4>1. v.sess[i] = t
        BY <1>1, <2>1, <3>5, Zenon
      <4>2. FreeSession.st = "free"
        BY DEF FreeSession
      <4> QED  BY ONLY <2>2, <3>1, <4>1, <4>2, Zenon DEF Backed
    <3>8. \A j \in Slots \ {i} : HasSend(sends, j) => HasSend(v.sends, j)
      BY ONLY <1>4, <3>6, Zenon
    <3> QED  BY <1>2, <2>1, <2>4, <3>1, <3>3, <3>4, <3>5, <3>7, <3>8, DeadStep, Zenon
  <2>5. CASE sess[i].st # "closing"
    <3>0. sess[i].st = "live" /\ s \in SessionType
      BY <1>4, <1>7, <2>1, <2>5 DEF Sessions, SessionType
    <3>1. PICK z : z = At(w, i, s)
      OBVIOUS
    <3>2. PICK v \in pump_out(z, i) : Becomes(v)
      <4>1. \E v \in pump_out([w EXCEPT !.sess[i].inflight = FALSE], i) : Becomes(v)
        BY <1>3, <1>5, <1>7, <2>5, Zenon DEF send_done
      <4>2. [w EXCEPT !.sess[i].inflight = FALSE] = z
        BY <1>4, <1>5, <2>2, <3>1 DEF At, Idle
      <4> QED  BY <4>1, <4>2, Zenon
    <3>3. SessionOK(s, owner, next)
      BY <2>3, <2>5 DEF SessionOK
    <3>4. WorldOK(z, owner, next)
      BY <2>0, <3>0, <3>1, <3>3
    <3>5. z.sess = [sess EXCEPT ![i] = s]
      <4>1. z.sess = [w.sess EXCEPT ![i] = s]
        <5>1. w \in Worlds /\ i \in Slots /\ s \in SessionType
          BY ONLY <2>w, <2>1, <3>0
        <5>2. At(w, i, s).sess = [w.sess EXCEPT ![i] = s]
          BY ONLY <5>1, AtFields, Zenon
        <5> QED  BY ONLY <3>1, <5>2
      <4> QED  BY <1>4, <4>1
    <3>6. Moved(World, z, i) /\ Backed(z, i)
      <4>1. z.sends = w.sends
        BY ONLY <2>w, <2>1, <3>0, <3>1, AtFields, Zenon
      <4>2. z.sess[i] = s /\ \A j \in Slots \ {i} : z.sess[j] = sess[j]
        BY <1>1, <2>1, <3>5, Zenon
      <4>3. \A j \in Slots \ {i} : HasSend(sends, j) => HasSend(z.sends, j)
        BY ONLY <1>4, <4>1, Zenon
      <4> QED  BY ONLY <1>1, <2>2, <4>2, <4>3, Zenon DEF Moved, Backed
    <3>7. WorldOK(v, owner, next) /\ Moved(z, v, i) /\ Settled(v, i)
      BY <2>1, <3>2, <3>4, <3>6, PumpOut, Zenon
    <3>8. Moved(World, v, i)
      BY <3>6, <3>7, MovedTwice
    <3> QED  BY <1>2, <2>1, <3>2, <3>7, <3>8, SendStep, Zenon
  <2> QED  BY <2>4, <2>5
<1> QED  BY <1>6, <1>7

----------------------------------------------------------------------------
(* Sessions that begin *)

\* A new session.
LEMMA NewFacts ==
    ASSUME NEW o, NEW n, NEW a \in Addrs
    PROVE  /\ NewSession(a) \in Sessions /\ SessionOK(NewSession(a), o, n) /\ Calm(NewSession(a))
           /\ NewSession(a).st = "live" /\ NewSession(a).peer = a /\ NewSession(a).role = "none"
           /\ NewSession(a).timer = "armed" /\ NewSession(a).inflight = FALSE
<1>1. <<>> \in Seq(Items) /\ In(<<>>) = {} /\ Len(<<>>) <= QueueMax
  BY BrokerUdpAssumption DEF In
<1>2. /\ NewSession(a) \in Sessions /\ NewSession(a).st = "live" /\ NewSession(a).peer = a
      /\ NewSession(a).role = "none" /\ NewSession(a).timer = "armed"
      /\ NewSession(a).q = <<>> /\ NewSession(a).wb = <<>> /\ NewSession(a).inflight = FALSE
  BY <1>1 DEF NewSession, Sessions
<1> QED  BY <1>1, <1>2, Zenon DEF SessionOK, Calm

\* A session is made for an address that has none.
LEMMA CreateStep ==
    ASSUME IInv, NEW a \in DtlsAddrs, session_create(a)
    PROVE  IInv'
<1>1. PICK i \in Slots, f \in {0, 1} :
        /\ sess[i].st = "free"
        /\ \E v \in pump_out(WithFlight([World EXCEPT !.sess[i] = NewSession(a)], i, f), i) : Becomes(v)
  BY Zenon DEF session_create
<1>2. /\ World \in Worlds /\ World.sess = sess /\ WorldOK(World, owner, next)
      /\ sess \in [Slots -> SessionType] /\ FlowsOK(flows, sess, owner, next)
      /\ SessionsOK(sess, agent) /\ \A j \in Slots : Settled(World, j)
      /\ UNCHANGED <<mode, open, agent, flows, next, owner>> /\ SessionsOf(a) = {}
  BY Now DEF IInv, session_create
<1>3. PICK t \in Sessions :
        /\ t = NewSession(a) /\ SessionOK(t, owner, next) /\ Calm(t) /\ t.inflight = FALSE
        /\ t.st = "live" /\ t.peer = a /\ t.role = "none" /\ t.timer = "armed"
  <2>1. a \in Addrs
    BY BrokerUdpAssumption
  <2> QED  BY ONLY <2>1, NewFacts, Zenon
<1>4. PICK z : z = At(World, i, t)
  OBVIOUS
<1>5. t \in SessionType
  BY DEF SessionType
<1>6. WorldOK(z, owner, next)
  BY <1>1, <1>2, <1>3, <1>4, <1>5, AtOK DEF Holds
<1>7. z.sess = [sess EXCEPT ![i] = t] /\ z.sends = World.sends
  <2>1. PICK w \in Worlds : w = World
    BY <1>2, Zenon
  <2>2. At(w, i, t).sess = [w.sess EXCEPT ![i] = t] /\ At(w, i, t).sends = w.sends
    BY ONLY w \in Worlds, i \in Slots, <1>5, AtFields, Zenon
  <2> QED  BY <1>2, <1>4, <2>1, <2>2, Zenon
<1>8. \A j \in Slots : z.sess[j] = IF j = i THEN t ELSE sess[j]
  BY <1>2, <1>7, Zenon
<1>9. FlowsOK(flows, z.sess, owner, next)
  <2>1. \A g \in flows : g.slot # 0 => g.slot \in Slots /\ sess[g.slot].st = "live"
    BY <1>2, Zenon DEF FlowsOK, FlowOK, FlowType
  <2>2. \A g \in flows : g.slot # 0 => z.sess[g.slot] = sess[g.slot]
    BY <1>1, <1>8, <2>1
  <2>3. PICK tt : tt = z.sess
    OBVIOUS
  <2> QED  BY <1>2, <2>2, <2>3, LiveTables, Zenon
<1>10. SessionsOK(z.sess, agent) /\ Quiet(z)
  <2>1. \A j \in Slots : sess[j].st = "live" => sess[j].peer # a
    BY <1>2, Zenon DEF SessionsOf, LiveSess
  <2>2. \A j, k \in Slots :
          z.sess[j].st = "live" /\ z.sess[k].st = "live" /\ z.sess[j].peer = z.sess[k].peer => j = k
    <3>1. \A j \in Slots : \/ j = i /\ z.sess[j].peer = a
                           \/ j # i /\ z.sess[j] = sess[j]
      BY ONLY <1>3, <1>8, Zenon
    <3>2. \A j, k \in Slots :
            sess[j].st = "live" /\ sess[k].st = "live" /\ sess[j].peer = sess[k].peer => j = k
      BY ONLY <1>2, Zenon DEF SessionsOK
    <3> QED  BY ONLY <2>1, <3>1, <3>2, Zenon
  <2>3. \A j \in Slots : z.sess[j].st = "live" /\ z.sess[j].role = "agent" <=> agent = j
    <3>1. \A j \in Slots : \/ j = i /\ z.sess[j].role # "agent" /\ sess[j].st # "live"
                           \/ j # i /\ z.sess[j] = sess[j]
      <4>1. t.role # "agent" /\ sess[i].st # "live"
        BY ONLY <1>1, <1>3
      <4> QED  BY ONLY <1>8, <4>1, Zenon
    <3>2. \A j \in Slots : sess[j].st = "live" /\ sess[j].role = "agent" <=> agent = j
      BY ONLY <1>2, Zenon DEF SessionsOK
    <3> QED  BY ONLY <3>1, <3>2, Zenon
  <2>4. \A j \in Slots : z.sess[j].st = "live" => z.sess[j].timer = "armed"
    <3>1. \A j \in Slots : z.sess[j].timer = "armed" \/ z.sess[j] = sess[j]
      BY ONLY <1>3, <1>8, Zenon
    <3>2. \A j \in Slots : sess[j].st = "live" => sess[j].timer = "armed"
      BY ONLY <1>2, Zenon DEF SessionsOK
    <3> QED  BY ONLY <3>1, <3>2, Zenon
  <2>5. Settled(z, i)
    BY ONLY <1>3, <1>8, i \in Slots, Zenon DEF Settled, Backed
  <2>6. \A j \in Slots \ {i} : Settled(z, j)
    <3>1. \A j \in Slots \ {i} : z.sess[j] = World.sess[j] /\ Settled(World, j)
      BY ONLY <1>2, <1>8, Zenon
    <3> QED  BY ONLY <1>7, <3>1, Zenon DEF Settled, Backed
  <2> QED  BY <2>2, <2>3, <2>4, <2>5, <2>6, Zenon DEF SessionsOK, Quiet
<1>11. PICK y : y = WithFlight(z, i, f)
  OBVIOUS
<1>12. PICK v \in pump_out(y, i) : Becomes(v)
  BY <1>1, <1>3, <1>4, <1>11 DEF At
<1>13. WorldOK(y, owner, next) /\ Moved(z, y, i) /\ Backed(y, i)
  <2>1. Backed(z, i) /\ z.sess[i].st = "live"
    BY <1>3, <1>8, <1>10, Zenon DEF Quiet, Settled
  <2> QED  BY <1>6, <1>11, <2>1, FlightWaits, Zenon
<1>14. WorldOK(v, owner, next) /\ Moved(y, v, i) /\ Settled(v, i)
  BY <1>12, <1>13, PumpOut
<1>15. Moved(z, v, i)
  BY <1>13, <1>14, MovedTwice
<1> QED  BY <1>2, <1>9, <1>10, <1>12, <1>14, <1>15, SendAfter, Zenon DEF IInv

----------------------------------------------------------------------------
(* Authentication *)

WithRole(s, r) == [s EXCEPT !.role = r]
Roled(w, i, r) == At(w, i, WithRole(w.sess[i], r))

\* The fields of a session that took a role.
LEMMA RoleFields ==
    ASSUME NEW s \in Sessions, NEW r \in {"agent", "peer"}
    PROVE  /\ WithRole(s, r) \in Sessions /\ WithRole(s, r).role = r /\ WithRole(s, r).st = s.st
           /\ WithRole(s, r).peer = s.peer /\ WithRole(s, r).timer = s.timer
           /\ WithRole(s, r).q = s.q /\ WithRole(s, r).wb = s.wb
           /\ WithRole(s, r).inflight = s.inflight /\ WithRole(s, r).want = s.want
           /\ WithRole(s, r).dropped = s.dropped
  BY DEF WithRole, Sessions

\* A session that had no role takes one: the world stays sound, no flow is of
\* the session yet, and it is the agent's if nothing else is.
LEMMA RoleTaken ==
    ASSUME NEW o, NEW n, NEW w, WorldOK(w, o, n), NEW i \in Slots, NEW r \in {"agent", "peer"},
           w.sess[i].st = "live", w.sess[i].role = "none",
           Quiet(w), NEW fl, FlowsOK(fl, w.sess, o, n), NEW ag, SessionsOK(w.sess, ag)
    PROVE  /\ WorldOK(Roled(w, i, r), o, n) /\ Quiet(Roled(w, i, r))
           /\ FlowsOK(fl, Roled(w, i, r).sess, o, n)
           /\ r = "peer" => SessionsOK(Roled(w, i, r).sess, ag)
           /\ r = "agent" /\ ag = 0 => SessionsOK(Roled(w, i, r).sess, i)
<1> PICK z : z = Roled(w, i, r)
  BY Zenon
<1>1. /\ w \in Worlds /\ w.sess \in [Slots -> SessionType] /\ SessionOK(w.sess[i], o, n)
      /\ w.sess[i] \in Sessions
  <2>1. w \in Worlds /\ w.sess \in [Slots -> SessionType] /\ SessionOK(w.sess[i], o, n)
    BY Zenon DEF WorldOK, Worlds
  <2> QED  BY <2>1, SlotFacts, Zenon
<1>2. PICK t \in Sessions :
        /\ t = WithRole(w.sess[i], r) /\ t.role = r /\ t.st = "live" /\ t.peer = w.sess[i].peer
        /\ t.timer = w.sess[i].timer /\ t.q = w.sess[i].q /\ t.wb = w.sess[i].wb
        /\ t.inflight = w.sess[i].inflight /\ t.want = w.sess[i].want
        /\ t.dropped = w.sess[i].dropped
  <2>1. PICK s \in Sessions : s = w.sess[i]
    BY <1>1, Zenon
  <2>2. /\ WithRole(s, r) \in Sessions /\ WithRole(s, r).role = r /\ WithRole(s, r).st = s.st
        /\ WithRole(s, r).peer = s.peer /\ WithRole(s, r).timer = s.timer
        /\ WithRole(s, r).q = s.q /\ WithRole(s, r).wb = s.wb
        /\ WithRole(s, r).inflight = s.inflight /\ WithRole(s, r).want = s.want
        /\ WithRole(s, r).dropped = s.dropped
    BY ONLY s \in Sessions, r \in {"agent", "peer"}, RoleFields, Zenon
  <2> QED  BY ONLY <2>1, <2>2, w.sess[i].st = "live", Zenon
<1>3. z = At(w, i, t) /\ t \in SessionType
  BY <1>2, Zenon DEF SessionType, Roled
<1>4. WorldOK(z, o, n)
  <2>1. SessionOK(t, o, n)
    BY <1>1, <1>2, Zenon DEF SessionOK
  <2>2. \A k \in DOMAIN w.sends :
          w.sends[k].slot = i /\ Holds(w.sess[i], w.sends[k].dst) => Holds(t, w.sends[k].dst)
    BY <1>2, Zenon DEF Holds
  <2> QED  BY <1>3, <2>1, <2>2, AtOK, Zenon
<1>5. z.sess = [w.sess EXCEPT ![i] = t] /\ z.sends = w.sends
  <2>1. w \in Worlds /\ t \in SessionType
    BY ONLY <1>1, <1>3, Zenon
  <2>2. At(w, i, t).sess = [w.sess EXCEPT ![i] = t] /\ At(w, i, t).sends = w.sends
    BY ONLY <2>1, i \in Slots, AtFields, Zenon
  <2> QED  BY ONLY <1>3, <2>2, Zenon
<1>6. \A j \in Slots : z.sess[j] = IF j = i THEN t ELSE w.sess[j]
  BY <1>1, <1>5, Zenon
<1>7. Quiet(z)
  <2>1. \A j \in Slots \ {i} : Settled(w, j) /\ z.sess[j] = w.sess[j]
    BY <1>6, Zenon DEF Quiet
  <2>2. \A j \in Slots \ {i} : Settled(z, j)
    BY ONLY <1>5, <2>1, Zenon DEF Settled, Backed
  <2>3. Settled(w, i) /\ z.sess[i] = t /\ w.sess[i].st = "live"
    BY <1>6, Zenon DEF Quiet
  <2>4. Calm(t)
    BY ONLY <1>2, <2>3, Zenon DEF Settled, Calm
  <2>5. Backed(z, i)
    <3>1. w.sess[i].st # "free" /\ Backed(w, i)
      BY ONLY <2>3 DEF Settled
    <3> QED  BY ONLY <1>2, <1>5, <2>3, <3>1, Zenon DEF Backed
  <2> QED  BY ONLY <2>2, <2>3, <2>4, <2>5, Zenon DEF Quiet, Settled
<1>8. FlowsOK(fl, z.sess, o, n)
  <2>1. \A f \in fl : f.slot # 0 => f.slot \in Slots /\ w.sess[f.slot].role = "peer"
    BY Zenon DEF FlowsOK, FlowOK, FlowType
  <2>2. \A f \in fl : f.slot # 0 => z.sess[f.slot] = w.sess[f.slot]
    BY <1>6, <2>1, Zenon
  <2>3. PICK se, tt : se = w.sess /\ tt = z.sess
    OBVIOUS
  <2> QED  BY <2>2, <2>3, LiveTables, Zenon
<1>9. \A j \in Slots : /\ z.sess[j].st = "live" <=> w.sess[j].st = "live"
                       /\ z.sess[j].peer = w.sess[j].peer /\ z.sess[j].timer = w.sess[j].timer
                       /\ z.sess[j].role = IF j = i THEN r ELSE w.sess[j].role
  BY <1>2, <1>6, Zenon
<1>a. PICK se, tt : se = w.sess /\ tt = z.sess
  OBVIOUS
<1>b. /\ SessionsOK(se, ag)
      /\ \A j \in Slots : /\ tt[j].st = "live" <=> se[j].st = "live"
                          /\ tt[j].peer = se[j].peer /\ tt[j].timer = se[j].timer
                          /\ tt[j].role = IF j = i THEN r ELSE se[j].role
      /\ se[i].st = "live" /\ se[i].role = "none"
  BY <1>9, <1>a, Zenon
<1>10. r = "peer" => SessionsOK(z.sess, ag)
  <2> HAVE r = "peer"
  <2>1. SessionsOK(tt, ag)
    BY ONLY r = "peer", <1>b, SMTT(30) DEF SessionsOK
  <2> QED  BY ONLY <1>a, <2>1, Zenon
<1>11. r = "agent" /\ ag = 0 => SessionsOK(z.sess, i)
  <2> HAVE r = "agent" /\ ag = 0
  <2>1. \A j \in Slots : ~(se[j].st = "live" /\ se[j].role = "agent")
    <3>1. ag = 0 /\ \A j \in Slots : j # 0
      BY SlotFacts, Zenon
    <3>2. \A j \in Slots : se[j].st = "live" /\ se[j].role = "agent" <=> ag = j
      BY ONLY <1>b, Zenon DEF SessionsOK
    <3> QED  BY ONLY <3>1, <3>2, Zenon
  <2>2. /\ \A j, k \in Slots : tt[j].st = "live" /\ tt[k].st = "live" /\ tt[j].peer = tt[k].peer => j = k
        /\ \A j \in Slots : tt[j].st = "live" => tt[j].timer = "armed"
    <3>1. /\ \A j, k \in Slots : se[j].st = "live" /\ se[k].st = "live" /\ se[j].peer = se[k].peer => j = k
          /\ \A j \in Slots : se[j].st = "live" => se[j].timer = "armed"
      BY ONLY <1>b, Zenon DEF SessionsOK
    <3>2. \A j \in Slots : /\ tt[j].st = "live" => se[j].st = "live"
                            /\ tt[j].peer = se[j].peer /\ tt[j].timer = se[j].timer
      BY ONLY <1>b, Zenon
    <3> QED  BY ONLY <3>1, <3>2
  <2>3. \A j \in Slots : tt[j].st = "live" /\ tt[j].role = "agent" <=> i = j
    <3> TAKE j \in Slots
    <3>1. CASE j = i
      BY ONLY <1>b, <3>1, r = "agent", j \in Slots, Zenon
    <3>2. CASE j # i
      BY ONLY <1>b, <2>1, <3>2, j \in Slots, Zenon
    <3> QED  BY ONLY <3>1, <3>2, Zenon
  <2> QED  BY ONLY <1>a, <2>2, <2>3, Zenon DEF SessionsOK
<1> QED  BY <1>4, <1>7, <1>8, <1>10, <1>11, Zenon

\* A peer authenticates.
LEMMA PeerStep ==
    ASSUME IInv, NEW i \in Slots, PeerAuthed(i)
    PROVE  IInv'
<1>1. /\ World \in Worlds /\ World.sess = sess /\ WorldOK(World, owner, next) /\ Quiet(World)
      /\ sess[i].st = "live" /\ sess[i].role = "none"
      /\ FlowsOK(flows, World.sess, owner, next) /\ SessionsOK(World.sess, agent)
      /\ UNCHANGED <<mode, open, agent, flows, next, owner>>
  BY Now DEF IInv, PeerAuthed, LiveSess
<1>2. PICK w : w = World
  OBVIOUS
<1>3. PICK z : z = Roled(w, i, "peer")
  OBVIOUS
<1>4. [World EXCEPT !.sess[i].role = "peer"] = z
  BY <1>1, <1>2, <1>3 DEF At, WithRole, Roled
<1>5. ThenPump(session_queue(z, i, Ctl), i)
  BY <1>4, Zenon DEF PeerAuthed
<1>6. /\ WorldOK(z, owner, next) /\ Quiet(z) /\ FlowsOK(flows, z.sess, owner, next)
      /\ SessionsOK(z.sess, agent)
  <2>1. /\ WorldOK(w, owner, next) /\ Quiet(w) /\ w.sess[i].st = "live" /\ w.sess[i].role = "none"
        /\ FlowsOK(flows, w.sess, owner, next) /\ SessionsOK(w.sess, agent)
    BY <1>1, <1>2, Zenon
  <2>2. PICK r \in {"agent", "peer"} : r = "peer"
    OBVIOUS
  <2>3. /\ WorldOK(Roled(w, i, r), owner, next) /\ Quiet(Roled(w, i, r))
        /\ FlowsOK(flows, Roled(w, i, r).sess, owner, next)
        /\ r = "peer" => SessionsOK(Roled(w, i, r).sess, agent)
    BY ONLY <2>1, i \in Slots, r \in {"agent", "peer"}, RoleTaken, Zenon
  <2> QED  BY ONLY <1>3, <2>2, <2>3, Zenon
<1>7. /\ FlowsOK(flows', z.sess, owner, next) /\ SessionsOK(z.sess, agent')
      /\ agent' \in {0} \cup Slots
  BY <1>1, <1>6, Zenon DEF IInv
<1> QED  BY <1>1, <1>5, <1>6, <1>7, AnswerStep, Zenon

\* Closing the session of the agent, if there is one, is closing the sessions of
\* a set of at most one.
LEMMA ReplacedIs ==
    ASSUME NEW u \in Worlds, NEW ag \in {0} \cup Slots
    PROVE  CloseSlots(u, {ag} \cap Slots) =
             IF ag = 0 THEN u ELSE [u EXCEPT !.sess[ag] = ClosingSession(@)]
<1>1. u.sess \in [Slots -> SessionType]
  BY DEF Worlds
<1>2. PICK se : se = [i \in Slots |-> IF i \in {ag} \cap Slots THEN ClosingSession(u.sess[i]) ELSE u.sess[i]]
  BY Zenon
<1>3. CloseSlots(u, {ag} \cap Slots) = WithSess(u, se)
  BY <1>2, Zenon DEF CloseSlots, WithSess
<1>4. CASE ag = 0
  <2>1. se = u.sess
    BY <1>1, <1>2, <1>4, SlotFacts
  <2>2. WithSess(u, u.sess) = u
    BY DEF WithSess, Worlds
  <2> QED  BY <1>3, <1>4, <2>1, <2>2, Zenon
<1>5. CASE ag # 0
  <2>1. se = [u.sess EXCEPT ![ag] = ClosingSession(u.sess[ag])]
    BY <1>1, <1>2, <1>5
  <2>2. [u EXCEPT !.sess[ag] = ClosingSession(@)] = At(u, ag, ClosingSession(u.sess[ag]))
    BY Zenon DEF At
  <2>3. At(u, ag, ClosingSession(u.sess[ag])) = WithSess(u, se)
    BY <2>1, SessAt, Zenon
  <2> QED  BY <1>3, <1>5, <2>2, <2>3, Zenon
<1> QED  BY <1>4, <1>5

\* The agent authenticates, and its session takes the place of the one before.
LEMMA AgentStep ==
    ASSUME IInv, NEW i \in Slots, AgentAuthed(i)
    PROVE  IInv'
<1>1. /\ World \in Worlds /\ World.sess = sess /\ WorldOK(World, owner, next) /\ Quiet(World)
      /\ sess[i].st = "live" /\ sess[i].role = "none"
      /\ FlowsOK(flows, World.sess, owner, next) /\ SessionsOK(World.sess, agent)
      /\ agent' = i /\ UNCHANGED <<mode, open, next, owner>> /\ agent \in {0} \cup Slots
  BY Now DEF IInv, AgentAuthed, LiveSess
<1>2. PICK u, I, bg : u = World /\ I = {agent} \cap Slots /\ bg = 0
  BY Zenon
<1>3. /\ u \in Worlds /\ WorldOK(u, owner, next) /\ Quiet(u)
      /\ FlowsOK(flows, u.sess, owner, next) /\ SessionsOK(u.sess, agent)
      /\ \A j \in I \cap Slots : u.sess[j].st # "free"
      /\ bg = IF agent \in I THEN 0 ELSE agent
  <2>1. \A j \in I \cap Slots : j = agent /\ u.sess[j].st # "free"
    BY <1>1, <1>2, Zenon DEF SessionsOK
  <2> QED  BY <1>1, <1>2, <2>1, Zenon
<1>4. PICK w : w = CloseSlots(u, I)
  OBVIOUS
<1>5. WorldOK(w, owner, next) /\ Quiet(w)
  BY <1>3, <1>4, Closing, Zenon
<1>6. FlowsOK({f \in flows : f.slot \notin I}, w.sess, owner, next) /\ SessionsOK(w.sess, bg)
  BY ONLY <1>3, <1>4, ClosedTables, Zenon
<1>7. flows' = {f \in flows : f.slot \notin I}
  BY <1>2 DEF AgentAuthed, FlowsWithout
<1>8. i \notin I /\ w.sess[i] = sess[i] /\ w \in Worlds
  <2>1. i # agent
    BY <1>1, Zenon DEF SessionsOK
  <2>2. \A j \in I \cap Slots : u.sess[j] \in Sessions
    <3>1. \A j \in Slots : u.sess[j] \in SessionType
      BY <1>3 DEF Worlds
    <3> QED  BY <1>3, <3>1, SlotFacts, Zenon
  <2>3. \A j \in Slots : w.sess[j] = IF j \in I THEN ClosingSession(u.sess[j]) ELSE u.sess[j]
    <3>1. u \in Worlds /\ \A j \in I \cap Slots : u.sess[j] \in Sessions
      BY ONLY <1>3, <2>2, Zenon
    <3>2. \A j \in Slots :
            CloseSlots(u, I).sess[j] = IF j \in I THEN ClosingSession(u.sess[j]) ELSE u.sess[j]
      BY ONLY <3>1, CloseFields
    <3> QED  BY ONLY <1>4, <3>2, Zenon
  <2>4. w \in Worlds
    BY ONLY <1>5, Zenon DEF WorldOK
  <2>5. i \notin I /\ u.sess = sess
    BY ONLY <1>1, <1>2, <2>1, Zenon
  <2> QED  BY ONLY <2>3, <2>4, <2>5, i \in Slots, Zenon
<1>9. PICK z : z = Roled(w, i, "agent")
  OBVIOUS
<1>10. ThenPump(session_queue(z, i, Ctl), i)
  <2>1. PICK y : y = IF agent = 0 THEN World ELSE [World EXCEPT !.sess[agent] = ClosingSession(@)]
    BY Zenon
  <2>2. ThenPump(session_queue([y EXCEPT !.sess[i].role = "agent"], i, Ctl), i)
    BY <2>1, Zenon DEF AgentAuthed
  <2>3. y = w
    BY <1>1, <1>2, <1>4, <2>1, ReplacedIs, Zenon
  <2>4. [w EXCEPT !.sess[i].role = "agent"] = z
    BY <1>9 DEF At, WithRole, Roled
  <2> QED  BY <2>2, <2>3, <2>4, Zenon
<1>11. /\ WorldOK(z, owner, next) /\ Quiet(z) /\ FlowsOK(flows', z.sess, owner, next)
       /\ SessionsOK(z.sess, i)
  <2>1. PICK gl : gl = flows'
    OBVIOUS
  <2>2. /\ w.sess[i].st = "live" /\ w.sess[i].role = "none"
        /\ FlowsOK(gl, w.sess, owner, next) /\ SessionsOK(w.sess, 0)
    BY <1>1, <1>2, <1>6, <1>7, <1>8, <2>1, Zenon
  <2>3. /\ WorldOK(z, owner, next) /\ Quiet(z) /\ FlowsOK(gl, z.sess, owner, next)
        /\ SessionsOK(z.sess, i)
    <3>1. PICK r, ag : r \in {"agent", "peer"} /\ r = "agent" /\ ag = 0
      OBVIOUS
    <3>2. r \in {"agent", "peer"} /\ SessionsOK(w.sess, ag)
      BY ONLY <2>2, <3>1, Zenon
    <3>3. /\ WorldOK(Roled(w, i, r), owner, next) /\ Quiet(Roled(w, i, r))
          /\ FlowsOK(gl, Roled(w, i, r).sess, owner, next)
          /\ r = "agent" /\ ag = 0 => SessionsOK(Roled(w, i, r).sess, i)
      BY ONLY <1>5, <2>2, <3>2, i \in Slots, RoleTaken, Zenon
    <3> QED  BY ONLY <1>9, <3>1, <3>3, Zenon
  <2> QED  BY <2>1, <2>3
<1> QED  BY <1>1, <1>10, <1>11, AnswerStep, Zenon

----------------------------------------------------------------------------
(* Flows *)

WithUsed(f) == [f EXCEPT !.used = TRUE]

\* Another set of flows with the keys of the first, but for one that is marked.
LEMMA TouchedOK ==
    ASSUME NEW fl, NEW se, NEW o, NEW n, FlowsOK(fl, se, o, n), NEW f \in fl,
           NEW gl, gl = (fl \ {f}) \cup {WithUsed(f)}
    PROVE  FlowsOK(gl, se, o, n)
<1>1. fl \subseteq FlowType /\ FlowOK(f, se, o, n)
  BY DEF FlowsOK
<1>2. PICK g \in FlowType : /\ g = WithUsed(f) /\ g.id = f.id /\ g.slot = f.slot /\ g.sf = f.sf
                            /\ g.src = f.src
  <2>1. f \in FlowType
    BY <1>1
  <2>2. /\ WithUsed(f) \in FlowType /\ WithUsed(f).id = f.id /\ WithUsed(f).slot = f.slot
        /\ WithUsed(f).sf = f.sf /\ WithUsed(f).src = f.src
    BY <2>1, Zenon DEF FlowType, WithUsed
  <2> QED  BY <2>2
<1>3. FlowOK(g, se, o, n)
  BY <1>1, <1>2, Zenon DEF FlowOK
<1>4. \A h \in fl \ {f} : h.id # g.id /\ <<h.slot, h.src, h.sf>> # <<g.slot, g.src, g.sf>>
  BY <1>2 DEF FlowsOK
<1>7. gl \subseteq FlowType /\ \A h \in gl : FlowOK(h, se, o, n)
  BY <1>1, <1>2, <1>3 DEF FlowsOK
<1>8. \A h, k \in gl : h.id = k.id \/ <<h.slot, h.src, h.sf>> = <<k.slot, k.src, k.sf>> => h = k
  BY <1>2, <1>4 DEF FlowsOK
<1> QED  BY <1>7, <1>8 DEF FlowsOK

\* The owners once the next id is given out.
Given(o, n, z) == [o EXCEPT ![n] = z]

\* What fits goes on fitting when an id is given out that none had before.
LEMMA FitsOn ==
    ASSUME NEW o \in [1 .. MaxFlowId -> Owners \cup {NoOwner}], NEW n \in 1 .. MaxFlowId, NEW z \in Owners,
           NEW x, NEW d, Fits(x, d, o, n), NEW p, p = Given(o, n, z), NEW m, m = n + 1
    PROVE  Fits(x, d, p, m)
<1>1. x.k = "req" => x.id \in 1 .. MaxFlowId
  BY DEF Fits, Items
<1>2. x.k = "req" => x.id # n /\ x.id < m
  BY <1>1 DEF Fits
<1>3. x.k = "req" => p[x.id] = o[x.id]
  <2>1. \A k \in 1 .. MaxFlowId : k # n => p[k] = o[k]
    BY SMT DEF Given
  <2> QED  BY <1>1, <1>2, <2>1
<1> QED  BY <1>2, <1>3 DEF Fits

\* So does a world.
LEMMA WorldOn ==
    ASSUME NEW o \in [1 .. MaxFlowId -> Owners \cup {NoOwner}], NEW n \in 1 .. MaxFlowId, NEW z \in Owners,
           NEW w, WorldOK(w, o, n), NEW p, p = Given(o, n, z), NEW m, m = n + 1
    PROVE  WorldOK(w, p, m)
<1>1. \A x, d : Fits(x, d, o, n) => Fits(x, d, p, m)
  BY FitsOn
<1>2. \A i \in Slots : SessionOK(w.sess[i], p, m)
  BY <1>1, Zenon DEF WorldOK, SessionOK
<1> QED  BY <1>1, <1>2 DEF WorldOK

\* A new flow of a source that had none.
LEMMA NewFlow ==
    ASSUME NEW o \in [1 .. MaxFlowId -> Owners \cup {NoOwner}], NEW n \in 1 .. MaxFlowId,
           NEW fl, NEW se, FlowsOK(fl, se, o, n),
           NEW f \in FlowType, f.id = n, \A g \in fl : <<g.slot, g.src, g.sf>> # <<f.slot, f.src, f.sf>>,
           f.slot = 0 => f.sf = 0,
           f.slot # 0 => se[f.slot].st = "live" /\ se[f.slot].role = "peer" /\ se[f.slot].peer = f.src,
           NEW p, p = Given(o, n, <<f.src, f.sf>>), NEW m, m = n + 1
    PROVE  FlowsOK(fl \cup {f}, se, p, m)
<1>1. fl \subseteq FlowType /\ \A g \in fl : FlowOK(g, se, o, n)
  BY Zenon DEF FlowsOK
<1>2. PICK z \in Owners : z = <<f.src, f.sf>>
  BY DEF FlowType, Owners
<1>3. p[n] = z /\ \A k \in 1 .. MaxFlowId : k # n => p[k] = o[k]
  <2>1. p = Given(o, n, z)
    BY <1>2, Zenon
  <2> QED  BY ONLY <2>1, o \in [1 .. MaxFlowId -> Owners \cup {NoOwner}], n \in 1 .. MaxFlowId DEF Given
<1>4. \A g \in fl : g.id \in 1 .. MaxFlowId /\ g.id # n /\ g.id < m
  <2>1. \A g \in fl : g.id \in 1 .. MaxFlowId /\ g.id < n
    BY ONLY <1>1, Zenon DEF FlowOK, FlowType
  <2> QED  BY ONLY <2>1, m = n + 1, n \in 1 .. MaxFlowId
<1>5. \A g \in fl : FlowOK(g, se, p, m)
  <2> SUFFICES ASSUME NEW g \in fl PROVE FlowOK(g, se, p, m)
    BY Zenon
  <2>1. p[g.id] = o[g.id] /\ g.id < m /\ FlowOK(g, se, o, n)
    BY ONLY <1>1, <1>3, <1>4, g \in fl, Zenon
  <2> QED  BY ONLY <2>1, Zenon DEF FlowOK
<1>6. FlowOK(f, se, p, m)
  <2>1. p[f.id] = <<f.src, f.sf>> /\ f.id < m
    <3>1. n < m
      BY ONLY n \in 1 .. MaxFlowId, m = n + 1, BrokerUdpAssumption
    <3> QED  BY ONLY <1>2, <1>3, <3>1, f.id = n
  <2>2. /\ f.slot = 0 => f.sf = 0
        /\ f.slot # 0 => se[f.slot].st = "live" /\ se[f.slot].role = "peer" /\ se[f.slot].peer = f.src
    BY Zenon
  <2> QED  BY ONLY <2>1, <2>2, Zenon DEF FlowOK
<1>8. \A g, h \in fl \cup {f} :
        g.id = h.id \/ <<g.slot, g.src, g.sf>> = <<h.slot, h.src, h.sf>> => g = h
  BY <1>4, Zenon DEF FlowsOK
<1> QED  BY <1>1, <1>5, <1>6, <1>8, Zenon DEF FlowsOK

\* A flow expires.
LEMMA IdleStep ==
    ASSUME IInv, NEW f \in flows, flow_idle_cb(f)
    PROVE  IInv'
<1>1. flows' \subseteq flows /\ UNCHANGED <<mode, open, sess, agent, next, owner, sends, raw>>
  BY DEF flow_idle_cb
<1>2. PICK v : v = World
  OBVIOUS
<1>3. FlowsOK(flows', v.sess, owner, next)
  <2>1. PICK gl, se : gl = flows' /\ se = v.sess
    OBVIOUS
  <2>2. FlowsOK(flows, se, owner, next) /\ gl \subseteq flows
    BY <1>1, <1>2, <2>1 DEF IInv
  <2> QED  BY <2>1, <2>2, FewerFlows
<1>4. Becomes(v)
  BY <1>1, <1>2 DEF Becomes, World
<1>5. WorldOK(v, owner, next) /\ Quiet(v) /\ SessionsOK(v.sess, agent)
  BY <1>2 DEF IInv
<1> QED  BY <1>1, <1>3, <1>4, <1>5, StepTo, Zenon DEF IInv

\* A request may go to the agent under the id its source was given.
LEMMA RequestFits ==
    ASSUME NEW o, NEW n, NEW id \in 1 .. MaxFlowId, id < n, NEW own \in Owners, own = o[id], NEW d
    PROVE  Item("req", id, own) \in Items /\ Fits(Item("req", id, own), d, o, n)
  BY DEF Item, Items, Fits

\* A reply may go to the address and the flow id that own it.
LEMMA ReplyFits ==
    ASSUME NEW o, NEW n, NEW d \in Addrs, NEW sf \in {0} \cup PeerFlows
    PROVE  Item("rep", sf, <<d, sf>>) \in Items /\ Fits(Item("rep", sf, <<d, sf>>), d, o, n)
  BY Zenon DEF Item, Items, Fits, Owners

\* A step that forwards to the agent, after it settled the flow and its owner, and
\* pumps out the session of the record (c) behind it.
LEMMA ForwardStep ==
    ASSUME IInv, WorldOK(World, owner', next'), FlowsOK(flows', World.sess, owner', next'),
           NEW id \in 1 .. MaxFlowId, id < next', NEW own \in Owners, own = owner'[id],
           NEW c \in {0} \cup Slots, ThenPump(forward_to_agent(World, id, own), c),
           UNCHANGED <<mode, open, agent>>,
           next' \in 1 .. MaxFlowId + 1, owner' \in [1 .. MaxFlowId -> Owners \cup {NoOwner}]
    PROVE  IInv'
<1>0. PICK v \in forward_to_agent(World, id, own) : Last(v, c)
  BY Zenon DEF ThenPump, Last
<1>1. Quiet(World) /\ SessionsOK(World.sess, agent) /\ agent \in {0} \cup Slots
  BY DEF IInv
<1>2. /\ WorldOK(v, owner', next') /\ FlowsOK(flows', v.sess, owner', next')
      /\ SessionsOK(v.sess, agent) /\ Quiet(v)
  <2>1. CASE agent = 0
    <3>1. v = World
      BY <2>1 DEF forward_to_agent
    <3> QED  BY <1>1, <3>1, Zenon
  <2>2. CASE agent # 0
    <3>1. PICK x \in Items : x = Item("req", id, own) /\ \A d : Fits(x, d, owner', next')
      BY RequestFits, Zenon
    <3>2. PICK i \in Slots : i = agent
      BY <1>1, <2>2, Zenon
    <3>3. PICK o, n, w, fl : o = owner' /\ n = next' /\ w = World /\ fl = flows'
      OBVIOUS
    <3>4. /\ WorldOK(w, o, n) /\ Settled(w, i) /\ v \in session_queue(w, i, x)
          /\ w.sess[i].st = "live" => Fits(x, w.sess[i].peer, o, n)
      <4>1. v \in session_queue(w, i, x)
        BY <2>2, <3>1, <3>2, <3>3 DEF forward_to_agent
      <4> QED  BY <1>1, <3>1, <3>3, <4>1 DEF Quiet
    <3>5. WorldOK(v, o, n) /\ Moved(w, v, i) /\ Settled(v, i)
      BY ONLY <3>4, i \in Slots, x \in Items, SessionQueue, Zenon
    <3>6. Quiet(w) /\ SessionsOK(w.sess, agent) /\ FlowsOK(fl, w.sess, o, n)
      BY <1>1, <3>3, Zenon
    <3>7. FlowsOK(fl, v.sess, o, n) /\ SessionsOK(v.sess, agent) /\ Quiet(v)
      BY ONLY <3>5, <3>6, i \in Slots, MovedTables, Zenon
    <3> QED  BY <3>3, <3>5, <3>7, Zenon
  <2> QED  BY <2>1, <2>2
<1>3. /\ SessionsOK(v.sess, agent') /\ mode' = mode /\ open' \in BOOLEAN /\ agent' \in {0} \cup Slots
  BY <1>1, <1>2, Zenon DEF IInv
<1> QED  BY <1>0, <1>2, <1>3, LastStep, Zenon

\* The flows of one source: none, or the one whose fields are the source's.
Sources(found, i, sf, a) ==
    /\ found \subseteq flows
    /\ \A f \in flows : f \in found <=> <<f.slot, f.src, f.sf>> = <<i, a, sf>>
    /\ i = 0 => sf = 0
    /\ i # 0 => sess[i].st = "live" /\ sess[i].role = "peer" /\ sess[i].peer = a

\* A datagram of a source, of an internet client (no session) or of a peer.
LEMMA SourceStep ==
    ASSUME IInv, NEW i \in {0} \cup Slots, NEW sf \in {0} \cup PeerFlows, NEW a \in Addrs,
           NEW found, Sources(found, i, sf, a), FromSource(found, i, sf, a),
           UNCHANGED <<mode, open, agent>>
    PROVE  IInv'
<1> USE DEF Sources
<1>1. /\ World.sess = sess /\ WorldOK(World, owner, next)
      /\ FlowsOK(flows, World.sess, owner, next) /\ flows \subseteq FlowType
      /\ next \in 1 .. MaxFlowId + 1 /\ owner \in [1 .. MaxFlowId -> Owners \cup {NoOwner}]
  BY Now, Zenon DEF IInv, FlowsOK
<1>2. PICK own \in Owners : own = <<a, sf>>
  BY Zenon DEF Owners
<1>3. ASSUME NEW f \in found, flows' = Touched(f), UNCHANGED <<next, owner>>,
             ThenPump(forward_to_agent(World, f.id, <<a, sf>>), i)
      PROVE  IInv'
  <2>1. /\ f \in flows /\ f.src = a /\ f.sf = sf /\ f.id \in 1 .. MaxFlowId /\ f.id < next
        /\ owner[f.id] = own
    BY <1>1, <1>2, Zenon DEF FlowsOK, FlowOK, FlowType
  <2>2. FlowsOK(flows', World.sess, owner, next)
    <3>1. PICK gl, se : gl = flows' /\ se = World.sess
      OBVIOUS
    <3>2. gl = (flows \ {f}) \cup {WithUsed(f)}
      BY <1>3, <3>1 DEF Touched, WithUsed
    <3>3. FlowsOK(flows, se, owner, next)
      BY <1>1, <3>1, Zenon
    <3>4. FlowsOK(gl, se, owner, next)
      BY ONLY <2>1, <3>2, <3>3, TouchedOK, Zenon
    <3> QED  BY <3>1, <3>4, Zenon
  <2>3. PICK id \in 1 .. MaxFlowId : id = f.id
    BY <2>1, Zenon
  <2> QED  BY <1>1, <1>2, <1>3, <2>1, <2>2, <2>3, ForwardStep, Zenon
<1>4. ASSUME found = {}, flow_new(i, sf, a), ThenPump(forward_to_agent(World, next, <<a, sf>>), i)
      PROVE  IInv'
  <2>1. PICK n \in 1 .. MaxFlowId : n = next
    <3>1. next \in 1 .. MaxFlowId + 1 /\ next <= MaxFlowId /\ MaxFlowId \in Nat
      BY ONLY <1>1, <1>4, BrokerUdpAssumption, Zenon DEF flow_new
    <3> QED  BY ONLY <3>1
  <2>2. PICK f \in FlowType : /\ f = [id |-> n, slot |-> i, sf |-> sf, src |-> a, used |-> FALSE]
                              /\ f.id = n /\ f.slot = i /\ f.sf = sf /\ f.src = a
    <3>1. [id |-> n, slot |-> i, sf |-> sf, src |-> a, used |-> FALSE] \in FlowType
      BY Zenon DEF FlowType
    <3> QED  BY <3>1, Zenon
  <2>3. PICK p, m : p = Given(owner, n, own) /\ m = n + 1
    OBVIOUS
  <2>4. flows' = flows \cup {f} /\ next' = m /\ owner' = p
    BY <1>2, <1>4, <2>1, <2>2, <2>3, Zenon DEF flow_new, Given
  <2>5. /\ p \in [1 .. MaxFlowId -> Owners \cup {NoOwner}] /\ p[n] = own
        /\ m \in 1 .. MaxFlowId + 1 /\ n < m
    <3>1. /\ owner \in [1 .. MaxFlowId -> Owners \cup {NoOwner}] /\ own \in Owners
          /\ MaxFlowId \in Nat /\ p = Given(owner, n, own) /\ m = n + 1 /\ n \in 1 .. MaxFlowId
      BY <1>1, <2>3, BrokerUdpAssumption, Zenon
    <3> QED  BY ONLY <3>1, SMTT(30) DEF Given
  <2>6. PICK w, o : w = World /\ o = owner
    BY Zenon
  <2>7. WorldOK(w, p, m)
    <3>1. /\ o \in [1 .. MaxFlowId -> Owners \cup {NoOwner}] /\ WorldOK(w, o, n)
          /\ p = Given(o, n, own) /\ m = n + 1
      BY <1>1, <2>1, <2>3, <2>6, Zenon
    <3> QED  BY ONLY <3>1, n \in 1 .. MaxFlowId, own \in Owners, WorldOn
  <2>8. FlowsOK(flows \cup {f}, w.sess, p, m)
    <3>1. PICK se : se = w.sess
      BY Zenon
    <3>2. /\ o \in [1 .. MaxFlowId -> Owners \cup {NoOwner}] /\ FlowsOK(flows, se, o, n)
          /\ p = Given(o, n, <<f.src, f.sf>>) /\ m = n + 1
      BY <1>1, <1>2, <2>1, <2>2, <2>3, <2>6, <3>1, Zenon
    <3>3. /\ f.slot = 0 => f.sf = 0
          /\ f.slot # 0 => se[f.slot].st = "live" /\ se[f.slot].role = "peer" /\ se[f.slot].peer = f.src
      BY <1>1, <2>2, <2>6, <3>1, Zenon
    <3>4. \A g \in flows : <<g.slot, g.src, g.sf>> # <<f.slot, f.src, f.sf>>
      BY <1>4, <2>2, Zenon
    <3>5. FlowsOK(flows \cup {f}, se, p, m)
      BY ONLY <2>2, <3>2, <3>3, <3>4, n \in 1 .. MaxFlowId, NewFlow, Zenon
    <3> QED  BY <3>1, <3>5, Zenon
  <2>9. /\ WorldOK(World, owner', next') /\ FlowsOK(flows', World.sess, owner', next')
        /\ n < next' /\ own = owner'[n] /\ ThenPump(forward_to_agent(World, n, own), i)
        /\ next' \in 1 .. MaxFlowId + 1 /\ owner' \in [1 .. MaxFlowId -> Owners \cup {NoOwner}]
    BY <1>2, <1>4, <2>1, <2>4, <2>5, <2>6, <2>7, <2>8, Zenon
  <2> QED  BY <2>9, ForwardStep, Zenon
<1> QED  BY <1>3, <1>4, Zenon DEF FromSource

\* A datagram of an internet client.
LEMMA ClientStep ==
    ASSUME IInv, NEW a \in Addrs, open_client_datagram(a)
    PROVE  IInv'
<1>1. \A f \in flows : f.slot = 0 => f.sf = 0
  BY Zenon DEF IInv, FlowsOK, FlowOK
<1>2. PICK found : found = flow_find_src(a)
  OBVIOUS
<1>3. /\ found \subseteq flows /\ \A f \in flows : f \in found <=> <<f.slot, f.src, f.sf>> = <<0, a, 0>>
  BY <1>1, <1>2 DEF flow_find_src
<1>4. FromSource(found, 0, 0, a) /\ UNCHANGED <<mode, open, agent>>
  BY <1>2 DEF open_client_datagram
<1>5. PICK i \in {0} \cup Slots, sf \in {0} \cup PeerFlows : i = 0 /\ sf = 0
  OBVIOUS
<1>6. FromSource(found, i, sf, a) /\ \A f \in flows : f \in found <=> <<f.slot, f.src, f.sf>> = <<i, a, sf>>
  BY <1>3, <1>4, <1>5
<1>7. Sources(found, i, sf, a)
  BY <1>3, <1>4, <1>5, <1>6 DEF Sources
<1> QED  BY ONLY IInv, <1>3, <1>4, <1>5, <1>6, <1>7, SourceStep

\* A datagram of an authenticated peer.
LEMMA PeerEnvStep ==
    ASSUME IInv, NEW i \in Slots, NEW sf \in PeerFlows, peer_session_env(i, sf)
    PROVE  IInv'
<1>1. sess[i].st = "live" /\ sess[i].role = "peer" /\ sess[i] \in Sessions /\ i # 0
  BY Now, SlotFacts, Zenon DEF peer_session_env, LiveSess
<1>2. PICK a, found : a \in Addrs /\ a = sess[i].peer /\ found = flow_find_peer(i, sf)
  BY <1>1, Zenon DEF Sessions
<1>3. \A f \in flows : f.slot = i => f.src = a
  BY <1>1, <1>2, Now, Zenon DEF IInv, FlowsOK, FlowOK
<1>4. found \subseteq flows /\ \A f \in flows : f \in found <=> <<f.slot, f.src, f.sf>> = <<i, a, sf>>
  BY <1>2, <1>3 DEF flow_find_peer
<1>5. FromSource(found, i, sf, a) /\ UNCHANGED <<mode, open, agent>>
  BY <1>2, Zenon DEF peer_session_env
<1>6. i \in {0} \cup Slots /\ sf \in {0} \cup PeerFlows
  OBVIOUS
<1>7. Sources(found, i, sf, a)
  BY ONLY <1>1, <1>2, <1>4, Zenon DEF Sources
<1> QED  BY ONLY IInv, <1>2, <1>5, <1>6, <1>7, SourceStep

\* A reply of the agent goes to the owner of the flow, if the flow is there.
LEMMA ToPeer ==
    ASSUME IInv, NEW f \in flows, NEW w \in forward_to_peer(World, f, owner[f.id])
    PROVE  /\ WorldOK(w, owner, next) /\ Quiet(w) /\ SessionsOK(w.sess, agent)
           /\ \A gl : FlowsOK(gl, World.sess, owner, next) => FlowsOK(gl, w.sess, owner, next)
<1>1. /\ WorldOK(World, owner, next) /\ World \in Worlds /\ Quiet(World) /\ SessionsOK(World.sess, agent)
  BY Now, Zenon DEF IInv
<1>2. f \in FlowType /\ FlowOK(f, World.sess, owner, next)
  BY DEF IInv, FlowsOK
<1>3. /\ f.src \in Addrs /\ f.sf \in {0} \cup PeerFlows /\ f.slot \in {0} \cup Slots
      /\ owner[f.id] = <<f.src, f.sf>>
  BY <1>2, Zenon DEF FlowType, FlowOK
<1>4. PICK x \in Items : x = Item("rep", f.sf, owner[f.id]) /\ Fits(x, f.src, owner, next)
  BY <1>3, ReplyFits, Zenon
<1>5. CASE f.slot # 0
  <2>0. PICK i \in Slots : i = f.slot
    BY <1>3, <1>5, Zenon
  <2>1. PICK u : u = World /\ i = f.slot
    BY <2>0, Zenon
  <2>2. /\ WorldOK(u, owner, next) /\ Settled(u, i) /\ w \in session_queue(u, i, x)
        /\ u.sess[i].st = "live" => Fits(x, u.sess[i].peer, owner, next)
    <3>1. w \in session_queue(u, i, x)
      BY <1>4, <1>5, <2>1, Zenon DEF forward_to_peer
    <3>2. Settled(u, i) /\ u.sess[i].peer = f.src
      BY <1>1, <1>2, <1>5, <2>1, Zenon DEF Quiet, FlowOK
    <3> QED  BY <1>1, <1>4, <2>1, <3>1, <3>2, Zenon
  <2>3. WorldOK(w, owner, next) /\ Moved(u, w, i) /\ Settled(w, i)
    BY ONLY <2>2, i \in Slots, x \in Items, SessionQueue, Zenon
  <2>4. Quiet(u) /\ SessionsOK(u.sess, agent)
    BY <1>1, <2>1, Zenon
  <2>5. /\ Quiet(w) /\ SessionsOK(w.sess, agent)
        /\ \A gl : FlowsOK(gl, u.sess, owner, next) => FlowsOK(gl, w.sess, owner, next)
    BY ONLY <2>3, <2>4, i \in Slots, MovedTables, Zenon
  <2> QED  BY <2>1, <2>3, <2>5, Zenon
<1>6. CASE f.slot = 0
  <2>1. x = Item("rep", 0, owner[f.id])
    BY <1>2, <1>4, <1>6, Zenon DEF FlowOK
  <2>2. PICK u \in Worlds, i \in {0} \cup Slots, a \in Addrs : u = World /\ i = 0 /\ a = f.src
    BY <1>1, <1>3, Zenon
  <2>3. w \in udp_send_raw(u, i, a, x)
    BY <1>6, <2>1, <2>2, Zenon DEF forward_to_peer
  <2>4. /\ w \in Worlds /\ w.sess = u.sess
        /\ \/ w = u
           \/ /\ u.raw < QueueMax /\ w.raw = u.raw + 1
              /\ w.sends = Append(u.sends, [slot |-> i, dst |-> a, item |-> x])
    BY <2>3, SentRaw, Zenon
  <2>5. WorldOK(w, owner, next)
    <3>1. CASE w = u
      BY <1>1, <2>2, <3>1, Zenon
    <3>2. CASE /\ u.raw < QueueMax /\ w.raw = u.raw + 1
               /\ w.sends = Append(u.sends, [slot |-> i, dst |-> a, item |-> x])
      <4>1. PICK d \in SendType : /\ d = [slot |-> i, dst |-> a, item |-> x]
                                  /\ d.slot = 0 /\ d.dst = a /\ d.item = x
        <5>1. [slot |-> i, dst |-> a, item |-> x] \in SendType
          BY Zenon DEF SendType
        <5> QED  BY <2>2, <5>1, Zenon
      <4>2. /\ WorldOK(u, owner, next) /\ u.raw < QueueMax /\ Fits(d.item, d.dst, owner, next)
            /\ d.slot = 0 /\ w \in Worlds /\ w.sess = u.sess /\ w.sends = Append(u.sends, d)
            /\ w.raw = u.raw + 1
        BY <1>1, <1>4, <2>2, <2>4, <3>2, <4>1, Zenon
      <4> QED  BY ONLY <4>2, d \in SendType, SendAdded, Zenon
    <3> QED  BY <2>4, <3>1, <3>2, Zenon
  <2>6. \A j : HasSend(u.sends, j) => HasSend(w.sends, j)
    <3>1. CASE w = u
      BY ONLY <3>1, Zenon
    <3>2. CASE w.sends = Append(u.sends, [slot |-> i, dst |-> a, item |-> x])
      <4>1. PICK d \in SendType : d = [slot |-> i, dst |-> a, item |-> x]
        BY Zenon DEF SendType
      <4>2. PICK sn \in Seq(SendType) : sn = u.sends
        BY DEF Worlds
      <4>3. \A j : HasSend(sn, j) => HasSend(Append(sn, d), j)
        BY ONLY sn \in Seq(SendType), d \in SendType, SendMore, Zenon
      <4> QED  BY ONLY <3>2, <4>1, <4>2, <4>3, Zenon
    <3> QED  BY <2>4, <3>1, <3>2, Zenon
  <2>7. Quiet(w)
    <3>1. Quiet(u)
      BY <1>1, <2>2, Zenon
    <3> QED  BY ONLY <2>4, <2>6, <3>1, Zenon DEF Quiet, Settled, Backed
  <2> QED  BY <1>1, <2>2, <2>4, <2>5, <2>7, Zenon
<1> QED  BY <1>5, <1>6, Zenon

\* A datagram of the agent.
LEMMA AgentEnvStep ==
    ASSUME IInv, NEW i \in Slots, NEW id \in 1 .. MaxFlowId, agent_session_env(i, id)
    PROVE  IInv'
<1>1. PICK f \in flow_find(id) :
        flows' = Touched(f) /\ ThenPump(forward_to_peer(World, f, owner[id]), i)
  BY Zenon DEF agent_session_env
<1>2. f \in flows /\ f.id = id
  BY DEF flow_find
<1>3. PICK w \in forward_to_peer(World, f, owner[f.id]) : Last(w, i)
  BY <1>1, <1>2, Zenon DEF ThenPump, Last
<1>4. PICK gl, se : gl = flows' /\ se = World.sess
  BY Zenon
<1>5. FlowsOK(gl, se, owner, next)
  <2>1. gl = (flows \ {f}) \cup {WithUsed(f)}
    BY <1>1, <1>4 DEF Touched, WithUsed
  <2>2. FlowsOK(flows, se, owner, next)
    BY <1>4 DEF IInv
  <2> QED  BY ONLY <1>2, <2>1, <2>2, TouchedOK
<1>6. /\ WorldOK(w, owner, next) /\ Quiet(w) /\ SessionsOK(w.sess, agent)
      /\ \A hl : FlowsOK(hl, World.sess, owner, next) => FlowsOK(hl, w.sess, owner, next)
  BY <1>2, <1>3, ToPeer, Zenon
<1>7. UNCHANGED <<mode, open, agent, next, owner>>
  BY Zenon DEF agent_session_env
<1>8. /\ WorldOK(w, owner', next') /\ FlowsOK(flows', w.sess, owner', next')
      /\ SessionsOK(w.sess, agent') /\ i \in {0} \cup Slots
  BY <1>4, <1>5, <1>6, <1>7, Zenon
<1>9. /\ mode' = mode /\ open' \in BOOLEAN /\ agent' \in {0} \cup Slots
      /\ next' \in 1 .. MaxFlowId + 1 /\ owner' \in [1 .. MaxFlowId -> Owners \cup {NoOwner}]
  BY <1>7, Zenon DEF IInv
<1> QED  BY <1>3, <1>6, <1>8, <1>9, LastStep, Zenon

----------------------------------------------------------------------------
(* The theorems *)

\* The socket is open, and nothing was received.
LEMMA Begin ==
    ASSUME Init
    PROVE  IInv
<1>1. /\ sess = [i \in Slots |-> FreeSession] /\ sends = <<>> /\ raw = 0 /\ flows = {} /\ agent = 0
      /\ next = 1 /\ mode \in Modes /\ open = TRUE /\ owner = [n \in 1 .. MaxFlowId |-> NoOwner]
  BY DEF Init
<1>2. World.sess = sess /\ World.sends = sends /\ World.raw = raw
  BY DEF World
<1>3. \A i \in Slots : World.sess[i] = FreeSession
  BY <1>1, <1>2
<1>4. FreeSession.st = "free"
  BY DEF FreeSession
<1>5. World \in Worlds
  <2>1. sess \in [Slots -> SessionType] /\ sends \in Seq(SendType) /\ raw \in Nat
    BY <1>1 DEF SessionType
  <2> QED  BY <2>1 DEF World, Worlds
<1>6. DOMAIN World.sends = {} /\ Len(World.sends) = 0
  BY <1>1, <1>2
<1>7. WorldOK(World, owner, next)
  <2>1. \A i \in Slots : SessionOK(World.sess[i], owner, next)
    BY <1>3, <1>4, Zenon DEF SessionOK
  <2>2. World.raw = Len(World.sends) /\ World.raw <= QueueMax
    BY <1>1, <1>2, <1>6, BrokerUdpAssumption
  <2> QED  BY <1>5, <1>6, <2>1, <2>2, Zenon DEF WorldOK, Linked
<1>8. Quiet(World) /\ SessionsOK(World.sess, agent)
  BY <1>1, <1>3, <1>4, SlotFacts DEF Quiet, Settled, Calm, Backed, SessionsOK
<1>9. FlowsOK(flows, World.sess, owner, next)
  BY <1>1 DEF FlowsOK
<1>10. /\ next \in 1 .. MaxFlowId + 1 /\ owner \in [1 .. MaxFlowId -> Owners \cup {NoOwner}]
       /\ open \in BOOLEAN /\ agent \in {0} \cup Slots
  BY <1>1, BrokerUdpAssumption
<1> QED  BY <1>1, <1>7, <1>8, <1>9, <1>10 DEF IInv

\* The socket opens again, or nothing happens.
LEMMA StartStep ==
    ASSUME IInv, UNCHANGED <<mode, sess, agent, flows, next, owner, sends, raw>>, open' \in BOOLEAN
    PROVE  IInv'
<1>1. World' = World
  BY DEF World
<1> QED  BY <1>1 DEF IInv

\* Every step keeps the invariant.
LEMMA Step ==
    ASSUME IInv, [Next]_vars
    PROVE  IInv'
<1>1. CASE Receives
  BY <1>1, ClientStep, CreateStep, PumpInStep, IgnoredStep, RefusedStep, PeerStep, AgentStep,
     AgentEnvStep, PeerEnvStep, Zenon
     DEF Receives
<1>2. CASE send_done
  BY <1>2, SendDoneStep
<1>3. ASSUME NEW i \in Slots, session_timer_cb(i)
      PROVE  IInv'
  BY <1>3, CloseStep, RetransmitStep, Zenon DEF session_timer_cb
<1>4. ASSUME NEW i \in Slots, session_timer_closed(i)
      PROVE  IInv'
  BY <1>4, TimerClosedStep
<1>5. ASSUME NEW f \in flows, flow_idle_cb(f)
      PROVE  IInv'
  BY <1>5, IdleStep
<1>6. CASE tm_udp_stop
  BY <1>6, StopStep
<1>7. CASE tm_udp_start
  <2>1. UNCHANGED <<mode, sess, agent, flows, next, owner, sends, raw>> /\ open' \in BOOLEAN
    BY <1>7 DEF tm_udp_start
  <2> QED  BY <2>1, StartStep
<1>8. CASE UNCHANGED vars
  <2>1. UNCHANGED <<mode, sess, agent, flows, next, owner, sends, raw>> /\ open' \in BOOLEAN
    BY <1>8 DEF vars, IInv
  <2> QED  BY <2>1, StartStep
<1> QED  BY <1>1, <1>2, <1>3, <1>4, <1>5, <1>6, <1>7, <1>8, Zenon DEF Next

\* The invariant holds of every reachable state of the UDP plane, whatever the
\* network delivers and whatever the timers and the completions do.
THEOREM Invariant == Spec => []IInv
<1>1. Init => IInv
  BY Begin
<1>2. IInv /\ [Next]_vars => IInv'
  BY Step
<1> QED  BY <1>1, <1>2, PTL DEF Spec

\* It says that the tables of flows and sessions are sound, but for the limit.
LEMMA TablesFromInvariant ==
    ASSUME IInv, Cardinality(flows) <= MaxFlows
    PROVE  TablesSound
<1>1. /\ World.sess = sess /\ World.sends = sends /\ World.raw = raw /\ World \in Worlds
      /\ FlowsOK(flows, sess, owner, next) /\ SessionsOK(sess, agent)
  BY Now, Zenon DEF IInv
<1>2. TypeOK
  <2>1. /\ sess \in [Slots -> Sessions \cup {FreeSession}] /\ raw \in Nat
        /\ sends \in Seq([slot : {0} \cup Slots, dst : Addrs, item : Items])
    BY <1>1 DEF Worlds, SessionType, SendType
  <2>2. flows \subseteq [id : 1 .. MaxFlowId, slot : {0} \cup Slots, sf : {0} \cup PeerFlows,
                         src : Addrs, used : BOOLEAN]
    BY <1>1 DEF FlowsOK, FlowType
  <2> QED  BY <2>1, <2>2 DEF IInv, TypeOK
<1>3. FlowsSound
  BY <1>1, Zenon DEF FlowsOK, FlowOK, FlowsSound, LiveSess
<1>4. SessionsSound
  BY <1>1, Zenon DEF SessionsOK, SessionsSound, LiveSess
<1> QED  BY <1>2, <1>3, <1>4 DEF TablesSound

\* That the completion of a send finds its session.
LEMMA SendsFromInvariant ==
    ASSUME IInv
    PROVE  SendsSound
<1>1. /\ World.sess = sess /\ World.sends = sends /\ World.raw = raw
      /\ WorldOK(World, owner, next)
  BY Now, Zenon DEF IInv
<1>2. raw = Len(sends) /\ raw <= QueueMax /\ Linked(sess, sends)
  BY <1>1 DEF WorldOK
<1>3. \A i \in Slots : sess[i].st = "closing" => sess[i].timer = "closing" \/ sess[i].inflight
  BY Now, Zenon DEF SessionOK
<1> QED  BY <1>2, <1>3, Zenon DEF SendsSound, Linked, Holds

\* That what waits in a queue waits for a send or for a read.
LEMMA QueuesFromInvariant ==
    ASSUME IInv
    PROVE  QueueSound
<1>1. World.sess = sess /\ World.sends = sends
  BY Now, Zenon
<1>2. ASSUME NEW i \in Slots, LiveSess(i)
      PROVE  /\ Len(sess[i].q) <= QueueMax
             /\ sess[i].q # <<>> => sess[i].inflight \/ sess[i].want
             /\ sess[i].wb # <<>> => sess[i].inflight
  <2>1. SessionOK(sess[i], owner, next) /\ Calm(sess[i]) /\ sess[i].st = "live"
    BY <1>1, <1>2, Now, Zenon DEF LiveSess, Settled
  <2>2. sess[i].st # "free"
    BY <2>1
  <2> QED  BY ONLY <2>1, <2>2, Zenon DEF SessionOK, Calm
<1>3. ASSUME NEW i \in Slots, sess[i].st # "free", sess[i].inflight
      PROVE  sess[i].dropped \/ SendOf(i) # {}
  <2>1. sess[i].dropped \/ HasSend(sends, i)
    BY <1>1, <1>3, Now, Zenon DEF Settled, Backed
  <2>2. HasSend(sends, i) => SendOf(i) # {}
    BY ONLY Zenon DEF HasSend, SendOf
  <2> QED  BY <2>1, <2>2, Zenon
<1> QED  BY <1>2, <1>3, Zenon DEF QueueSound

\* And that a datagram goes to its owner.
LEMMA OwnersFromInvariant ==
    ASSUME IInv
    PROVE  NoCrossTalk
<1>1. ASSUME NEW x, NEW d, Fits(x, d, owner, next)
      PROVE  Mine(x, d)
  BY <1>1, Zenon DEF Fits, Mine
<1>2. World.sends = sends /\ WorldOK(World, owner, next)
  BY Now, Zenon DEF IInv
<1>3. \A k \in DOMAIN sends : Mine(sends[k].item, sends[k].dst)
  BY <1>1, <1>2 DEF WorldOK
<1>4. ASSUME NEW i \in Slots, LiveSess(i), NEW k \in DOMAIN sess[i].q
      PROVE  Mine(sess[i].q[k], sess[i].peer)
  <2>1. SessionOK(sess[i], owner, next) /\ sess[i].st # "free"
    BY <1>4, Now, Zenon DEF LiveSess
  <2>2. sess[i].q[k] \in In(sess[i].q)
    BY Zenon DEF In
  <2> QED  BY <1>1, <2>1, <2>2, Zenon DEF SessionOK
<1> QED  BY <1>3, <1>4, Zenon DEF NoCrossTalk

\* A client, a peer and the agent only ever get datagrams of their own flows,
\* however late replies arrive and whatever memory is reused.
THEOREM OwnDatagrams == Spec => []NoCrossTalk
  BY Invariant, OwnersFromInvariant, PTL

\* The completion of a send finds the session that waits for it and no other,
\* and a closed session waits for its timer or is marked in flight.
THEOREM SoundSends == Spec => []SendsSound
  BY Invariant, SendsFromInvariant, PTL

\* No queue is over its limit; what waits in one waits for the mark inflight or
\* for SSL_write to have read; and behind the mark is a send in flight, unless the
\* send was dropped.
THEOREM SoundQueues == Spec => []QueueSound
  BY Invariant, QueuesFromInvariant, PTL

----------------------------------------------------------------------------
(* The limit of the flow table *)

INSTANCE FiniteSetTheorems

Bounded == IsFiniteSet(flows) /\ Cardinality(flows) <= MaxFlows

\* A step leaves the table as it is, takes flows out, marks one or adds one to a
\* table that has room.
LEMMA FlowsChange ==
    ASSUME [Next]_vars
    PROVE  \/ flows' \subseteq flows
           \/ \E f \in flows : flows' = Touched(f)
           \/ Cardinality(flows) < MaxFlows /\ \E f : flows' = flows \cup {f}
<1>1. ASSUME NEW found, found \subseteq flows, NEW i, NEW sf, NEW a, FromSource(found, i, sf, a)
      PROVE  \/ \E f \in flows : flows' = Touched(f)
             \/ Cardinality(flows) < MaxFlows /\ \E f : flows' = flows \cup {f}
  BY <1>1, Zenon DEF FromSource, flow_new
<1>2. ASSUME NEW a, open_client_datagram(a)
      PROVE  \/ \E f \in flows : flows' = Touched(f)
             \/ Cardinality(flows) < MaxFlows /\ \E f : flows' = flows \cup {f}
  <2>1. flow_find_src(a) \subseteq flows
    BY Zenon DEF flow_find_src
  <2> QED  BY <1>1, <1>2, <2>1, Zenon DEF open_client_datagram
<1>3. ASSUME NEW i, NEW sf, peer_session_env(i, sf)
      PROVE  \/ \E f \in flows : flows' = Touched(f)
             \/ Cardinality(flows) < MaxFlows /\ \E f : flows' = flows \cup {f}
  <2>1. flow_find_peer(i, sf) \subseteq flows
    BY Zenon DEF flow_find_peer
  <2> QED  BY <1>1, <1>3, <2>1, Zenon DEF peer_session_env
<1>4. ASSUME NEW i, NEW id, agent_session_env(i, id)
      PROVE  \E f \in flows : flows' = Touched(f)
  BY <1>4, Zenon DEF agent_session_env, flow_find
<1>5. ASSUME NEW i, AgentAuthed(i) \/ tm_udp_session_close(i)
      PROVE  flows' \subseteq flows
  BY <1>5, Zenon DEF AgentAuthed, tm_udp_session_close, FlowsWithout
<1>6. CASE Receives
  BY <1>2, <1>3, <1>4, <1>5, <1>6, Zenon
     DEF Receives, session_create, pump_in, Ignored, AuthRefused, PeerAuthed
<1>7. CASE send_done
  BY <1>7, Zenon DEF send_done
<1>8. ASSUME NEW i, session_timer_cb(i) \/ session_timer_closed(i)
      PROVE  flows' \subseteq flows
  BY <1>5, <1>8, Zenon DEF session_timer_cb, session_timer_closed
<1>9. ASSUME NEW f, flow_idle_cb(f)
      PROVE  flows' \subseteq flows
  BY <1>9, Zenon DEF flow_idle_cb
<1>10. CASE tm_udp_stop \/ tm_udp_start
  BY <1>10, Zenon DEF tm_udp_stop, tm_udp_start
<1>11. CASE UNCHANGED vars
  BY <1>11, Zenon DEF vars
<1> QED  BY <1>6, <1>7, <1>8, <1>9, <1>10, <1>11, Zenon DEF Next

\* The table is never over its limit.
LEMMA BoundedStep ==
    ASSUME Bounded, [Next]_vars
    PROVE  Bounded'
<1>1. Cardinality(flows) \in Nat /\ MaxFlows \in Nat
  BY FS_CardinalityType, BrokerUdpAssumption DEF Bounded
<1>2. PICK gl : gl = flows'
  OBVIOUS
<1>3. ASSUME gl \subseteq flows
      PROVE  IsFiniteSet(gl) /\ Cardinality(gl) <= MaxFlows
  <2>1. IsFiniteSet(gl) /\ Cardinality(gl) <= Cardinality(flows) /\ Cardinality(gl) \in Nat
    BY <1>3, FS_Subset, FS_CardinalityType DEF Bounded
  <2> QED  BY ONLY <1>1, <2>1, Bounded DEF Bounded
<1>4. ASSUME NEW f \in flows, gl = Touched(f)
      PROVE  IsFiniteSet(gl) /\ Cardinality(gl) <= MaxFlows
  <2>1. PICK hl, g : hl = flows \ {f} /\ g = [f EXCEPT !.used = TRUE]
    BY Zenon
  <2>2. IsFiniteSet(hl) /\ Cardinality(hl) = Cardinality(flows) - 1
    BY <2>1, FS_RemoveElement DEF Bounded
  <2>3. /\ IsFiniteSet(hl \cup {g})
        /\ Cardinality(hl \cup {g}) = IF g \in hl THEN Cardinality(hl) ELSE Cardinality(hl) + 1
    BY <2>2, FS_AddElement
  <2>4. gl = hl \cup {g}
    BY <1>4, <2>1, Zenon DEF Touched
  <2> QED  BY ONLY <1>1, <2>2, <2>3, <2>4, Bounded DEF Bounded
<1>5. ASSUME Cardinality(flows) < MaxFlows, NEW f, gl = flows \cup {f}
      PROVE  IsFiniteSet(gl) /\ Cardinality(gl) <= MaxFlows
  <2>1. /\ IsFiniteSet(flows \cup {f})
        /\ Cardinality(flows \cup {f}) = IF f \in flows THEN Cardinality(flows) ELSE Cardinality(flows) + 1
    BY FS_AddElement DEF Bounded
  <2> QED  BY ONLY <1>1, <1>5, <2>1
<1> QED  BY <1>2, <1>3, <1>4, <1>5, FlowsChange, Zenon DEF Bounded

\* The flow table is a bijection within its limit, every peer's flow is of a
\* live session of that peer, and an address has one live session.
THEOREM SoundTables == Spec => []TablesSound
<1>1. Init => Bounded
  BY FS_EmptySet, BrokerUdpAssumption DEF Init, Bounded
<1>2. Bounded /\ [Next]_vars => Bounded'
  BY BoundedStep
<1>3. IInv /\ Bounded => TablesSound
  BY TablesFromInvariant, Zenon DEF Bounded
<1> QED  BY <1>1, <1>2, <1>3, Invariant, PTL DEF Spec
=============================================================================
