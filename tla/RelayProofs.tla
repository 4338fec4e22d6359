---------------------------- MODULE RelayProofs ----------------------------
(* The safety properties of Relay, for every number of chunks and every      *)
(* watermark; and that every stream of an open tunnel implements the pipe:   *)
(* the invariant says what a leg has been given, and the steps are then      *)
(* compared with Pipe's one callback at a time.                              *)
EXTENDS RelayPipe, SequenceTheorems, TLAPS

----------------------------------------------------------------------------
(* Sequences *)

\* Upto(n) lists 1..n, and grows at its end.
LEMMA UptoFacts ==
    ASSUME NEW n \in Nat
    PROVE  /\ Upto(n) \in Seq(Nat)
           /\ Len(Upto(n)) = n
           /\ Upto(n + 1) = Upto(n) \o <<n + 1>>
           /\ Upto(0) = <<>>
<1>1. /\ Upto(n) \in Seq(Nat) /\ Len(Upto(n)) = n /\ \A i \in 1 .. n : Upto(n)[i] = i
  BY DEF Upto
<1>2. /\ Upto(n+1) \in Seq(Nat) /\ Len(Upto(n+1)) = n+1 /\ \A i \in 1 .. n+1 : Upto(n+1)[i] = i
  BY DEF Upto
<1>3. <<n+1>> \in Seq(Nat) /\ Len(<<n+1>>) = 1 /\ <<n+1>>[1] = n+1
  OBVIOUS
<1>4. Upto(n + 1) = Upto(n) \o <<n + 1>>
  <2>1. /\ Upto(n) \o <<n + 1>> \in Seq(Nat)
        /\ Len(Upto(n) \o <<n + 1>>) = n + 1
        /\ \A i \in 1 .. n+1 : (Upto(n) \o <<n + 1>>)[i] = i
    BY <1>1, <1>3, ConcatProperties
  <2>. QED  BY <1>2, <2>1, SeqEqual, ZenonT(60), SMTT(60)
<1>5. Upto(0) = <<>>
  BY DEF Upto
<1>. QED  BY <1>1, <1>4, <1>5

\* Concatenation of sequences of chunks.
LEMMA Concat ==
    ASSUME NEW s \in Seq(Nat), NEW t \in Seq(Nat)
    PROVE  /\ s \o t \in Seq(Nat)
           /\ Len(s \o t) = Len(s) + Len(t)
           /\ s \o <<>> = s /\ <<>> \o s = s
           /\ s \o t = <<>> => s = <<>> /\ t = <<>>
<1>1. s \o t \in Seq(Nat) /\ Len(s \o t) = Len(s) + Len(t)
  BY ConcatProperties
<1>3. s \o <<>> = s /\ <<>> \o s = s
  BY ConcatEmptySeq
<1>4. s \o t = <<>> => s = <<>> /\ t = <<>>
  BY ConcatEqualIffEmpty
<1>. QED  BY <1>1, <1>3, <1>4

\* Concatenation is associative.
LEMMA Assoc ==
    ASSUME NEW s \in Seq(Nat), NEW t \in Seq(Nat), NEW u \in Seq(Nat)
    PROVE  (s \o t) \o u = s \o (t \o u)
BY ConcatAssociative, SMTT(60), ZenonT(60)

\* What is as long as a sequence with elements has elements.
LEMMA NotEmpty ==
    ASSUME NEW s \in Seq(Nat), NEW t \in Seq(Nat), Len(s) <= Len(t), s # <<>>
    PROVE  t # <<>>
<1>1. Len(s) \in Nat \ {0} /\ Len(<<>>) = 0
  BY EmptySeq
<1>. QED  BY <1>1

\* A sequence is its first n elements followed by the others.
LEMMA SplitSeq ==
    ASSUME NEW p \in Seq(Nat), NEW n \in 0 .. Len(p)
    PROVE  /\ SubSeq(p, 1, n) \in Seq(Nat) /\ Len(SubSeq(p, 1, n)) = n
           /\ SubSeq(p, n + 1, Len(p)) \in Seq(Nat)
           /\ Len(SubSeq(p, n + 1, Len(p))) = Len(p) - n
           /\ SubSeq(p, 1, n) \o SubSeq(p, n + 1, Len(p)) = p
<1>1. \A i \in 1 .. Len(p) : p[i] \in Nat
  BY ElementOfSeq
<1>2. Len(p) \in Nat
  BY LenProperties
<1>3. /\ SubSeq(p, 1, n) \in Seq(Nat) /\ Len(SubSeq(p, 1, n)) = n
  BY <1>1, <1>2, SubSeqProperties, Z3
<1>4. /\ SubSeq(p, n + 1, Len(p)) \in Seq(Nat)
      /\ Len(SubSeq(p, n + 1, Len(p))) = Len(p) - n
  BY <1>1, <1>2, SubSeqProperties, Z3
<1>5. SubSeq(p, 1, n) \o SubSeq(p, n + 1, Len(p)) = SubSeq(p, 1, Len(p))
  <2>1. 1 \in 1 .. Len(p) + 1 /\ n \in 1 - 1 .. Len(p) /\ Len(p) \in n .. Len(p)
    BY <1>2
  <2>. QED  BY <2>1, ConcatAdjacentSubSeq, ZenonT(60), SMTT(60)
<1>6. SubSeq(p, 1, Len(p)) = p
  BY SubSeqFull
<1>. QED  BY <1>3, <1>4, <1>5, <1>6, ZenonT(60), SMTT(60)

----------------------------------------------------------------------------
(* The write side of a leg *)

\* flush_pend moves a prefix of what is held back to the end of the io queue;
\* what it leaves has a write in flight in front of it that reports its drain.
LEMMA FlushFacts ==
    ASSUME NEW s \in IoType, IoOK(s), ~Null(s),
           NEW p \in Seq(Nat), s.fin # "none" => p = <<>>,
           NEW f \in flush_pend(s, p)
    PROVE  /\ f.side \in IoType /\ IoOK(f.side)
           /\ f.side.kind = s.kind /\ f.side.fin = s.fin
           /\ f.rest \in Seq(Nat) /\ Len(f.rest) <= Len(p)
           /\ f.side.q \o f.rest = s.q \o p
           /\ f.rest # <<>> => /\ f.side.q # <<>> /\ s.fin = "none"
                               /\ s.kind = "tls" => f.side.low
<1>1. /\ s.q \in Seq(Nat) /\ s.infl \in Nat /\ s.low \in BOOLEAN
      /\ s.kind \in {"none", "gone", "tcp", "tls"} /\ s.fin \in {"none", "queued", "sent"}
      /\ Len(s.q) \in Nat /\ Len(p) \in Nat
  BY LenProperties DEF IoType
<1>2. CASE s.fin # "none"
  <2>1. f = [side |-> s, rest |-> <<>>] /\ p = <<>>
    BY <1>2 DEF flush_pend
  <2>. QED  BY <2>1
<1>3. CASE s.fin = "none"
  <2>1. PICK mv \in Moves(s, p) :
          f = [side |-> Accept(s, SubSeq(p, 1, mv.n), mv.lo),
               rest |-> SubSeq(p, mv.n + 1, Len(p))]
    BY <1>3 DEF flush_pend
  <2> DEFINE n == mv.n
             lo == mv.lo
  <2>2. /\ n \in 0 .. Len(p) /\ lo \in BOOLEAN /\ lo \in LowAfter(s, n, n < Len(p))
        /\ n > 0 => Len(s.q) + n <= Capacity(s)
        /\ n = 0 => p = <<>> \/ s.q # <<>>
    BY DEF Moves
  <2>0. f = [side |-> Accept(s, SubSeq(p, 1, n), lo), rest |-> SubSeq(p, n + 1, Len(p))]
    BY <2>1
  <2> HIDE DEF n, lo
  <2>3. lo \in BOOLEAN /\ (s.kind = "tls" /\ n < Len(p) => lo)
    BY <1>1, <2>2, ZenonT(60), SMTT(60) DEF LowAfter
  <2> DEFINE x == SubSeq(p, 1, n)
               r == SubSeq(p, n + 1, Len(p))
               t == Accept(s, x, lo)
  <2>5. /\ x \in Seq(Nat) /\ Len(x) = n /\ r \in Seq(Nat) /\ Len(r) = Len(p) - n
        /\ x \o r = p
    BY <2>2, SplitSeq, ZenonT(60), SMTT(60)
  <2>6. f.side = t /\ f.rest = r
    BY <2>0, ZenonT(60), SMTT(60)
  <2> HIDE DEF x, r
  <2>7. /\ s.q \o x \in Seq(Nat) /\ Len(s.q \o x) = Len(s.q) + n
        /\ (s.q \o x) \o r = s.q \o p
        /\ s.q \o x = <<>> => s.q = <<>> /\ n = 0
    <3>1. s.q \o x \in Seq(Nat) /\ Len(s.q \o x) = Len(s.q) + Len(x)
      BY <1>1, <2>5, Concat, Zenon
    <3>2. (s.q \o x) \o r = s.q \o (x \o r)
      BY ONLY <1>1, <2>5, Assoc, ZenonT(60)
    <3>3. s.q \o x = <<>> => s.q = <<>> /\ x = <<>>
      BY <1>1, <2>5, Concat, Zenon
    <3>4. x = <<>> => n = 0
      BY <2>5, EmptySeq
    <3>. QED  BY <3>1, <3>2, <3>3, <3>4, <2>5, Zenon
  <2>8. /\ t.q = s.q \o x /\ t.low = lo /\ t.kind = s.kind /\ t.fin = s.fin
        /\ t.infl = (IF x # <<>> /\ s.infl = 0 THEN 1 ELSE s.infl)
        /\ t \in IoType
    BY <1>1, <2>3, <2>7, ZenonT(60), SMTT(60) DEF Accept, IoType
  <2> HIDE DEF t
  <2>9. Capacity(t) = Capacity(s) /\ Capacity(s) \in Nat
    BY <2>8, RelayAssumption DEF Capacity
  <2>10. IoOK(t)
    <3>1. t.infl <= Len(t.q) /\ (t.q # <<>> => t.infl > 0)
      <4>1. CASE x = <<>>
        <5>1. n = 0 /\ s.q \o x = s.q
          BY <4>1, <2>5, <1>1, ConcatEmptySeq
        <5>. QED  BY <4>1, <5>1, <2>8 DEF IoOK
      <4>2. CASE x # <<>>
        <5>1. n > 0
          BY <4>2, <2>5, EmptySeq
        <5>2. s.infl <= Len(s.q) /\ Len(t.q) = Len(s.q) + n
          BY <2>8, <2>7 DEF IoOK
        <5>. QED  BY <4>2, <5>1, <5>2, <2>8, <1>1
      <4>. QED  BY <4>1, <4>2
    <3>2. Len(t.q) <= Capacity(t)
      BY <2>2, <2>7, <2>8, <2>9, <1>1 DEF IoOK
    <3>. QED  BY <3>1, <3>2, <2>8, <1>3 DEF IoOK, Null
  <2>11. r # <<>> => t.q # <<>> /\ (s.kind = "tls" => t.low)
    <3>1. SUFFICES ASSUME r # <<>> PROVE t.q # <<>> /\ (s.kind = "tls" => t.low)
      OBVIOUS
    <3>2. n < Len(p) /\ p # <<>>
      BY <3>1, <2>5, <1>1, EmptySeq
    <3>. QED  BY <3>2, <2>2, <2>3, <2>7, <2>8
  <2>12. Len(r) <= Len(p)
    BY <2>5, <2>2, <1>1
  <2>. QED  BY <2>5, <2>6, <2>7, <2>8, <2>10, <2>11, <2>12, <1>3, Zenon
<1>. QED  BY <1>2, <1>3, ZenonT(60), SMTT(60)

\* Of the leg itself it changes neither the kind nor the end.
LEMMA FlushSide ==
    ASSUME NEW s \in IoType, IoOK(s), ~Null(s),
           NEW p \in Seq(Nat), s.fin # "none" => p = <<>>,
           NEW f \in flush_pend(s, p)
    PROVE  f.side \in IoType /\ f.side.kind = s.kind /\ f.side.fin = s.fin
BY FlushFacts, ZenonT(60)

\* tm_io_shutdown_send only adds the end mark.
LEMMA ShutFacts ==
    ASSUME NEW s \in IoType, IoOK(s), ~Null(s)
    PROVE  /\ Shut(s) \in IoType /\ IoOK(Shut(s))
           /\ Shut(s).kind = s.kind /\ Shut(s).q = s.q /\ Shut(s).fin # "none"
<1>1. /\ s.q \in Seq(Nat) /\ s.infl \in Nat /\ s.low \in BOOLEAN
      /\ s.kind \in {"none", "gone", "tcp", "tls"} /\ s.fin \in {"none", "queued", "sent"}
  BY DEF IoType
<1>2. /\ Shut(s).q = s.q /\ Shut(s).infl = s.infl /\ Shut(s).low = s.low /\ Shut(s).kind = s.kind
      /\ Shut(s).fin \in {"queued", "sent"}
      /\ Shut(s).fin = "sent" => s.q = <<>>
      /\ Shut(s) \in IoType
  BY <1>1 DEF Shut, IoType, IoOK
<1>3. Capacity(Shut(s)) = Capacity(s)
  BY <1>2 DEF Capacity
<1>4. IoOK(Shut(s))
  BY <1>2, <1>3 DEF IoOK, Null
<1>. QED  BY <1>2, <1>4

\* A completed write takes the chunks in flight off the queue, in order.
LEMMA CompleteFacts ==
    ASSUME NEW s \in IoType, IoOK(s), ~Null(s), ~Drained(s)
    PROVE  LET t == Complete(s) IN
           /\ t \in IoType /\ IoOK(t)
           /\ t.kind = s.kind /\ t.low = s.low
           /\ t.fin = "none" <=> s.fin = "none"
           /\ SubSeq(s.q, 1, s.infl) \in Seq(Nat)
           /\ SubSeq(s.q, 1, s.infl) \o t.q = s.q
           /\ t.q = <<>> /\ t.fin = "none" => Drained(t)
<1> DEFINE t == Complete(s)
           r == SubSeq(s.q, s.infl + 1, Len(s.q))
<1>1. /\ s.q \in Seq(Nat) /\ s.infl \in Nat /\ s.low \in BOOLEAN
      /\ s.kind \in {"none", "gone", "tcp", "tls"} /\ s.fin \in {"none", "queued", "sent"}
      /\ Len(s.q) \in Nat
  BY LenProperties DEF IoType
<1>2. s.infl \in 0 .. Len(s.q)
  BY <1>1 DEF IoOK
<1>3. /\ SubSeq(s.q, 1, s.infl) \in Seq(Nat)
      /\ r \in Seq(Nat) /\ Len(r) = Len(s.q) - s.infl
      /\ SubSeq(s.q, 1, s.infl) \o r = s.q
  BY <1>1, <1>2, SplitSeq, ZenonT(60), SMTT(60)
<1>4. t = [s EXCEPT !.q = r,
                     !.infl = IF s.kind = "tls" /\ r # <<>> THEN 1 ELSE Len(r),
                     !.fin = IF /\ @ = "queued"
                                /\ IF s.kind = "tcp" THEN r = <<>> ELSE s.q = <<>>
                             THEN "sent" ELSE @]
  BY DEF Complete
<1> HIDE DEF r, t
<1>5. /\ t.q = r /\ t.kind = s.kind /\ t.low = s.low
      /\ t.infl = (IF s.kind = "tls" /\ r # <<>> THEN 1 ELSE Len(r))
      /\ t.fin \in {"none", "queued", "sent"} /\ (t.fin = "none" <=> s.fin = "none")
      /\ t.fin = "sent" => s.fin = "sent" \/ (s.kind = "tcp" /\ r = <<>>) \/ s.q = <<>>
  BY <1>1, <1>4 DEF IoType
<1>6. t.infl \in Nat /\ Len(r) \in Nat
  BY <1>1, <1>2, <1>3, <1>5
<1>7. t \in IoType
  BY <1>1, <1>3, <1>5, <1>6, <1>4, ZenonT(60), SMTT(60) DEF IoType
<1>8. r # <<>> => Len(r) > 0
  BY <1>3, EmptySeq
<1>9. s.q = <<>> => r = <<>>
  BY <1>1, <1>2, <1>3, EmptySeq
<1>10. t.fin = "sent" => r = <<>>
  BY <1>5, <1>9 DEF IoOK
<1>11. Capacity(t) = Capacity(s) /\ Capacity(s) \in Nat
  BY <1>5, RelayAssumption DEF Capacity
<1>12. Len(r) <= Capacity(t)
  BY <1>1, <1>2, <1>3, <1>11 DEF IoOK
<1>13. IoOK(t)
  BY <1>5, <1>6, <1>8, <1>10, <1>12 DEF IoOK, Null
<1>14. t.q = <<>> /\ t.fin = "none" => Drained(t)
  BY DEF Drained
<1>. QED  BY <1>3, <1>5, <1>7, <1>13, <1>14 DEF t

----------------------------------------------------------------------------
(* The flow to one leg: g was delivered, then come q, p and r *)

\* The next chunk may be added to the pre-bind queue r (y is before it), ...
LEMMA FlowR ==
    ASSUME NEW g \in Seq(Nat), NEW y \in Seq(Nat), NEW r \in Seq(Nat), NEW x \in Nat
    PROVE  g \o (y \o Append(r, x)) = (g \o (y \o r)) \o <<x>>
<1>1. <<x>> \in Seq(Nat) /\ Append(r, x) = r \o <<x>>
  BY AppendIsConcat
<1>2. y \o r \in Seq(Nat)
  BY Concat, Zenon
<1>3. y \o (r \o <<x>>) = (y \o r) \o <<x>>
  BY <1>1, Assoc, Zenon
<1>4. g \o ((y \o r) \o <<x>>) = (g \o (y \o r)) \o <<x>>
  BY <1>1, <1>2, Assoc, ZenonT(60), SMTT(60)
<1>. QED  BY <1>1, <1>3, <1>4, Zenon

\* ... to the held-back chunks p when nothing follows them, ...
LEMMA FlowP ==
    ASSUME NEW g \in Seq(Nat), NEW q \in Seq(Nat), NEW p \in Seq(Nat), NEW x \in Nat
    PROVE  g \o ((q \o Append(p, x)) \o <<>>) = (g \o ((q \o p) \o <<>>)) \o <<x>>
<1>1. <<x>> \in Seq(Nat) /\ Append(p, x) = p \o <<x>> /\ <<>> \in Seq(Nat)
  BY AppendIsConcat
<1>2. q \o p \in Seq(Nat) /\ p \o <<x>> \in Seq(Nat)
  BY <1>1, Concat, Zenon
<1>3. q \o (p \o <<x>>) \in Seq(Nat)
  BY <1>2, Concat, Zenon
<1>4. q \o (p \o <<x>>) = (q \o p) \o <<x>>
  BY <1>1, Assoc, Zenon
<1>5. g \o ((q \o p) \o <<x>>) = (g \o (q \o p)) \o <<x>>
  BY <1>1, <1>2, Assoc, ZenonT(60), SMTT(60)
<1>6. (q \o p) \o <<>> = q \o p /\ (q \o (p \o <<x>>)) \o <<>> = q \o (p \o <<x>>)
  BY <1>2, <1>3, Concat, Zenon
<1>. QED  BY <1>1, <1>4, <1>5, <1>6, Zenon

\* ... or to the io queue q when nothing is held back;
LEMMA FlowQ ==
    ASSUME NEW g \in Seq(Nat), NEW q \in Seq(Nat), NEW x \in Nat
    PROVE  g \o (((q \o <<x>>) \o <<>>) \o <<>>) = (g \o ((q \o <<>>) \o <<>>)) \o <<x>>
<1>1. <<x>> \in Seq(Nat) /\ <<>> \in Seq(Nat)
  OBVIOUS
<1>2. q \o <<x>> \in Seq(Nat)
  BY <1>1, Concat, Zenon
<1>3. q \o <<>> = q /\ (q \o <<x>>) \o <<>> = q \o <<x>>
  BY <1>2, Concat, Zenon
<1>4. g \o (q \o <<x>>) = (g \o q) \o <<x>>
  BY <1>1, Assoc, Zenon
<1>. QED  BY <1>3, <1>4, Zenon

\* and a completed write moves chunks from the io queue to the far end.
LEMMA FlowDone ==
    ASSUME NEW g \in Seq(Nat), NEW x \in Seq(Nat), NEW y \in Seq(Nat), NEW p \in Seq(Nat)
    PROVE  (g \o x) \o ((y \o p) \o <<>>) = g \o (((x \o y) \o p) \o <<>>)
<1>1. (x \o y) \o p = x \o (y \o p)
  BY Assoc, SMTT(60), ZenonT(60)
<1>2. y \o p \in Seq(Nat)
  BY Concat, Zenon
<1>3. (g \o x) \o (y \o p) = g \o (x \o (y \o p))
  BY <1>2, Assoc, SMTT(60), ZenonT(60)
<1>4. x \o (y \o p) \in Seq(Nat)
  BY <1>2, Concat, Zenon
<1>5. (y \o p) \o <<>> = y \o p
  BY <1>2, Concat, Zenon
<1>6. (x \o (y \o p)) \o <<>> = x \o (y \o p)
  BY <1>4, Concat, Zenon
<1>. QED  BY <1>1, <1>3, <1>5, <1>6, Zenon

\* The two legs.
LEMMA TwoLegs ==
    ASSUME NEW l \in Legs
    PROVE  /\ Other(l) \in Legs /\ Other(l) # l /\ Other(Other(l)) = l
           /\ \A x \in Legs : x = l \/ x = Other(l)
BY DEF Legs, Other

\* An io below its mark takes one more chunk at its end.
LEMMA AcceptFacts ==
    ASSUME NEW s \in IoType, IoOK(s), ~Null(s), s.fin = "none", Len(s.q) < Capacity(s),
           NEW x \in Nat, NEW lo \in BOOLEAN
    PROVE  LET t == Accept(s, <<x>>, lo) IN
           /\ t \in IoType /\ IoOK(t)
           /\ t.kind = s.kind /\ t.fin = "none"
           /\ t.q = s.q \o <<x>>
<1> DEFINE t == Accept(s, <<x>>, lo)
<1>1. /\ s.q \in Seq(Nat) /\ s.infl \in Nat /\ Len(s.q) \in Nat
      /\ s.kind \in {"none", "gone", "tcp", "tls"}
  BY LenProperties DEF IoType
<1>2. <<x>> \in Seq(Nat) /\ Len(<<x>>) = 1 /\ <<x>> # <<>>
  OBVIOUS
<1>3. s.q \o <<x>> \in Seq(Nat) /\ Len(s.q \o <<x>>) = Len(s.q) + 1
  BY <1>1, <1>2, Concat
<1>4. /\ t.q = s.q \o <<x>> /\ t.low = lo /\ t.kind = s.kind /\ t.fin = "none"
      /\ t.infl = (IF s.infl = 0 THEN 1 ELSE s.infl)
      /\ t \in IoType
  BY <1>1, <1>2, <1>3, ZenonT(60), SMTT(60) DEF Accept, IoType
<1> HIDE DEF t
<1>5. Capacity(t) = Capacity(s) /\ Capacity(s) \in Nat
  BY <1>4, RelayAssumption DEF Capacity
<1>6. s.infl <= Len(s.q) /\ Len(t.q) = Len(s.q) + 1
  BY <1>3, <1>4 DEF IoOK
<1>7. IoOK(t)
  BY <1>1, <1>4, <1>5, <1>6 DEF IoOK, Null
<1>. QED  BY <1>4, <1>7 DEF t

----------------------------------------------------------------------------
(* Every callback keeps the inductive invariant *)

\* The invariant of a stream after the bind, leg by leg.
LegOK(l) ==
    /\ IoOK(leg[l]) /\ leg[l].kind # "none"
    /\ eof[l] => far[l] # "open"
    /\ leg[l].kind = "gone" => eof[l]
    /\ HeldOK(l)
    /\ leg[l].kind # "gone" => got[l] \o (leg[l].q \o pend[l] \o <<>>) = Upto(rd[Other(l)])
    /\ leg[l].fin # "none" => eof[Other(l)] /\ fin[Other(l)]

BoundInv == TypeOK /\ preq = <<>> /\ \A l \in Legs : LegOK(l)

\* A bound stream satisfies it, ...
LEMMA FromBound ==
    ASSUME IndInv, st = "bound"
    PROVE  BoundInv
BY ZenonT(60), SMTT(60) DEF IndInv, BoundInv, LegOK, Waiting, Pre

\* ... it is all there is to show of a step that leaves the stream bound, ...
LEMMA ToBound ==
    ASSUME BoundInv', st' = "bound" \/ (st' = "drained" /\ Settled')
    PROVE  IndInv'
<1>1. /\ TypeOK' /\ preq' = <<>> /\ \A l \in Legs : LegOK(l)'
  BY DEF BoundInv
<1>2. Len(<<>>) = 0 /\ HighWater \in Nat
  BY RelayAssumption
<1>3. Len(preq') <= HighWater
  BY <1>1, <1>2
<1>4. Len(pend'["a"]) <= 1 /\ Len(pend'["b"]) <= HighWater
  BY <1>1 DEF LegOK, HeldOK, Legs
<1>5. \A l \in Legs : Waiting(l)' = (leg'[l].q \o pend'[l]) \o <<>>
  BY <1>1 DEF Waiting, Pre
<1>. QED  BY <1>1, <1>3, <1>4, <1>5, ZenonT(60), SMTT(60) DEF IndInv, LegOK

\* ... and a step that only reads and closes needs less.
LEMMA ToAborted ==
    ASSUME IndInv, st' = "aborted", rd' \in [Legs -> Nat],
           UNCHANGED <<mode, leg, pend, preq, eof, fin, paused, got, far>>
    PROVE  IndInv'
BY SMTT(60), ZenonT(60) DEF IndInv, TypeOK, IoOK, Capacity, Null

\* Types of the parts of one leg.
LEMMA LegTypes ==
    ASSUME TypeOK, NEW l \in Legs
    PROVE  /\ leg[l] \in IoType /\ leg[l].q \in Seq(Nat)
           /\ leg[l].kind \in {"none", "gone", "tcp", "tls"}
           /\ pend[l] \in Seq(Nat) /\ got[l] \in Seq(Nat) /\ rd[l] \in Nat
           /\ eof[l] \in BOOLEAN /\ fin[l] \in BOOLEAN /\ paused[l] \in BOOLEAN
<1>1. leg[l] \in IoType
  BY DEF TypeOK
<1>. QED  BY <1>1 DEF TypeOK, IoType

(* relay_b_read, and relay_a_read once bound: the bytes of one read are       *)
(* queued on the other io, or the part it does not accept is held in pend and *)
(* the reader paused; the invariant survives either way.                      *)
LEMMA PassOnStep ==
    ASSUME IndInv, st = "bound", NEW l \in Legs, NEW x \in Nat, Arrives(l, x),
           ~Null(leg[Other(l)]), PassOn(l, x),
           UNCHANGED <<mode, preq, eof, fin, got, far>>
    PROVE  IndInv'
<1> DEFINE m == Other(l)
           s == leg[m]
<1>1. /\ m \in Legs /\ m # l /\ Other(m) = l /\ \A z \in Legs : z = l \/ z = m
  BY TwoLegs
<1>2. BoundInv
  BY FromBound
<1>3. TypeOK /\ preq = <<>> /\ LegOK(l) /\ LegOK(m)
  BY <1>1, <1>2 DEF BoundInv
<1>4. /\ s \in IoType /\ s.q \in Seq(Nat) /\ pend[m] \in Seq(Nat) /\ got[m] \in Seq(Nat)
      /\ rd[l] \in Nat
  BY <1>1, <1>3, LegTypes, Zenon
<1>5. ~Null(leg[l]) /\ ~paused[l] /\ far[l] = "open" /\ x = rd[l] + 1 /\ rd' = [rd EXCEPT ![l] = x]
  BY SMTT(60), ZenonT(60) DEF Arrives, Reading
<1>6. pend[m] = <<>> /\ s.fin = "none" /\ ~eof[l]
  BY <1>1, <1>3, <1>5, Zenon DEF LegOK, HeldOK
<1>7. s.kind # "gone" /\ got[m] \o ((s.q \o <<>>) \o <<>>) = Upto(rd[l])
  BY <1>1, <1>3, <1>6, ZenonT(60), SMTT(60) DEF LegOK, Null
<1>8. Upto(rd'[l]) = Upto(rd[l]) \o <<x>> /\ rd' \in [Legs -> Nat] /\ rd'[l] = x /\ rd'[m] = rd[m]
  BY <1>1, <1>3, <1>4, <1>5, UptoFacts, ZenonT(60), SMTT(60) DEF TypeOK
<1>9. CASE /\ Len(s.q) < Capacity(s)
           /\ \E lo \in LowAfter(s, 1, FALSE) : leg' = [leg EXCEPT ![m] = Accept(s, <<x>>, lo)]
           /\ UNCHANGED <<st, pend, paused>>
  <2>1. PICK lo \in BOOLEAN : leg' = [leg EXCEPT ![m] = Accept(s, <<x>>, lo)]
    BY <1>9, ZenonT(60), SMTT(60) DEF LowAfter
  <2> DEFINE t == Accept(s, <<x>>, lo)
  <2>2. t \in IoType /\ IoOK(t) /\ t.kind = s.kind /\ t.fin = "none" /\ t.q = s.q \o <<x>>
    BY <1>3, <1>4, <1>6, <1>9, AcceptFacts, ZenonT(60), SMTT(60) DEF LegOK
  <2> HIDE DEF t
  <2>3. leg' \in [Legs -> IoType] /\ leg'[m] = t /\ leg'[l] = leg[l]
    BY <1>1, <1>3, <2>1, <2>2 DEF TypeOK, t
  <2>4. TypeOK'
    BY <1>3, <1>8, <1>9, <2>3, SMTT(60), ZenonT(60) DEF TypeOK
  <2>5. got[m] \o (((s.q \o <<x>>) \o <<>>) \o <<>>) = Upto(rd'[l])
    <3>1. got[m] \o (((s.q \o <<x>>) \o <<>>) \o <<>>) = (got[m] \o ((s.q \o <<>>) \o <<>>)) \o <<x>>
      BY <1>4, FlowQ, Zenon
    <3>. QED  BY <3>1, <1>7, <1>8, Zenon
  <2>6. LegOK(m)'
    BY <1>1, <1>3, <1>6, <1>9, <2>2, <2>3, <2>5, ZenonT(60), SMTT(60) DEF LegOK, HeldOK, Null
  <2>7. LegOK(l)'
    BY <1>1, <1>3, <1>5, <1>8, <1>9, <2>2, <2>3, ZenonT(60), SMTT(60) DEF LegOK, HeldOK, Null
  <2>. QED  BY <1>1, <1>3, <1>9, <2>4, <2>6, <2>7, ToBound DEF BoundInv
<1>10. CASE /\ s.q # <<>>
            /\ leg' = [leg EXCEPT ![m].low = s.kind = "tls"]
            /\ pend' = [pend EXCEPT ![m] = Append(@, x)]
            /\ paused' = [paused EXCEPT ![l] = TRUE]
            /\ UNCHANGED st
  <2> DEFINE t == [s EXCEPT !.low = s.kind = "tls"]
  <2>1. /\ t \in IoType /\ t.kind = s.kind /\ t.fin = "none" /\ t.q = s.q /\ t.infl = s.infl
        /\ s.kind = "tls" => t.low
    BY <1>4, <1>6, ZenonT(60), SMTT(60) DEF IoType
  <2>2. leg' \in [Legs -> IoType] /\ leg'[m] = t /\ leg'[l] = leg[l]
    BY <1>1, <1>3, <1>10, <2>1, SMTT(60), ZenonT(60) DEF TypeOK
  <2> HIDE DEF t
  <2>3. IoOK(t)
    BY <1>3, <2>1, Zenon DEF LegOK, IoOK, Null, Capacity
  <2>4. Append(<<>>, x) \in Seq(Nat) /\ Append(<<>>, x) # <<>> /\ Len(Append(<<>>, x)) = 1
    OBVIOUS
  <2>5. /\ pend' \in [Legs -> Seq(Nat)] /\ pend'[m] = Append(<<>>, x) /\ pend'[l] = pend[l]
        /\ paused' \in [Legs -> BOOLEAN] /\ paused'[l] = TRUE /\ paused'[m] = paused[m]
    BY <1>1, <1>3, <1>6, <1>10, <2>4 DEF TypeOK
  <2>6. TypeOK'
    BY <1>3, <1>8, <1>10, <2>2, <2>5 DEF TypeOK
  <2>7. got[m] \o ((s.q \o Append(<<>>, x)) \o <<>>) = Upto(rd'[l])
    <3>0. <<>> \in Seq(Nat)
      OBVIOUS
    <3>1. got[m] \o ((s.q \o Append(<<>>, x)) \o <<>>) = (got[m] \o ((s.q \o <<>>) \o <<>>)) \o <<x>>
      BY <1>4, <3>0, FlowP, ZenonT(60), SMTT(60)
    <3>. QED  BY <3>1, <1>7, <1>8, Zenon
  <2>8. LegOK(m)'
    <3>1. 1 <= IF m = "b" THEN HighWater ELSE 1
      BY RelayAssumption
    <3>2. paused[m] /\ ~Null(t) /\ ~Null(leg[l]) => pend[l] # <<>>
      BY <1>1, <1>3, <1>4, <2>1, Zenon DEF LegOK, HeldOK, Null
    <3>3. Len(pend'[m]) = 1 /\ paused'[l] /\ paused'[m] = paused[m] /\ pend'[l] = pend[l]
      BY <2>4, <2>5
    <3>4. leg'[m] = t /\ leg'[l] = leg[l] /\ t.fin = "none" /\ t.q # <<>> /\ (t.kind = "tls" => t.low)
      BY <1>10, <2>1, <2>2
    <3>5. HeldOK(m)'
      BY <1>1, <3>1, <3>2, <3>3, <3>4, SMTT(60), ZenonT(60) DEF HeldOK
    <3>. QED  BY <1>1, <1>3, <1>6, <1>10, <2>1, <2>2, <2>3, <2>5, <2>7, <3>5, ZenonT(60), SMTT(60) DEF LegOK
  <2>9. LegOK(l)'
    BY <1>1, <1>3, <1>5, <1>8, <1>10, <2>1, <2>2, <2>4, <2>5, ZenonT(60), SMTT(60) DEF LegOK, HeldOK, Null
  <2>. QED  BY <1>1, <1>3, <1>10, <2>6, <2>8, <2>9, ToBound DEF BoundInv
<1>. QED  BY <1>1, <1>6, <1>9, <1>10, ZenonT(60), SMTT(60) DEF PassOn

\* A leg that has gone.
LEMMA GoneFacts ==
    /\ NewIo("gone") \in IoType /\ IoOK(NewIo("gone")) /\ Null(NewIo("gone"))
    /\ NewIo("gone").kind = "gone" /\ NewIo("gone").fin = "none"
<1>1. <<>> \in Seq(Nat) /\ Len(<<>>) = 0
  OBVIOUS
<1>. QED  BY <1>1, RelayAssumption DEF NewIo, IoType, IoOK, Null, Capacity

(* relay_a_eof, relay_b_eof, relay_a_error and relay_b_error of a bound       *)
(* stream: the leg is marked as ended (and released by an error), the other   *)
(* leg is flushed and shut, and stream_maybe_close may close the stream.      *)
LEMMA EndedBound ==
    ASSUME IndInv, st = "bound", NEW l \in Legs, ~Null(leg[l]), far[l] # "open",
           NEW lg, \/ lg = leg /\ ~paused[l]
                   \/ lg = [leg EXCEPT ![l] = NewIo("gone")],
           Ended(l, lg)
    PROVE  IndInv'
<1> DEFINE m == Other(l)
           s == leg[m]
<1>1. /\ m \in Legs /\ m # l /\ Other(m) = l /\ \A z \in Legs : z = l \/ z = m
  BY TwoLegs
<1>2. TypeOK /\ preq = <<>> /\ LegOK(l) /\ LegOK(m)
  BY <1>1, FromBound DEF BoundInv
<1>3. /\ s \in IoType /\ s.q \in Seq(Nat) /\ pend[m] \in Seq(Nat) /\ got[m] \in Seq(Nat)
      /\ paused[l] \in BOOLEAN /\ leg[l] \in IoType
  BY <1>1, <1>2, LegTypes, Zenon
<1>4. /\ lg \in [Legs -> IoType] /\ lg[m] = s
      /\ lg[l] = leg[l] \/ lg[l] = NewIo("gone")
      /\ ~Null(lg[l]) => lg[l] = leg[l] /\ ~paused[l]
      /\ lg[l].kind # "gone" => lg[l] = leg[l]
  BY <1>1, <1>2, GoneFacts, ZenonT(60), SMTT(60) DEF TypeOK
<1>5. /\ eof' = [eof EXCEPT ![l] = TRUE] /\ UNCHANGED <<mode, preq, paused, rd, got, far>>
      /\ st' = "bound" \/ (st' = "drained" /\ Settled')
  BY DEF Ended, stream_maybe_close
<1>6. eof' \in [Legs -> BOOLEAN] /\ eof'[l] = TRUE /\ eof'[m] = eof[m]
  BY <1>1, <1>2, <1>5, SMTT(60), ZenonT(60) DEF TypeOK
<1>7. IoOK(lg[l]) /\ lg[l].kind # "none" /\ (lg[l].fin # "none" => lg[l] = leg[l])
  BY <1>2, <1>4, GoneFacts, ZenonT(60) DEF LegOK
<1>8. CASE Null(lg[m]) /\ leg' = lg /\ UNCHANGED <<pend, fin>>
  <2>1. TypeOK'
    BY <1>2, <1>4, <1>5, <1>6, <1>8, SMTT(60), ZenonT(60) DEF TypeOK
  <2>2. LegOK(m)'
    BY <1>1, <1>2, <1>4, <1>5, <1>6, <1>8, ZenonT(60), SMTT(60) DEF LegOK, HeldOK
  <2>3. LegOK(l)'
    BY <1>1, <1>2, <1>4, <1>5, <1>6, <1>7, <1>8, ZenonT(60), SMTT(60) DEF LegOK, HeldOK
  <2>. QED  BY <1>1, <1>2, <1>5, <2>1, <2>2, <2>3, ToBound DEF BoundInv
<1>9. CASE /\ ~Null(lg[m])
           /\ \E f \in flush_pend(lg[m], pend[m]) :
               /\ pend' = [pend EXCEPT ![m] = f.rest]
               /\ leg' = [lg EXCEPT ![m] = IF f.rest = <<>> THEN Shut(f.side) ELSE f.side]
               /\ fin' = [fin EXCEPT ![l] = @ \/ f.rest = <<>>]
  <2>1. PICK f \in flush_pend(s, pend[m]) :
               /\ pend' = [pend EXCEPT ![m] = f.rest]
               /\ leg' = [lg EXCEPT ![m] = IF f.rest = <<>> THEN Shut(f.side) ELSE f.side]
               /\ fin' = [fin EXCEPT ![l] = @ \/ f.rest = <<>>]
    BY <1>4, <1>9, ZenonT(60), SMTT(60)
  <2> DEFINE t == IF f.rest = <<>> THEN Shut(f.side) ELSE f.side
  <2>2. /\ IoOK(s) /\ ~Null(s) /\ (s.fin # "none" => pend[m] = <<>>)
        /\ Len(pend[m]) <= IF m = "b" THEN HighWater ELSE 1
    BY <1>2, <1>4, <1>9, Zenon DEF LegOK, HeldOK
  <2>3. /\ f.side \in IoType /\ IoOK(f.side)
        /\ f.side.kind = s.kind /\ f.side.fin = s.fin
        /\ f.rest \in Seq(Nat) /\ Len(f.rest) <= Len(pend[m])
        /\ f.side.q \o f.rest = s.q \o pend[m]
        /\ f.rest # <<>> => /\ f.side.q # <<>> /\ s.fin = "none"
                            /\ s.kind = "tls" => f.side.low
    BY <1>3, <2>2, FlushFacts, ZenonT(60), SMTT(60)
  <2>4. ~Null(f.side)
    BY <2>2, <2>3, ZenonT(60) DEF Null
  <2>5. /\ t \in IoType /\ IoOK(t) /\ t.kind = s.kind /\ t.q = f.side.q
        /\ f.rest # <<>> => t = f.side
        /\ f.rest = <<>> => t.fin # "none"
    BY <2>3, <2>4, ShutFacts, ZenonT(60)
  <2>6. leg' \in [Legs -> IoType] /\ leg'[m] = t /\ leg'[l] = lg[l]
    BY <1>1, <1>4, <2>1, <2>5
  <2> HIDE DEF t
  <2>7. /\ pend' \in [Legs -> Seq(Nat)] /\ pend'[m] = f.rest /\ pend'[l] = pend[l]
        /\ fin' \in [Legs -> BOOLEAN] /\ fin'[m] = fin[m] /\ (fin[l] => fin'[l])
        /\ f.rest = <<>> => fin'[l]
    BY <1>1, <1>2, <2>1, <2>3, ZenonT(60), SMTT(60) DEF TypeOK
  <2>8. TypeOK'
    BY <1>2, <1>5, <1>6, <2>6, <2>7, SMTT(60), ZenonT(60) DEF TypeOK
  <2>9. f.rest # <<>> => pend[m] # <<>>
    BY ONLY <1>3, <2>3, NotEmpty, Zenon
  <2>10. f.rest # <<>> /\ ~Null(lg[l]) => paused[l]
    BY <1>1, <1>2, <1>4, <2>9, ZenonT(60) DEF LegOK, HeldOK
  <2>11. Len(f.rest) <= IF m = "b" THEN HighWater ELSE 1
    <3>1. Len(f.rest) \in Nat /\ Len(pend[m]) \in Nat /\ HighWater \in Nat
      BY <1>3, <2>3, LenProperties, RelayAssumption, Zenon
    <3>2. Len(f.rest) <= Len(pend[m])
      BY ONLY <2>3, Zenon
    <3>3. Len(pend[m]) <= IF m = "b" THEN HighWater ELSE 1
      BY ONLY <2>2, Zenon
    <3>4. PICK lr, lp, w : lr = Len(f.rest) /\ lp = Len(pend[m]) /\ w = IF m = "b" THEN HighWater ELSE 1
      BY Zenon
    <3>5. lr \in Nat /\ lp \in Nat /\ w \in Nat /\ lr <= lp /\ lp <= w
      BY ONLY <3>1, <3>2, <3>3, <3>4
    <3>6. lr <= w
      BY ONLY <3>5
    <3>. QED  BY ONLY <3>4, <3>6, Zenon
  <2>12a. f.rest # <<>> => t.fin = "none" /\ t.q # <<>> /\ (t.kind = "tls" => t.low)
    <3>1. SUFFICES ASSUME f.rest # <<>>
                   PROVE  t.fin = "none" /\ t.q # <<>> /\ (t.kind = "tls" => t.low)
      OBVIOUS
    <3>2. t = f.side
      BY <2>5, <3>1, SMTT(60), ZenonT(60)
    <3>3. f.side.q # <<>> /\ s.fin = "none" /\ (s.kind = "tls" => f.side.low)
      BY <2>3, <3>1, ZenonT(60)
    <3>4. f.side.kind = s.kind /\ f.side.fin = s.fin
      BY <2>3
    <3>. QED  BY <3>2, <3>3, <3>4
  <2>12. s.kind # "gone" => got[m] \o ((t.q \o f.rest) \o <<>>) = Upto(rd[l])
    BY <1>1, <1>2, <2>3, <2>5, Zenon DEF LegOK
  <2>13. LegOK(m)'
    <3>1. HeldOK(m)'
      <4>1. pend'[m] # <<>> =>
              /\ t.fin = "none" /\ t.q # <<>> /\ (t.kind = "tls" => t.low)
              /\ ~Null(lg[l]) => paused[l]
        BY <2>7, <2>10, <2>12a, SMTT(60), ZenonT(60)
      <4>2. paused[m] /\ ~Null(t) /\ ~Null(lg[l]) => pend[l] # <<>>
        BY <1>1, <1>2, <1>4, <2>2, ZenonT(60), SMTT(60) DEF LegOK, HeldOK
      <4>. QED  BY <1>1, <1>5, <2>6, <2>7, <2>11, <4>1, <4>2, ZenonT(60) DEF HeldOK
    <3>2. t.fin # "none" => eof'[l] /\ fin'[l]
      BY <1>6, <2>7, <2>12a, SMTT(60), ZenonT(60)
    <3>3. t.kind # "none" /\ (eof'[m] => far'[m] # "open") /\ (t.kind = "gone" => eof'[m])
      BY <1>2, <1>5, <1>6, <2>5, ZenonT(60) DEF LegOK
    <3>. QED  BY <1>1, <1>5, <2>5, <2>6, <2>7, <2>12, <3>1, <3>2, <3>3, ZenonT(60), SMTT(60) DEF LegOK
  <2>14. LegOK(l)'
    <3>1. Null(t) <=> Null(s)
      BY <2>5, SMTT(60), ZenonT(60) DEF Null
    <3>2. HeldOK(l)'
      <4>0. HeldOK(l)
        BY <1>2, ZenonT(60) DEF LegOK
      <4>1. lg[l] = leg[l] \/ (Null(lg[l]) /\ lg[l].fin = "none")
        BY <1>4, GoneFacts, Zenon
      <4>2. pend[l] # <<>> =>
              /\ lg[l].fin = "none"
              /\ ~Null(lg[l]) => lg[l].q # <<>> /\ (lg[l].kind = "tls" => lg[l].low)
              /\ ~Null(t) => paused[m]
        BY <3>1, <4>0, <4>1, Zenon DEF HeldOK
      <4>3. ~(paused[l] /\ ~Null(lg[l]))
        BY <1>4
      <4>4. Len(pend[l]) <= IF l = "b" THEN HighWater ELSE 1
        BY <4>0, SMTT(60), ZenonT(60) DEF HeldOK
      <4>. QED  BY <1>1, <1>5, <2>6, <2>7, <4>2, <4>3, <4>4, SMTT(60), ZenonT(60) DEF HeldOK
    <3>3. lg[l].fin # "none" => eof'[m] /\ fin'[m]
      BY <1>1, <1>2, <1>4, <1>6, <1>7, <2>7, ZenonT(40), SMTT(40) DEF LegOK
    <3>4. lg[l].kind # "gone" => got[l] \o ((lg[l].q \o pend'[l]) \o <<>>) = Upto(rd[m])
      BY <1>2, <1>4, <2>7, ZenonT(60), SMTT(60) DEF LegOK
    <3>. QED  BY <1>1, <1>2, <1>5, <1>6, <1>7, <2>6, <3>2, <3>3, <3>4, ZenonT(60), SMTT(60) DEF LegOK
  <2>. QED  BY <1>1, <1>2, <1>5, <2>8, <2>13, <2>14, ToBound, SMTT(60), ZenonT(60) DEF BoundInv
<1>. QED  BY <1>8, <1>9 DEF Ended

\* A leg a that ends before the bind only sets a_eof: there is no other leg.
LEMMA EndedPending ==
    ASSUME IndInv, st = "pending", NEW l \in Legs, ~Null(leg[l]), far[l] # "open",
           NEW lg, lg = leg \/ lg = [leg EXCEPT ![l] = NewIo("gone")],
           Ended(l, lg)
    PROVE  IndInv'
<1>1. PendingOK /\ TypeOK
  BY ZenonT(60) DEF IndInv
<1>2. l = "a"
  BY <1>1 DEF PendingOK, Null, Legs
<1>3. /\ lg \in [Legs -> IoType] /\ lg["b"] = leg["b"]
      /\ lg["a"] = leg["a"] \/ lg["a"] = NewIo("gone")
  BY <1>1, <1>2, GoneFacts DEF TypeOK, Legs
<1>4. Null(lg[Other(l)])
  BY <1>1, <1>2, <1>3 DEF Other, PendingOK, Null
<1>5. /\ leg' = lg /\ eof' = [eof EXCEPT !["a"] = TRUE] /\ stream_maybe_close
      /\ UNCHANGED <<mode, pend, fin, preq, paused, rd, got, far>>
  BY <1>2, <1>4 DEF Ended
<1>6. eof' \in [Legs -> BOOLEAN] /\ eof'["b"] = FALSE /\ eof'["a"] = TRUE
  BY <1>1, <1>5 DEF TypeOK, PendingOK, Legs
<1>7. st' = "pending"
  BY <1>5, <1>6 DEF stream_maybe_close, Settled
<1>8. TypeOK'
  BY <1>1, <1>3, <1>5, <1>6, <1>7, SMTT(60), ZenonT(60) DEF TypeOK
<1>9. lg["a"].q = <<>> /\ lg["a"].fin = "none" /\ IoOK(lg["a"])
  <2>1. leg["a"].q = <<>> /\ leg["a"].fin = "none" /\ IoOK(leg["a"])
    BY <1>1 DEF PendingOK, IndInv, Legs
  <2>2. NewIo("gone").q = <<>> /\ NewIo("gone").fin = "none"
    BY SMTT(60), ZenonT(60) DEF NewIo
  <2>. QED  BY <1>3, <2>1, <2>2, GoneFacts
<1>10. PendingOK'
  BY <1>1, <1>3, <1>5, <1>6, <1>9, SMTT(60), ZenonT(60) DEF PendingOK
<1>11. \A k \in Legs : IoOK(lg[k]) /\ (eof'[k] => far'[k] # "open") /\ (lg[k].kind = "gone" => eof'[k])
  BY <1>1, <1>2, <1>3, <1>5, <1>6, <1>9, Zenon DEF IndInv, Legs, PendingOK
<1>12. \A k \in Legs : /\ lg[k].kind # "gone" => got'[k] \o Waiting(k)' = Upto(rd'[Other(k)])
                       /\ lg[k].fin = "none"
  <2>1. \A k \in Legs : lg[k].kind # "gone" => lg[k] = leg[k]
    BY <1>3, GoneFacts, SMTT(60), ZenonT(60) DEF Legs
  <2>2. \A k \in Legs : leg[k].fin = "none"
    BY <1>1 DEF PendingOK, IndInv, IoOK, Null, Legs
  <2>3. \A k \in Legs : lg[k].fin = "none"
    BY <1>3, <1>9, <2>2 DEF Legs
  <2>. QED  BY <1>5, <2>1, <2>3, ZenonT(60), SMTT(60) DEF IndInv, Waiting, Pre
<1>. QED  BY <1>5, <1>7, <1>8, <1>10, <1>11, <1>12, ZenonT(60) DEF IndInv, PendingOK

\* A chunk read before the bind goes to the end of the pre-bind queue, or
\* closes the stream when the queue is full.
LEMMA PreReadStep ==
    ASSUME IndInv, relay_a_read, Null(leg["b"])
    PROVE  IndInv'
<1>1. PICK x \in 1 .. MaxSend["a"] :
      /\ Arrives("a", x)
      /\ IF eof["b"] \/ Len(preq) + 1 > HighWater + 1
         THEN tm_stream_close /\ UNCHANGED <<preq, paused>>
         ELSE /\ preq' = Append(preq, x)
              /\ paused' = [paused EXCEPT !["a"] = @ \/ Len(preq) + 1 >= HighWater]
              /\ UNCHANGED st
      /\ UNCHANGED <<leg, pend, mode, eof, fin, got, far>>
  BY DEF relay_a_read
<1>2. /\ Live /\ ~paused["a"] /\ x = rd["a"] + 1 /\ rd' = [rd EXCEPT !["a"] = x]
  BY <1>1 DEF Arrives, Reading
<1>3. TypeOK /\ x \in Nat /\ rd["a"] \in Nat /\ Len(preq) \in Nat /\ HighWater \in Nat
  <2>1. TypeOK /\ x \in Nat /\ HighWater \in Nat
    BY RelayAssumption DEF IndInv
  <2>2. preq \in Seq(Nat) /\ rd["a"] \in Nat
    BY <2>1 DEF TypeOK, Legs
  <2>. QED  BY <2>1, <2>2, LenProperties
<1>4. rd' \in [Legs -> Nat] /\ rd'["a"] = x /\ rd'["b"] = rd["b"]
  BY <1>2, <1>3 DEF TypeOK, Legs
<1>5. CASE st' = "aborted" /\ UNCHANGED <<preq, paused>>
  BY <1>1, <1>4, <1>5, ToAborted, SMTT(60), ZenonT(60)
<1>6. CASE /\ ~eof["b"]
           /\ preq' = Append(preq, x)
           /\ paused' = [paused EXCEPT !["a"] = @ \/ Len(preq) + 1 >= HighWater]
           /\ UNCHANGED st
  <2>1. st = "pending" /\ PendingOK
    BY <1>2, <1>6, Zenon DEF IndInv, Live, Null, Legs
  <2>2. /\ preq' \in Seq(Nat) /\ Len(preq') = Len(preq) + 1
        /\ paused' \in [Legs -> BOOLEAN] /\ paused'["b"] = paused["b"]
        /\ ~paused'["a"] => Len(preq) + 1 < HighWater
    <3>1. preq \in Seq(Nat) /\ paused \in [Legs -> BOOLEAN] /\ "a" \in Legs /\ "b" \in Legs
      BY <1>3 DEF TypeOK, Legs
    <3>2. preq' \in Seq(Nat) /\ Len(preq') = Len(preq) + 1
      BY <1>3, <1>6, <3>1, AppendProperties
    <3>3. paused' \in [Legs -> BOOLEAN] /\ paused'["b"] = paused["b"]
      BY <1>6, <3>1
    <3>4. ~paused'["a"] => ~(Len(preq) + 1 >= HighWater)
      BY <1>6, <3>1, Zenon
    <3>. QED  BY <1>3, <3>2, <3>3, <3>4
  <2>3. TypeOK'
    BY <1>1, <1>3, <1>4, <1>6, <2>2, SMTT(60), ZenonT(60) DEF TypeOK
  <2>4. PendingOK'
    BY <1>1, <1>2, <1>3, <1>4, <2>1, <2>2 DEF PendingOK
  <2>5. got["b"] \o ((leg["b"].q \o pend["b"]) \o preq') = Upto(rd'["a"])
    <3>1. /\ got["b"] \in Seq(Nat) /\ leg["b"].q \in Seq(Nat) /\ pend["b"] \in Seq(Nat)
          /\ preq \in Seq(Nat)
      BY <1>3, LegTypes, SMTT(60), ZenonT(60) DEF TypeOK, Legs
    <3>2. got["b"] \o ((leg["b"].q \o pend["b"]) \o Append(preq, x))
            = (got["b"] \o ((leg["b"].q \o pend["b"]) \o preq)) \o <<x>>
      <4>1. leg["b"].q \o pend["b"] \in Seq(Nat)
        BY <3>1, Concat, Zenon
      <4> DEFINE g == got["b"]
                 y == leg["b"].q \o pend["b"]
      <4>2. g \in Seq(Nat) /\ y \in Seq(Nat) /\ preq \in Seq(Nat) /\ x \in Nat
        BY <1>3, <3>1, <4>1
      <4> HIDE DEF g, y
      <4>3. g \o (y \o Append(preq, x)) = (g \o (y \o preq)) \o <<x>>
        BY <4>2, FlowR, SMTT(60), ZenonT(60)
      <4>. QED  BY <4>3, Zenon DEF g, y
    <3>3. got["b"] \o ((leg["b"].q \o pend["b"]) \o preq) = Upto(rd["a"])
      BY <2>1, ZenonT(60), SMTT(60) DEF IndInv, PendingOK, Waiting, Pre, Legs, Other
    <3>4. Upto(rd'["a"]) = Upto(rd["a"]) \o <<x>>
      BY <1>2, <1>3, <1>4, UptoFacts, ZenonT(60), SMTT(60)
    <3>. QED  BY <1>6, <3>2, <3>3, <3>4, Zenon
  <2>6. \A k \in Legs : leg[k].kind # "gone" => got'[k] \o Waiting(k)' = Upto(rd'[Other(k)])
    <3>1. CASE leg["a"].kind # "gone"
      <4>1. got["a"] \o ((leg["a"].q \o pend["a"]) \o <<>>) = Upto(rd["b"])
        BY <2>1, <3>1, ZenonT(60), SMTT(60) DEF IndInv, Waiting, Pre, Legs, Other
      <4>. QED  BY <1>1, <1>4, <2>5, <4>1, ZenonT(60), SMTT(60) DEF Waiting, Pre, Legs, Other
    <3>2. CASE leg["a"].kind = "gone"
      BY <1>1, <2>5, <3>2, ZenonT(60), SMTT(60) DEF Waiting, Pre, Legs, Other
    <3>. QED  BY <3>1, <3>2
  <2>7. \A k \in Legs : leg[k].fin # "none" => eof[Other(k)] /\ fin[Other(k)]
    BY <2>1 DEF IndInv
  <2>. QED  BY <1>1, <1>6, <2>1, <2>3, <2>4, <2>6, <2>7, ZenonT(60) DEF IndInv, PendingOK, IoOK, Capacity, Null
<1>. QED  BY <1>1, <1>5, <1>6 DEF tm_stream_close

\* A completed write hands over what was in flight; the low callback refills
\* the leg, passes on an end that waited for its tail, or resumes reading.
LEMMA WriteDoneStep ==
    ASSUME IndInv, NEW l \in Legs, WriteDone(l)
    PROVE  IndInv'
<1> DEFINE m == Other(l)
           s == leg[l]
           x == SubSeq(s.q, 1, s.infl)
           c == Complete(s)
<1>1. /\ m \in Legs /\ m # l /\ Other(m) = l /\ \A z \in Legs : z = l \/ z = m
  BY TwoLegs
<1>2. Live /\ ~Null(s) /\ ~Drained(s) /\ got' = [got EXCEPT ![l] = @ \o x]
  BY DEF WriteDone
<1>3. st = "bound"
  BY <1>2 DEF Live, IndInv, PendingOK, Null, Drained, Legs
<1>4. TypeOK /\ preq = <<>> /\ LegOK(l) /\ LegOK(m)
  BY <1>1, <1>3, FromBound DEF BoundInv
<1>5. /\ s \in IoType /\ s.q \in Seq(Nat) /\ pend[l] \in Seq(Nat) /\ got[l] \in Seq(Nat)
      /\ s.kind \in {"none", "gone", "tcp", "tls"}
  BY <1>1, <1>4, LegTypes, Zenon
<1>6. /\ c \in IoType /\ IoOK(c) /\ c.kind = s.kind /\ c.low = s.low
      /\ c.fin = "none" <=> s.fin = "none"
      /\ x \in Seq(Nat) /\ x \o c.q = s.q
      /\ c.q = <<>> /\ c.fin = "none" => Drained(c)
  BY <1>2, <1>4, <1>5, CompleteFacts, ZenonT(60), SMTT(60) DEF LegOK
<1>7. \/ /\ CallsLow(c) /\ Low(l, [c EXCEPT !.low = FALSE])
      \/ /\ ~CallsLow(c) /\ leg' = [leg EXCEPT ![l] = c]
         /\ UNCHANGED <<mode, st, pend, preq, eof, fin, paused, rd, far>>
  BY DEF WriteDone
<1> HIDE DEF x, c
<1>8. c.q \in Seq(Nat) /\ ~Null(c) /\ c.kind \in {"tcp", "tls"}
  BY <1>2, <1>5, <1>6 DEF IoType, Null
<1>9. (got[l] \o x) \o ((c.q \o pend[l]) \o <<>>) = Upto(rd[m])
  <2>1. got[l] \o ((s.q \o pend[l]) \o <<>>) = Upto(rd[m])
    BY <1>2, <1>4, ZenonT(60), SMTT(60) DEF LegOK, Null
  <2> DEFINE g == got[l]
             y == c.q
             p == pend[l]
  <2>2. g \in Seq(Nat) /\ x \in Seq(Nat) /\ y \in Seq(Nat) /\ p \in Seq(Nat)
    BY <1>5, <1>6, <1>8
  <2> HIDE DEF g, y, p
  <2>3. (g \o x) \o ((y \o p) \o <<>>) = g \o (((x \o y) \o p) \o <<>>)
    BY ONLY <2>2, FlowDone, SMTT(60), ZenonT(60)
  <2>. QED  BY <1>6, <2>1, <2>3, Zenon DEF g, y, p
<1>10. /\ got' \in [Legs -> Seq(Nat)] /\ got'[l] = got[l] \o x /\ got'[m] = got[m]
  <2>1. got[l] \o x \in Seq(Nat)
    BY <1>5, <1>6, Concat, Zenon
  <2>. QED  BY <1>1, <1>2, <1>4, <2>1 DEF TypeOK
<1>11. c.fin # "none" => pend[l] = <<>> /\ eof[m] /\ fin[m]
  BY <1>4, <1>6, ZenonT(60), SMTT(60) DEF LegOK, HeldOK
<1>12. CASE /\ ~CallsLow(c) /\ leg' = [leg EXCEPT ![l] = c]
            /\ UNCHANGED <<mode, st, pend, preq, eof, fin, paused, rd, far>>
  <2>1. leg' \in [Legs -> IoType] /\ leg'[l] = c /\ leg'[m] = leg[m]
    BY <1>1, <1>4, <1>6, <1>12, Zenon DEF TypeOK
  <2>2. TypeOK'
    BY <1>4, <1>10, <1>12, <2>1 DEF TypeOK
  <2>3. pend[l] # <<>> => c.fin = "none" /\ c.q # <<>> /\ (c.kind = "tls" => c.low)
    BY <1>2, <1>4, <1>6, <1>8, <1>11, <1>12, ZenonT(60), SMTT(60) DEF LegOK, HeldOK, CallsLow
  <2>4. HeldOK(l)' /\ HeldOK(m)'
    BY <1>1, <1>2, <1>4, <1>8, <1>12, <2>1, <2>3, ZenonT(60), SMTT(60) DEF LegOK, HeldOK
  <2>5. LegOK(l)'
    BY <1>4, <1>6, <1>8, <1>9, <1>10, <1>11, <1>12, <2>1, <2>4, ZenonT(60), SMTT(60) DEF LegOK
  <2>6. LegOK(m)'
    BY <1>1, <1>4, <1>10, <1>12, <2>1, <2>4, ZenonT(60), SMTT(60) DEF LegOK
  <2>. QED  BY <1>1, <1>3, <1>4, <1>12, <2>2, <2>5, <2>6, ToBound DEF BoundInv
<1>13. CASE CallsLow(c) /\ Low(l, [c EXCEPT !.low = FALSE])
  <2> DEFINE d == [c EXCEPT !.low = FALSE]
  <2>1. d \in IoType /\ d.q = c.q /\ d.infl = c.infl /\ d.kind = c.kind /\ d.fin = c.fin
    BY <1>6, ZenonT(60), SMTT(60) DEF IoType
  <2>2. PICK f \in flush_pend(d, pend[l]) :
         /\ pend' = [pend EXCEPT ![l] = f.rest]
         /\ IF f.rest # <<>>
            THEN /\ leg' = [leg EXCEPT ![l] = f.side]
                 /\ UNCHANGED <<fin, paused>>
            ELSE /\ leg' = [leg EXCEPT ![l] = IF eof[m] /\ ~fin[m] THEN Shut(f.side) ELSE f.side]
                 /\ fin' = [fin EXCEPT ![m] = @ \/ eof[m]]
                 /\ paused' = [paused EXCEPT ![m] = @ /\ Null(leg[m])]
    BY <1>13, ZenonT(60), SMTT(60) DEF Low
  <2>3. /\ UNCHANGED <<mode, preq, eof, rd, far>>
        /\ st' = "bound" \/ (st' = "drained" /\ Settled')
    BY <1>3, <1>13, SMTT(60), ZenonT(60) DEF Low, stream_maybe_close
  <2> HIDE DEF d
  <2>4. IoOK(d) /\ ~Null(d)
    BY <1>6, <1>8, <2>1 DEF IoOK, Null, Capacity
  <2>5. /\ f.side \in IoType /\ IoOK(f.side)
        /\ f.side.kind = d.kind /\ f.side.fin = d.fin
        /\ f.rest \in Seq(Nat) /\ Len(f.rest) <= Len(pend[l])
        /\ f.side.q \o f.rest = d.q \o pend[l]
        /\ f.rest # <<>> => /\ f.side.q # <<>> /\ d.fin = "none"
                            /\ d.kind = "tls" => f.side.low
    <3>1. (d.fin # "none" => pend[l] = <<>>) /\ pend[l] \in Seq(Nat) /\ d \in IoType
      BY <1>5, <1>11, <2>1, SMTT(60), ZenonT(60)
    <3>. QED  BY <2>4, <3>1, FlushFacts, ZenonT(60), SMTT(60)
  <2>6. ~Null(f.side)
    BY <2>4, <2>5, SMTT(60), ZenonT(60) DEF Null
  <2> DEFINE t == IF f.rest = <<>> /\ eof[m] /\ ~fin[m] THEN Shut(f.side) ELSE f.side
  <2>7. /\ t \in IoType /\ IoOK(t) /\ t.kind = s.kind /\ t.q = f.side.q
        /\ f.rest # <<>> => t = f.side
        /\ t.fin # "none" => f.side.fin # "none" \/ (f.rest = <<>> /\ eof[m])
    BY <1>6, <2>1, <2>5, <2>6, ShutFacts, ZenonT(60)
  <2>8. leg' = [leg EXCEPT ![l] = t]
    BY <2>2, ZenonT(60)
  <2> HIDE DEF t
  <2>9. leg' \in [Legs -> IoType] /\ leg'[l] = t /\ leg'[m] = leg[m]
    BY <1>1, <1>4, <2>7, <2>8, SMTT(60), ZenonT(60) DEF TypeOK
  <2>10. /\ pend' \in [Legs -> Seq(Nat)] /\ pend'[l] = f.rest /\ pend'[m] = pend[m]
    BY <1>1, <1>4, <2>2, <2>5, ZenonT(60), SMTT(60) DEF TypeOK
  <2>11. /\ fin' \in [Legs -> BOOLEAN] /\ fin'[l] = fin[l] /\ (fin[m] => fin'[m])
         /\ f.rest = <<>> /\ eof[m] => fin'[m]
    BY <1>1, <1>4, <2>2, ZenonT(60), SMTT(60) DEF TypeOK
  <2>12. /\ paused' \in [Legs -> BOOLEAN] /\ paused'[l] = paused[l]
         /\ f.rest # <<>> => paused'[m] = paused[m]
         /\ f.rest = <<>> => paused'[m] = (paused[m] /\ Null(leg[m]))
    BY <1>1, <1>4, <2>2, ZenonT(60), SMTT(60) DEF TypeOK
  <2>13. TypeOK'
    BY <1>4, <1>10, <2>3, <2>9, <2>10, <2>11, <2>12, ZenonT(60) DEF TypeOK
  <2>14. f.rest # <<>> => pend[l] # <<>>
    BY ONLY <1>5, <2>5, NotEmpty, Zenon
  <2>15. f.rest # <<>> => t.fin = "none" /\ t.q # <<>> /\ (t.kind = "tls" => t.low)
    BY <2>5, <2>7, ZenonT(60)
  <2>16. t.fin # "none" => eof[m] /\ fin'[m]
    BY <1>11, <2>1, <2>5, <2>7, <2>11, Zenon
  <2>17. (got[l] \o x) \o ((t.q \o f.rest) \o <<>>) = Upto(rd[m])
    BY <1>9, <2>1, <2>5, <2>7, Zenon
  <2>18. Len(f.rest) <= IF l = "b" THEN HighWater ELSE 1
    <3>1. Len(f.rest) \in Nat /\ Len(pend[l]) \in Nat /\ HighWater \in Nat
      BY <1>5, <2>5, LenProperties, RelayAssumption, SMTT(60), ZenonT(60)
    <3>2. Len(pend[l]) <= IF l = "b" THEN HighWater ELSE 1
      BY <1>4, ZenonT(60) DEF LegOK, HeldOK
    <3>. QED  BY <2>5, <3>1, <3>2, SMTT(60), ZenonT(60)
  <2>19. ~Null(t)
    BY <1>2, <2>7, ZenonT(60) DEF Null
  <2>20. LegOK(l)'
    <3>1. f.rest # <<>> /\ ~Null(leg[m]) => paused'[m]
      BY <1>4, <2>12, <2>14, ZenonT(60), SMTT(60) DEF LegOK, HeldOK
    <3>2. paused[l] /\ ~Null(leg[m]) => pend[m] # <<>>
      BY <1>2, <1>4, ZenonT(60), SMTT(60) DEF LegOK, HeldOK
    <3>3. HeldOK(l)'
      BY <2>9, <2>10, <2>12, <2>15, <2>18, <3>1, <3>2, ZenonT(60) DEF HeldOK
    <3>4. s.kind # "none" /\ s.kind # "gone" /\ (eof[l] => far[l] # "open")
      BY <1>2, <1>4, ZenonT(60) DEF LegOK, Null
    <3>. QED  BY <1>10, <2>3, <2>7, <2>9, <2>10, <2>16, <2>17, <3>3, <3>4, ZenonT(60), SMTT(60) DEF LegOK
  <2>21. LegOK(m)'
    <3>1. HeldOK(m)'
      <4>1. paused'[m] /\ ~Null(leg[m]) => f.rest # <<>>
        BY <2>12, ZenonT(60), SMTT(60)
      <4>2. pend[m] # <<>> => /\ leg[m].fin = "none"
                              /\ ~Null(leg[m]) => leg[m].q # <<>> /\ (leg[m].kind = "tls" => leg[m].low)
                              /\ paused[l]
        BY <1>1, <1>2, <1>4, ZenonT(60), SMTT(60) DEF LegOK, HeldOK
      <4>3. Len(pend[m]) <= IF m = "b" THEN HighWater ELSE 1
        BY <1>4, ZenonT(60) DEF LegOK, HeldOK
      <4>. QED  BY <1>1, <2>9, <2>10, <2>12, <4>1, <4>2, <4>3, ZenonT(60), SMTT(60) DEF HeldOK
    <3>2. leg[m].fin # "none" => eof[l] /\ fin[l]
      BY <1>1, <1>4, Zenon DEF LegOK
    <3>. QED  BY <1>1, <1>4, <1>10, <2>3, <2>9, <2>10, <2>11, <3>1, <3>2, ZenonT(60), SMTT(60) DEF LegOK
  <2>. QED  BY <1>1, <1>4, <2>3, <2>13, <2>20, <2>21, ToBound DEF BoundInv
<1>. QED  BY <1>7, <1>12, <1>13

\* tm_stream_relay_start moves the pre-bind queue, in order, into the fresh
\* agent leg and what that leg does not take into pend_b.
LEMMA StartStep ==
    ASSUME IndInv, relay_start
    PROVE  IndInv'
<1> DEFINE s == NewIo("tls")
<1>1. TypeOK /\ PendingOK /\ "a" \in Legs /\ "b" \in Legs /\ Other("a") = "b" /\ Other("b") = "a"
  BY Zenon DEF IndInv, relay_start, Legs, Other
<1>2. PICK f \in flush_pend(s, preq) :
         /\ leg' = [a |-> IF Null(leg["a"]) THEN NewIo("tcp") ELSE leg["a"], b |-> f.side]
         /\ pend' = [pend EXCEPT !["b"] = f.rest]
         /\ paused' = [paused EXCEPT !["a"] = f.rest # <<>>]
  BY ZenonT(60), SMTT(60) DEF relay_start
<1>3. /\ st' = "bound" /\ preq' = <<>> /\ UNCHANGED <<mode, eof, fin, rd, got, far>>
  BY DEF relay_start
<1>4. <<>> \in Seq(Nat) /\ Len(<<>>) = 0
  OBVIOUS
<1>5. /\ s \in IoType /\ IoOK(s) /\ ~Null(s) /\ s.fin = "none" /\ s.kind = "tls" /\ s.q = <<>>
      /\ NewIo("tcp") \in IoType /\ IoOK(NewIo("tcp")) /\ ~Null(NewIo("tcp"))
      /\ NewIo("tcp").q = <<>> /\ NewIo("tcp").fin = "none" /\ NewIo("tcp").kind = "tcp"
  BY <1>4, RelayAssumption DEF NewIo, IoType, IoOK, Null, Capacity
<1> HIDE DEF s
<1>6. preq \in Seq(Nat) /\ leg["a"] \in IoType
  BY <1>1, SMTT(60), ZenonT(60) DEF TypeOK
<1>7. /\ f.side \in IoType /\ IoOK(f.side)
      /\ f.side.kind = "tls" /\ f.side.fin = "none"
      /\ f.rest \in Seq(Nat) /\ Len(f.rest) <= Len(preq)
      /\ f.side.q \o f.rest = <<>> \o preq
      /\ f.rest # <<>> => f.side.q # <<>> /\ f.side.low
  <2>1. /\ f.side \in IoType /\ IoOK(f.side)
        /\ f.side.kind = s.kind /\ f.side.fin = s.fin
        /\ f.rest \in Seq(Nat) /\ Len(f.rest) <= Len(preq)
        /\ f.side.q \o f.rest = s.q \o preq
        /\ f.rest # <<>> => /\ f.side.q # <<>> /\ s.fin = "none"
                            /\ s.kind = "tls" => f.side.low
    BY <1>5, <1>6, FlushFacts, ZenonT(60), SMTT(60)
  <2>. QED  BY <1>5, <2>1
<1> DEFINE a == IF Null(leg["a"]) THEN NewIo("tcp") ELSE leg["a"]
<1>8. /\ a \in IoType /\ IoOK(a) /\ a.q = <<>> /\ a.fin = "none"
      /\ a.kind # "none" /\ a.kind # "gone"
  BY <1>1, <1>5, <1>6, Zenon DEF IndInv, PendingOK, Null
<1>9. leg' \in [Legs -> IoType] /\ leg'["a"] = a /\ leg'["b"] = f.side
  <2>1. leg' = [a |-> a, b |-> f.side]
    BY <1>2, ZenonT(60)
  <2>. HIDE DEF a
  <2>. QED  BY <1>7, <1>8, <2>1, SMTT(60), ZenonT(60) DEF Legs
<1> HIDE DEF a
<1>10. /\ pend' \in [Legs -> Seq(Nat)] /\ pend'["b"] = f.rest /\ pend'["a"] = <<>>
       /\ paused' \in [Legs -> BOOLEAN] /\ paused'["a"] = (f.rest # <<>>) /\ ~paused'["b"]
  BY <1>1, <1>2, <1>7, ZenonT(60) DEF TypeOK, PendingOK
<1>11. TypeOK'
  BY <1>1, <1>3, <1>4, <1>9, <1>10, SMTT(60), ZenonT(60) DEF TypeOK
<1>12. Len(f.rest) <= HighWater
  <2>1. Len(f.rest) \in Nat /\ Len(preq) \in Nat /\ HighWater \in Nat
    BY <1>6, <1>7, LenProperties, RelayAssumption, SMTT(60), ZenonT(60)
  <2>. QED  BY <1>1, <1>7, <2>1 DEF PendingOK
<1>13. LegOK("a")'
  <2>1. HeldOK("a")'
    BY <1>1, <1>4, <1>9, <1>10 DEF HeldOK
  <2>2. <<>> \o ((<<>> \o <<>>) \o <<>>) = Upto(0)
    BY <1>4, UptoFacts, Concat, Zenon
  <2>3. got["a"] = <<>> /\ rd["b"] = 0 /\ (eof["a"] => far["a"] # "open")
    BY <1>1, ZenonT(60) DEF PendingOK, IndInv
  <2>. QED  BY <1>1, <1>3, <1>8, <1>9, <1>10, <2>1, <2>2, <2>3, SMTT(60), ZenonT(60) DEF LegOK
<1>14. LegOK("b")'
  <2>1. HeldOK("b")'
    BY <1>1, <1>7, <1>9, <1>10, <1>12, Zenon DEF HeldOK
  <2>2. <<>> \o ((f.side.q \o f.rest) \o <<>>) = Upto(rd["a"])
    <3>1. <<>> \o ((<<>> \o <<>>) \o preq) = Upto(rd["a"])
      <4>1. leg["b"].q = <<>> /\ leg["b"].kind # "gone" /\ got["b"] = <<>> /\ pend["b"] = <<>>
        BY <1>1 DEF PendingOK, IndInv, IoOK, Null
      <4>2. got["b"] \o ((leg["b"].q \o pend["b"]) \o preq) = Upto(rd["a"])
        BY <1>1, <4>1, ZenonT(60), SMTT(60) DEF IndInv, Waiting, Pre, relay_start
      <4>. QED  BY <4>1, <4>2, Zenon
    <3>2. <<>> \o <<>> = <<>> /\ <<>> \o preq = preq /\ preq \o <<>> = preq
      BY <1>4, <1>6, Concat, Zenon
    <3>. QED  BY <1>7, <3>1, <3>2, Zenon
  <2>3. got["b"] = <<>> /\ ~eof["b"]
    BY <1>1 DEF PendingOK
  <2>. QED  BY <1>1, <1>3, <1>7, <1>9, <1>10, <2>1, <2>2, <2>3, ZenonT(60), SMTT(60) DEF LegOK
<1>15. BoundInv'
  BY <1>3, <1>11, <1>13, <1>14, SMTT(60), ZenonT(60) DEF BoundInv, Legs
<1>. QED  BY <1>3, <1>15, ToBound, SMTT(60), ZenonT(60)

----------------------------------------------------------------------------
(* The invariant is inductive *)

\* A new stream has read, queued and delivered nothing.
LEMMA InitInv == Init => IndInv
<1> SUFFICES ASSUME Init PROVE IndInv
  OBVIOUS
<1>1. <<>> \in Seq(Nat) /\ Len(<<>>) = 0 /\ <<>> \o ((<<>> \o <<>>) \o <<>>) = Upto(0) /\ HighWater \in Nat \ {0}
  <2>1. <<>> \in Seq(Nat) /\ Len(<<>>) = 0 /\ Upto(0) = <<>> /\ 0 \in Nat
    BY UptoFacts, ZenonT(60), SMTT(60)
  <2>2. <<>> \o <<>> = <<>>
    BY <2>1, Concat, Zenon
  <2>. QED  BY <2>1, <2>2, RelayAssumption
<1>2. \A l \in Legs : /\ leg[l] \in IoType /\ IoOK(leg[l]) /\ leg[l].kind # "gone"
                      /\ leg[l].fin = "none" /\ leg[l].q = <<>>
  BY <1>1 DEF Init, NewIo, IoType, IoOK, Null, Capacity
<1>3. TypeOK
  BY <1>1, <1>2, RelayAssumption DEF Init, TypeOK, Legs
<1>4. PendingOK
  BY <1>1, <1>2 DEF Init, PendingOK, Legs, NewIo
<1>5. \A l \in Legs : got[l] \o Waiting(l) = Upto(rd[Other(l)])
  <2>1. \A l \in Legs : Waiting(l) = (<<>> \o <<>>) \o <<>>
    BY <1>2, SMTT(60), ZenonT(60) DEF Init, Waiting, Pre
  <2>. QED  BY <1>1, <2>1, TwoLegs DEF Init
<1>6. st = "pending" /\ \A l \in Legs : ~eof[l]
  BY DEF Init
<1>7. Len(preq) <= HighWater /\ Len(pend["a"]) <= 1 /\ Len(pend["b"]) <= HighWater
  BY <1>1 DEF Init, Legs
<1>. QED  BY ONLY <1>2, <1>3, <1>4, <1>5, <1>6, <1>7, ZenonT(60), SMTT(60) DEF IndInv

\* What the far ends do on their own changes nothing the relay holds.
LEMMA FarStep ==
    ASSUME IndInv, NEW l \in Legs, FarFin(l) \/ FarClose(l) \/ FarReset(l)
    PROVE  IndInv'
<1>1. UNCHANGED relayVars
  BY DEF FarFin, FarClose, FarReset
<1>2. /\ far' \in [Legs -> {"open", "fin", "closed", "reset"}]
      /\ \A k \in Legs : far[k] # "open" => far'[k] # "open"
  BY ZenonT(60), SMTT(60) DEF FarFin, FarClose, FarReset, IndInv, TypeOK
<1>3. TypeOK'
  BY <1>1, <1>2, SMTT(60), ZenonT(60) DEF IndInv, TypeOK, relayVars
<1>4. \A k \in Legs : /\ (eof'[k] => far'[k] # "open") /\ (leg'[k].kind = "gone" => eof'[k])
                      /\ IoOK(leg[k])' /\ Waiting(k)' = Waiting(k)
  BY <1>1, <1>2, ZenonT(60), SMTT(60) DEF IndInv, relayVars, IoOK, Capacity, Null, Waiting, Pre
<1>5. /\ st = "pending" => PendingOK'
      /\ st \in {"bound", "drained"} => \A k \in Legs : leg[k].kind # "none" /\ HeldOK(k)'
      /\ st = "drained" => Settled'
  BY <1>1, ZenonT(60), SMTT(60) DEF IndInv, relayVars, PendingOK, HeldOK, Settled, Null, Drained
<1>. QED  BY <1>1, <1>3, <1>4, <1>5, ZenonT(60) DEF IndInv, relayVars

\* Every callback of the stream keeps the invariant.
LEMMA NextInv == IndInv /\ [Next]_vars => IndInv'
<1> SUFFICES ASSUME IndInv, [Next]_vars PROVE IndInv'
  OBVIOUS
<1>1. Live => \A l \in Legs : ~Null(leg[l]) => st = "bound" \/ l = "a"
  BY ZenonT(60) DEF Live, IndInv, PendingOK, Null, Legs
<1>2. rd \in [Legs -> Nat] /\ "a" \in Legs /\ "b" \in Legs /\ Other("a") = "b" /\ Other("b") = "a"
  BY DEF IndInv, TypeOK, Legs, Other
<1>3. CASE relay_a_read
  <2>1. CASE ~Null(leg["b"])
    <3>1. PICK x \in 1 .. MaxSend["a"] :
            Arrives("a", x) /\ PassOn("a", x) /\ UNCHANGED <<mode, preq, eof, fin, got, far>>
      BY <1>3, <2>1 DEF relay_a_read
    <3>2. st = "bound" /\ x \in Nat
      BY <1>1, <1>2, <2>1, <3>1 DEF Arrives, Reading
    <3>. QED  BY <1>2, <2>1, <3>1, <3>2, PassOnStep
  <2>. QED  BY <1>3, <2>1, PreReadStep
<1>4. CASE relay_b_read
  <2>1. PICK x \in 1 .. MaxSend["b"] :
          /\ Arrives("b", x)
          /\ \/ Null(leg["a"]) /\ tm_stream_close /\ UNCHANGED <<leg, pend, paused>>
             \/ ~Null(leg["a"]) /\ PassOn("b", x)
          /\ UNCHANGED <<mode, preq, eof, fin, got, far>>
    BY <1>4 DEF relay_b_read
  <2>2. st = "bound" /\ x \in Nat /\ rd' \in [Legs -> Nat]
    BY <1>1, <1>2, <2>1 DEF Arrives, Reading
  <2>3. CASE Null(leg["a"]) /\ tm_stream_close /\ UNCHANGED <<leg, pend, paused>>
    BY <2>1, <2>2, <2>3, ToAborted DEF tm_stream_close
  <2>4. CASE ~Null(leg["a"]) /\ PassOn("b", x)
    BY <1>2, <2>1, <2>2, <2>4, PassOnStep
  <2>. QED  BY <2>1, <2>3, <2>4
<1>5. ASSUME NEW l \in Legs, Eof(l) PROVE IndInv'
  <2>1. Live /\ ~Null(leg[l]) /\ ~paused[l] /\ far[l] # "open" /\ Ended(l, leg)
    BY <1>5 DEF Eof, Reading
  <2>2. CASE st = "bound"
    BY <2>1, <2>2, EndedBound
  <2>3. CASE st = "pending"
    BY <2>1, <2>3, EndedPending
  <2>. QED  BY <2>1, <2>2, <2>3 DEF Live
<1>6. ASSUME NEW l \in Legs, Error(l) PROVE IndInv'
  <2>1. /\ Live /\ ~Null(leg[l]) /\ far[l] # "open"
        /\ Ended(l, [leg EXCEPT ![l] = NewIo("gone")])
    BY <1>6 DEF Error
  <2>2. CASE st = "bound"
    BY <2>1, <2>2, EndedBound
  <2>3. CASE st = "pending"
    BY <2>1, <2>3, EndedPending
  <2>. QED  BY <2>1, <2>2, <2>3, SMTT(60), ZenonT(60) DEF Live
<1>7. CASE stream_bind_timer_cb \/ kill_stream
  BY <1>2, <1>7, ToAborted, SMTT(60), ZenonT(60) DEF stream_bind_timer_cb, kill_stream, tm_stream_close
<1>8. CASE UNCHANGED vars
  BY <1>8, ZenonT(60), SMTT(60) DEF vars, IndInv, TypeOK, IoOK, PendingOK, HeldOK, Settled, Waiting, Pre, Null, Drained, Capacity
<1>9. CASE relay_a_eof \/ relay_b_eof \/ relay_a_error \/ relay_b_error
  BY <1>2, <1>5, <1>6, <1>9 DEF relay_a_eof, relay_b_eof, relay_a_error, relay_b_error
<1>10. CASE relay_a_low \/ relay_b_low
  BY <1>2, <1>10, WriteDoneStep DEF relay_a_low, relay_b_low
<1>11. CASE \E l \in Legs : FarFin(l) \/ FarClose(l) \/ FarReset(l)
  <2>1. PICK l \in Legs : FarFin(l) \/ FarClose(l) \/ FarReset(l)
    BY <1>11
  <2>. QED  BY <2>1, FarStep
<1>. QED  BY <1>3, <1>4, <1>7, <1>8, <1>9, <1>10, <1>11, StartStep DEF Next

\* The inductive invariant holds in every state of every stream: the callbacks
\* of relay.c keep the data flow, the held-back chunks and the end marks of
\* both directions consistent.
THEOREM Invariance == Spec => []IndInv
BY InitInv, NextInv, PTL DEF Spec

----------------------------------------------------------------------------
(* What follows from it *)

\* Every variable of a stream keeps its type.
THEOREM TypeCorrect == Spec => []TypeOK
<1>1. IndInv => TypeOK
  BY DEF IndInv
<1>. QED  BY <1>1, Invariance, PTL

\* No chunk is lost, duplicated or reordered between the two legs (relay_x_read,
\* flush_pend, relay_x_low and tm_stream_relay_start move chunks only in order).
THEOREM OrderPreserved == Spec => []InOrder
<1>1. IndInv => InOrder
  BY DEF IndInv, InOrder, Live
<1>. QED  BY <1>1, Invariance, PTL

\* The end of a direction never overtakes its data (tm_io_shutdown_send is
\* called only with an empty pend, and the io sends it behind its queue).
THEOREM TailBeforeFin == Spec => []FinAfterTail
<1>1. IndInv => FinAfterTail
  <2> SUFFICES ASSUME IndInv, Live, NEW l \in Legs, leg[l].fin # "none"
               PROVE  /\ eof[Other(l)] /\ fin[Other(l)] /\ pend[l] = <<>>
                      /\ leg[l].fin = "sent" => got[l] = Upto(rd[Other(l)])
    BY SMTT(60), ZenonT(60) DEF FinAfterTail
  <2>1. ~Null(leg[l]) /\ leg[l].kind # "gone"
    BY ZenonT(60) DEF IndInv, IoOK, Null
  <2>2. st = "bound"
    BY <2>1, ZenonT(60), SMTT(60) DEF IndInv, Live, PendingOK, Null, Legs
  <2>3. BoundInv /\ LegOK(l)
    BY <2>2, FromBound, SMTT(60), ZenonT(60) DEF BoundInv
  <2>4. eof[Other(l)] /\ fin[Other(l)] /\ pend[l] = <<>>
    BY <2>3, ZenonT(60) DEF LegOK, HeldOK
  <2>5. leg[l].fin = "sent" => leg[l].q = <<>>
    BY <2>3, ZenonT(60) DEF LegOK, IoOK
  <2>6. got[l] \o ((leg[l].q \o pend[l]) \o <<>>) = Upto(rd[Other(l)])
    BY <2>1, <2>3, ZenonT(60), SMTT(60) DEF LegOK
  <2>7. got[l] \in Seq(Nat) /\ <<>> \in Seq(Nat)
    BY DEF IndInv, TypeOK
  <2>8. got[l] \o ((<<>> \o <<>>) \o <<>>) = got[l]
    BY <2>7, Concat, Zenon
  <2>. QED  BY <2>4, <2>5, <2>6, <2>8, Zenon
<1>. QED  BY <1>1, Invariance, PTL

\* stream_maybe_close never drops a tail: a stream it closes has delivered
\* everything to each leg that did not fail.
THEOREM TailDelivered == Spec => []NoTailLost
<1>1. IndInv => NoTailLost
  <2> SUFFICES ASSUME IndInv, st = "drained", NEW l \in Legs, leg[l].kind # "gone"
               PROVE  got[l] = Upto(rd[Other(l)]) /\ eof[Other(l)]
    BY ZenonT(60) DEF NoTailLost
  <2>1. Settled /\ leg[l].kind # "none"
    BY Zenon DEF IndInv
  <2>2. leg[l].q = <<>> /\ pend[l] = <<>> /\ preq = <<>> /\ eof[Other(l)]
    BY <2>1, SMTT(60), ZenonT(60) DEF Settled, Null, Drained, Legs, Other
  <2>3. got[l] \o ((leg[l].q \o pend[l]) \o Pre(l)) = Upto(rd[Other(l)]) /\ Pre(l) = <<>>
    BY <2>2, ZenonT(60), SMTT(60) DEF IndInv, Waiting, Pre
  <2>4. got[l] \in Seq(Nat) /\ <<>> \in Seq(Nat)
    BY DEF IndInv, TypeOK
  <2>5. got[l] \o ((<<>> \o <<>>) \o <<>>) = got[l]
    BY <2>4, Concat, Zenon
  <2>. QED  BY <2>2, <2>3, <2>5, Zenon
<1>. QED  BY <1>1, Invariance, PTL

\* The memory of a stream is bounded by the watermarks, whatever the ends do.
THEOREM MemoryBounded == Spec => []BoundedQueues
<1>1. IndInv => BoundedQueues
  BY Zenon DEF IndInv, BoundedQueues, IoOK
<1>. QED  BY <1>1, Invariance, PTL

\* A paused leg always has a write in flight that will wake it (above_low and
\* the low callbacks).
THEOREM WakeupPending == Spec => []NoLostWakeup
<1>1. IndInv => NoLostWakeup
  <2> SUFFICES ASSUME IndInv, st = "bound", NEW l \in Legs, ~Null(leg[l])
               PROVE  /\ pend[l] # <<>> => leg[l].q # <<>> /\ (leg[l].kind = "tls" => leg[l].low)
                      /\ paused[Other(l)] /\ ~Null(leg[Other(l)]) => pend[l] # <<>>
    BY SMTT(60), ZenonT(60) DEF NoLostWakeup
  <2>1. HeldOK(l) /\ HeldOK(Other(l)) /\ Other(Other(l)) = l
    BY TwoLegs, Zenon DEF IndInv
  <2>. QED  BY <2>1, Zenon DEF HeldOK
<1>. QED  BY <1>1, Invariance, PTL

\* What is delivered is what was read: all four parts together.
THEOREM AlwaysFaithful == Spec => []Faithful
BY TypeCorrect, OrderPreserved, TailBeforeFin, TailDelivered, PTL DEF Faithful

\* Backpressure keeps memory bounded and never strands the leg it stops.
THEOREM FlowIsControlled == Spec => []FlowControl
BY MemoryBounded, WakeupPending, PTL DEF FlowControl

----------------------------------------------------------------------------
(* What the ends can tell, from the invariant *)

\* an end that was given its end mark has all of its direction, as has every
\* end of a stream that closed by itself, unless it failed
EndsOK == st \in {"bound", "drained"} => \A l \in Legs :
    /\ OutOf(leg[l]) = "ended" => eof[Other(l)] /\ got[l] = Upto(rd[Other(l)])
    /\ st = "drained" => eof[l] /\ (OutOf(leg[l]) # "down" => got[l] = Upto(rd[Other(l)]))
    /\ leg[l].kind # "gone" => got[l] = Upto(Len(got[l])) /\ Len(got[l]) <= rd[Other(l)]

\* The beginning of a run of chunks is a run of chunks.
LEMMA Beginning ==
    ASSUME NEW g \in Seq(Nat), NEW w \in Seq(Nat), NEW n \in Nat, g \o w = Upto(n)
    PROVE  g = Upto(Len(g)) /\ Len(g) <= n
<1>1. Len(g) \in Nat /\ Len(w) \in Nat
  BY LenProperties
<1>2. Len(g) + Len(w) = n
  <2>1. Len(g \o w) = Len(g) + Len(w)
    BY Concat, Zenon
  <2>2. Len(Upto(n)) = n
    BY UptoFacts, Zenon
  <2>. QED  BY <2>1, <2>2, Zenon
<1>3. \A i \in 1 .. Len(g) : g[i] = i
  <2>1. \A i \in 1 .. Len(g) : (g \o w)[i] = g[i]
    BY ConcatProperties
  <2>2. \A i \in 1 .. n : Upto(n)[i] = i
    BY DEF Upto
  <2>3. 1 .. Len(g) \subseteq 1 .. n
    BY <1>1, <1>2
  <2>. QED  BY <2>1, <2>2, <2>3, Zenon
<1>4. /\ Upto(Len(g)) \in Seq(Nat) /\ Len(Upto(Len(g))) = Len(g)
      /\ \A i \in 1 .. Len(g) : Upto(Len(g))[i] = i
  BY <1>1, UptoFacts DEF Upto
<1>5. g = Upto(Len(g))
  BY <1>3, <1>4, SeqEqual, ZenonT(60), SMTT(60)
<1>. QED  BY <1>1, <1>2, <1>5

\* The invariant of the relay tells what each end has been given.
LEMMA InvEnds == IndInv => EndsOK
<1> SUFFICES ASSUME IndInv, st \in {"bound", "drained"}, NEW l \in Legs
             PROVE  /\ OutOf(leg[l]) = "ended" => eof[Other(l)] /\ got[l] = Upto(rd[Other(l)])
                    /\ st = "drained" => eof[l] /\ (OutOf(leg[l]) # "down" => got[l] = Upto(rd[Other(l)]))
                    /\ leg[l].kind # "gone" => got[l] = Upto(Len(got[l])) /\ Len(got[l]) <= rd[Other(l)]
  BY DEF EndsOK
<1> DEFINE m == Other(l)
<1>1. m \in Legs /\ m # l /\ TypeOK /\ preq = <<>> /\ HeldOK(l) /\ IoOK(leg[l]) /\ leg[l].kind # "none"
  BY TwoLegs DEF IndInv
<1>2. /\ got[l] \in Seq(Nat) /\ leg[l].q \in Seq(Nat) /\ pend[l] \in Seq(Nat)
      /\ <<>> \in Seq(Nat) /\ rd[m] \in Nat
  BY <1>1, LegTypes
<1>3. leg[l].kind # "gone" => got[l] \o ((leg[l].q \o pend[l]) \o <<>>) = Upto(rd[m])
  BY <1>1, ZenonT(60), SMTT(60) DEF IndInv, Waiting, Pre
<1>4. got[l] \o ((<<>> \o <<>>) \o <<>>) = got[l]
  BY <1>2, Concat, Zenon
<1>5. (leg[l].q \o pend[l]) \o <<>> \in Seq(Nat)
  BY <1>2, Concat, Zenon
<1>6. ASSUME OutOf(leg[l]) = "ended" PROVE eof[m] /\ got[l] = Upto(rd[m])
  <2>1. leg[l].kind # "gone" /\ leg[l].fin = "sent"
    BY <1>6 DEF OutOf
  <2>2. leg[l].q = <<>> /\ pend[l] = <<>>
    BY <1>1, <2>1 DEF IoOK, HeldOK
  <2>3. eof[m]
    BY <2>1 DEF IndInv
  <2>. QED  BY <1>3, <1>4, <2>1, <2>2, <2>3, Zenon
<1>7. ASSUME st = "drained" PROVE eof[l] /\ (OutOf(leg[l]) # "down" => got[l] = Upto(rd[m]))
  <2>1. Settled
    BY <1>7 DEF IndInv
  <2>2. eof[l] /\ pend[l] = <<>> /\ (leg[l].kind # "gone" => leg[l].q = <<>>)
    BY <1>1, <2>1, SMTT(60), ZenonT(60) DEF Settled, Null, Drained, Legs
  <2>3. OutOf(leg[l]) # "down" => leg[l].kind # "gone"
    BY DEF OutOf
  <2>. QED  BY <1>3, <1>4, <2>2, <2>3, Zenon
<1>8. ASSUME leg[l].kind # "gone" PROVE got[l] = Upto(Len(got[l])) /\ Len(got[l]) <= rd[m]
  <2> DEFINE w == (leg[l].q \o pend[l]) \o <<>>
             g == got[l]
             n == rd[m]
  <2>1. g \in Seq(Nat) /\ w \in Seq(Nat) /\ n \in Nat /\ g \o w = Upto(n)
    BY <1>2, <1>3, <1>5, <1>8, Zenon
  <2> HIDE DEF w, g, n
  <2>2. g = Upto(Len(g)) /\ Len(g) <= n
    BY <2>1, Beginning, Zenon
  <2>. QED  BY <2>2 DEF g, n
<1>. QED  BY <1>6, <1>7, <1>8

----------------------------------------------------------------------------
(* Every callback is a step of the pipe *)

Outs == {"up", "ended", "down"}

\* a stream of an open tunnel has no leg at all before the bind
OpenInv == mode = "open" /\ (st = "pending" => leg["a"].kind = "none")

\* The ends of the pipe are the legs.
LEMMA PipeEnds ==
    /\ P!Ends = Legs
    /\ \A l \in Legs : P!Opposite(l) = Other(l)
    /\ \A n : P!Chunks(n) = Upto(n)
BY DEF P!Ends, P!Opposite, P!Chunks, Legs, Other, Upto

\* stream_maybe_close closes a stream only when the pipe may close.
LEMMA CloseStep ==
    ASSUME IndInv', st' \in {"bound", "drained"}
    PROVE  P!MayClose
<1>1. EndsOK'
  BY InvEnds, PTL
<1>2. CASE st' = "bound"
  BY <1>2 DEF P!MayClose, Seen
<1>3. CASE st' = "drained"
  <2>1. Seen' = "over"
    BY <1>3 DEF Seen
  <2>2. ASSUME NEW e \in Legs
        PROVE  eof'[e] /\ (OutOf(leg[e])' # "down" => got'[e] = Upto(rd'[Other(e)]))
    BY <1>1, <1>3, <2>2 DEF EndsOK
  <2>. QED  BY <2>1, <2>2, PipeEnds DEF P!MayClose, P!HasAll
<1>. QED  BY <1>2, <1>3

\* A step that leaves one end as o tells, or gives it the end mark.
LEMMA MarkStep ==
    ASSUME IndInv', st' \in {"bound", "drained"}, NEW e \in Legs, NEW o \in [Legs -> Outs],
           OutOf(leg[Other(e)])' = o[Other(e)],
           OutOf(leg[e])' = o[e] \/ (OutOf(leg[e]) = "up" /\ OutOf(leg[e])' = "ended")
    PROVE  P!MayMark(e, o)
<1>1. EndsOK'
  BY InvEnds, PTL
<1>2. Other(e) \in Legs /\ Other(e) # e /\ \A x \in Legs : x = e \/ x = Other(e)
  BY TwoLegs
<1>3. CASE OutOf(leg[e])' = o[e]
  <2>1. [l \in Legs |-> OutOf(leg[l])]' = o
    BY <1>2, <1>3
  <2>. QED  BY <2>1 DEF P!MayMark
<1>4. CASE OutOf(leg[e]) = "up" /\ OutOf(leg[e])' = "ended"
  <2>1. eof'[Other(e)] /\ got'[e] = Upto(rd'[Other(e)])
    BY <1>1, <1>4 DEF EndsOK
  <2>2. [l \in Legs |-> OutOf(leg[l])]' = [x \in Legs |-> IF x = e THEN "ended" ELSE o[x]]
    BY <1>2, <1>4
  <2>. QED  BY <1>4, <2>1, <2>2, PipeEnds DEF P!MayMark, P!HasAll
<1>. QED  BY <1>3, <1>4

\* Nothing happens on a leg before the bind.
LEMMA BoundFirst ==
    ASSUME IndInv, OpenInv, Live, NEW l \in Legs, ~Null(leg[l])
    PROVE  st = "bound"
BY SMTT(60), ZenonT(60) DEF IndInv, OpenInv, PendingOK, Live, Null, Legs

\* A read takes the next chunk of its end.
LEMMA TakeStep ==
    ASSUME IndInv, st = "bound", NEW l \in Legs, NEW x, Arrives(l, x),
           st' \in {"bound", "aborted"}, UNCHANGED <<eof, got>>,
           \A m \in Legs : OutOf(leg[m])' = OutOf(leg[m])
    PROVE  P!Next
<1>1. ~eof[l] /\ rd' = [rd EXCEPT ![l] = @ + 1]
  BY Zenon DEF IndInv, Arrives
<1>2. Seen = "yes" /\ Seen' \in {"yes", "cut"}
  BY DEF Seen
<1>3. [m \in Legs |-> OutOf(leg[m])]' = [m \in Legs |-> OutOf(leg[m])]
  OBVIOUS
<1>4. P!Take(l)
  BY <1>1, <1>2, <1>3 DEF P!Take
<1>. QED  BY <1>4, PipeEnds DEF P!Next

\* relay_a_read and relay_b_read queue, hold back or close: no end sees more
\* of it than the chunk that was taken.
LEMMA ReadStep ==
    ASSUME IndInv, OpenInv, relay_a_read \/ relay_b_read
    PROVE  P!Next
<1>1. ASSUME NEW l \in Legs, NEW x, Arrives(l, x), PassOn(l, x), UNCHANGED <<eof, got>>
      PROVE  P!Next
  <2> DEFINE m == Other(l)
             s == leg[m]
  <2>1. m \in Legs /\ m # l /\ \A z \in Legs : z = l \/ z = m
    BY TwoLegs
  <2>2. st = "bound"
    BY <1>1, BoundFirst DEF Arrives, Reading
  <2>3. leg \in [Legs -> IoType] /\ s \in IoType
    BY <2>1 DEF IndInv, TypeOK
  <2>4. st' \in {"bound", "aborted"}
    BY <1>1, <2>2, ZenonT(60), SMTT(60) DEF PassOn, tm_stream_close
  <2>5. \/ leg' = leg
        \/ \E lo : leg' = [leg EXCEPT ![m] = Accept(s, <<x>>, lo)]
        \/ leg' = [leg EXCEPT ![m].low = IF pend[m] = <<>> THEN s.kind = "tls" ELSE @]
    BY <1>1, ZenonT(60), SMTT(60) DEF PassOn
  <2>6. leg'[l] = leg[l] /\ leg'[m].kind = s.kind /\ leg'[m].fin = s.fin
    <3>1. CASE leg' = leg
      BY <3>1
    <3>2. ASSUME NEW lo, leg' = [leg EXCEPT ![m] = Accept(s, <<x>>, lo)]
          PROVE  leg'[l] = leg[l] /\ leg'[m].kind = s.kind /\ leg'[m].fin = s.fin
      <4> DEFINE t == Accept(s, <<x>>, lo)
      <4>1. t.kind = s.kind /\ t.fin = s.fin
        BY <2>3 DEF Accept, IoType
      <4>2. leg'[m] = t /\ leg'[l] = leg[l]
        BY <2>1, <2>3, <3>2, Zenon
      <4>. QED  BY <4>1, <4>2
    <3>3. CASE leg' = [leg EXCEPT ![m].low = IF pend[m] = <<>> THEN s.kind = "tls" ELSE @]
      BY <2>1, <2>3, <3>3 DEF IoType
    <3>. QED  BY <2>5, <3>1, <3>2, <3>3, Zenon
  <2>7. \A z \in Legs : OutOf(leg[z])' = OutOf(leg[z])
    BY <2>1, <2>6 DEF OutOf
  <2>. QED  BY <1>1, <2>2, <2>4, <2>7, TakeStep
<1>2. ASSUME NEW l \in Legs, NEW x, Arrives(l, x), UNCHANGED <<leg, eof, got>>,
             st' = "aborted" \/ st' = st
      PROVE  P!Next
  <2>1. st = "bound"
    BY <1>2, BoundFirst DEF Arrives, Reading
  <2>2. \A z \in Legs : OutOf(leg[z])' = OutOf(leg[z])
    BY <1>2 DEF OutOf
  <2>3. st' \in {"bound", "aborted"}
    BY <1>2, <2>1
  <2>. QED  BY <1>2, <2>1, <2>2, <2>3, TakeStep
<1>3. CASE relay_a_read
  <2>1. "a" \in Legs
    BY DEF Legs
  <2>2. PICK x : /\ Arrives("a", x) /\ UNCHANGED <<eof, got>>
                 /\ PassOn("a", x) \/ (UNCHANGED leg /\ (st' = "aborted" \/ st' = st))
    BY <1>3, ZenonT(60), SMTT(60) DEF relay_a_read, tm_stream_close
  <2>. QED  BY <1>1, <1>2, <2>1, <2>2, Zenon
<1>4. CASE relay_b_read
  <2>1. "b" \in Legs
    BY DEF Legs
  <2>2. PICK x : /\ Arrives("b", x) /\ UNCHANGED <<eof, got>>
                 /\ PassOn("b", x) \/ (UNCHANGED leg /\ (st' = "aborted" \/ st' = st))
    BY <1>4, ZenonT(60), SMTT(60) DEF relay_b_read, tm_stream_close
  <2>. QED  BY <1>1, <1>2, <2>1, <2>2, Zenon
<1>. QED  BY <1>3, <1>4

\* An end mark is never taken back by tm_io_shutdown_send.
LEMMA ShutOut ==
    ASSUME NEW s \in IoType
    PROVE  OutOf(Shut(s)) = OutOf(s) \/ (OutOf(s) = "up" /\ OutOf(Shut(s)) = "ended")
<1>1. Shut(s).kind = s.kind /\ (s.fin = "sent" => Shut(s).fin = "sent")
  BY DEF Shut, IoType
<1>. QED  BY <1>1 DEF OutOf

\* The end or the failure of a leg (relay_x_eof, relay_x_error) ends its
\* direction of the pipe; the other end may get its end mark.
LEMMA EndStep ==
    ASSUME IndInv, IndInv', st = "bound", NEW l \in Legs,
           NEW lg, lg = leg \/ lg = [leg EXCEPT ![l] = NewIo("gone")],
           Ended(l, lg)
    PROVE  P!Next
<1> DEFINE m == Other(l)
           s == leg[m]
           o == [x \in Legs |-> OutOf(leg[x])]
           d == [x \in Legs |-> IF x = l THEN "down" ELSE OutOf(leg[x])]
<1>1. m \in Legs /\ m # l /\ Other(m) = l /\ \A z \in Legs : z = l \/ z = m
  BY TwoLegs
<1>2. TypeOK /\ IoOK(s) /\ HeldOK(m) /\ s.kind # "none"
  BY <1>1, Zenon DEF IndInv
<1>3. s \in IoType /\ pend[m] \in Seq(Nat) /\ leg \in [Legs -> IoType]
  BY <1>1, <1>2, LegTypes DEF TypeOK
<1>4. lg[m] = s /\ (OutOf(lg[l]) = OutOf(leg[l]) \/ OutOf(lg[l]) = "down")
  BY <1>1, <1>3, GoneFacts, SMTT(60), ZenonT(60) DEF OutOf
<1>4a. lg \in [Legs -> IoType]
  BY <1>3, GoneFacts
<1>5. /\ eof' = [eof EXCEPT ![l] = TRUE] /\ UNCHANGED <<rd, got>>
      /\ st' \in {"bound", "drained"}
  BY DEF Ended, stream_maybe_close
<1>6. /\ leg'[l] = lg[l]
      /\ OutOf(leg'[m]) = OutOf(s) \/ (OutOf(s) = "up" /\ OutOf(leg'[m]) = "ended")
  <2>1. CASE leg' = lg
    BY <1>4, <2>1
  <2>2. CASE ~Null(lg[m]) /\ leg' # lg
    <3>1. PICK f \in flush_pend(s, pend[m]) :
            leg' = [lg EXCEPT ![m] = IF f.rest = <<>> THEN Shut(f.side) ELSE f.side]
      BY <1>4, <2>2, ZenonT(60), SMTT(60) DEF Ended
    <3>2. ~Null(s) /\ (s.fin # "none" => pend[m] = <<>>)
      BY <1>2, <1>4, <2>2, Zenon DEF HeldOK
    <3>3. f.side \in IoType /\ f.side.kind = s.kind /\ f.side.fin = s.fin
      BY <1>2, <1>3, <3>2, FlushSide, ZenonT(60), SMTT(60)
    <3>4. OutOf(f.side) = OutOf(s)
      BY <3>3, Zenon DEF OutOf
    <3> DEFINE t == IF f.rest = <<>> THEN Shut(f.side) ELSE f.side
    <3>5. OutOf(t) = OutOf(s) \/ (OutOf(s) = "up" /\ OutOf(t) = "ended")
      BY <3>3, <3>4, ShutOut, Zenon
    <3> HIDE DEF t
    <3>6. leg'[m] = t /\ leg'[l] = lg[l]
      BY <1>1, <1>4a, <3>1, Zenon DEF t
    <3>. QED  BY <3>5, <3>6
  <2>. QED  BY <2>1, <2>2, ZenonT(60), SMTT(60) DEF Ended
<1>7. P!MayClose
  BY <1>5, CloseStep
<1>8. o \in [Legs -> Outs] /\ d \in [Legs -> Outs]
  <2>1. \A x \in Legs : OutOf(leg[x]) \in Outs
    BY DEF OutOf, Outs
  <2>2. "down" \in Outs
    BY DEF Outs
  <2>. QED  BY <2>1, <2>2, ZenonT(60), SMTT(60)
<1>9. P!MayMark(m, o) \/ P!MayMark(m, d)
  <2>1. CASE OutOf(leg'[l]) = OutOf(leg[l])
    <3>1. o[l] = OutOf(leg[l]) /\ o[m] = OutOf(leg[m])
      BY <1>1
    <3> HIDE DEF o
    <3>. QED  BY <1>1, <1>5, <1>6, <1>8, <2>1, <3>1, MarkStep, Zenon
  <2>2. CASE OutOf(leg'[l]) = "down"
    <3>1. d[l] = "down" /\ d[m] = OutOf(leg[m])
      BY <1>1
    <3> HIDE DEF d
    <3>. QED  BY <1>1, <1>5, <1>6, <1>8, <2>2, <3>1, MarkStep, Zenon
  <2>. QED  BY <1>4, <1>6, <2>1, <2>2, Zenon
<1>10. Seen = "yes"
  BY DEF Seen
<1>11. P!End(l)
  <2>1. P!Opposite(l) = m /\ P!Ends = Legs
    BY PipeEnds
  <2>2. o = [x \in Legs |-> OutOf(leg[x])] /\ d = [x \in Legs |-> IF x = l THEN "down" ELSE o[x]]
    OBVIOUS
  <2> HIDE DEF o, d
  <2>. QED  BY <1>5, <1>7, <1>9, <1>10, <2>1, <2>2, Zenon DEF P!End
<1>. QED  BY <1>11, PipeEnds DEF P!Next

\* A completed write (relay_x_low) gives its end the next chunks, and the end
\* mark behind the last of them.
LEMMA GiveStep ==
    ASSUME IndInv, IndInv', OpenInv, NEW l \in Legs, WriteDone(l)
    PROVE  P!Next
<1> DEFINE m == Other(l)
           s == leg[l]
           x == SubSeq(s.q, 1, s.infl)
           c == Complete(s)
           o == [z \in Legs |-> OutOf(leg[z])]
<1>1. m \in Legs /\ m # l /\ Other(m) = l /\ \A z \in Legs : z = l \/ z = m
  BY TwoLegs
<1>2. Live /\ ~Null(s) /\ ~Drained(s) /\ got' = [got EXCEPT ![l] = @ \o x]
  BY DEF WriteDone
<1>3. st = "bound"
  BY <1>2, BoundFirst
<1>4. TypeOK /\ IoOK(s) /\ HeldOK(l) /\ TypeOK'
  BY <1>3, Zenon DEF IndInv
<1>5. s \in IoType /\ pend[l] \in Seq(Nat) /\ got[l] \in Seq(Nat) /\ leg \in [Legs -> IoType]
  BY <1>4, LegTypes DEF TypeOK
<1>6. /\ c \in IoType /\ IoOK(c) /\ c.kind = s.kind
      /\ c.fin = "none" <=> s.fin = "none"
      /\ x \in Seq(Nat)
  BY <1>2, <1>4, <1>5, CompleteFacts, ZenonT(60), SMTT(60)
<1>7. \/ CallsLow(c) /\ Low(l, [c EXCEPT !.low = FALSE])
      \/ leg' = [leg EXCEPT ![l] = c] /\ UNCHANGED <<st, eof, rd>>
  BY DEF WriteDone
<1> HIDE DEF x, c
<1>8. ~Null(c) /\ (c.fin # "none" => pend[l] = <<>>)
  BY <1>2, <1>4, <1>6, Zenon DEF Null, HeldOK
<1>9. /\ UNCHANGED <<eof, rd>> /\ st' \in {"bound", "drained"}
      /\ leg'[m] = leg[m] /\ leg'[l].kind = s.kind
  <2>1. CASE leg' = [leg EXCEPT ![l] = c] /\ UNCHANGED <<st, eof, rd>>
    BY <1>1, <1>3, <1>5, <1>6, <2>1, Zenon
  <2>2. CASE CallsLow(c) /\ Low(l, [c EXCEPT !.low = FALSE])
    <3> DEFINE d == [c EXCEPT !.low = FALSE]
    <3>1. /\ d \in IoType /\ d.q = c.q /\ d.infl = c.infl /\ d.kind = c.kind /\ d.fin = c.fin
      BY <1>6, ZenonT(60), SMTT(60) DEF IoType
    <3>2. PICK f \in flush_pend(d, pend[l]) :
             \/ leg' = [leg EXCEPT ![l] = f.side]
             \/ leg' = [leg EXCEPT ![l] = Shut(f.side)]
      BY <2>2, ZenonT(60), SMTT(60) DEF Low
    <3>3. UNCHANGED <<eof, rd>> /\ st' \in {"bound", "drained"}
      BY <1>3, <2>2, ZenonT(60), SMTT(60) DEF Low, stream_maybe_close
    <3> HIDE DEF d
    <3>4. IoOK(d) /\ ~Null(d) /\ (d.fin # "none" => pend[l] = <<>>)
      BY <1>6, <1>8, <3>1, Zenon DEF IoOK, Null, Capacity
    <3>5. f.side \in IoType /\ IoOK(f.side) /\ f.side.kind = d.kind
      BY <1>5, <3>1, <3>4, FlushFacts, ZenonT(60), SMTT(60)
    <3>6. Shut(f.side).kind = f.side.kind
      BY <3>4, <3>5, ShutFacts, ZenonT(60) DEF Null
    <3>. QED  BY <1>1, <1>5, <1>6, <3>1, <3>2, <3>3, <3>5, <3>6, ZenonT(60), SMTT(60)
  <2>. QED  BY <1>7, <2>1, <2>2
<1>10. s.kind # "gone" /\ OutOf(s) = "up" /\ OutOf(leg'[l]) \in {"up", "ended"}
  <2>1. s.kind # "gone" /\ s.fin # "sent"
    BY <1>2, <1>4, Zenon DEF Null, Drained, IoOK
  <2>. QED  BY <1>9, <2>1, Zenon DEF OutOf
<1>11. P!MayClose
  BY <1>9, CloseStep, Zenon
<1>12. P!MayMark(l, o)
  <2>1. o \in [Legs -> Outs]
    BY DEF OutOf, Outs
  <2>2. o[l] = OutOf(s) /\ o[m] = OutOf(leg[m])
    BY <1>1
  <2> HIDE DEF o
  <2>. QED  BY <1>1, <1>9, <1>10, <2>1, <2>2, MarkStep, Zenon
<1>13. \E n \in Len(got[l]) .. rd[m] : got' = [got EXCEPT ![l] = Upto(n)]
  <2> DEFINE n == Len(got[l] \o x)
  <2>1. EndsOK'
    BY InvEnds, PTL
  <2>2. got'[l] = got[l] \o x
    BY <1>2, <1>4 DEF TypeOK
  <2>3. got'[l] = Upto(n) /\ n <= rd[m]
    BY <1>1, <1>9, <1>10, <2>1, <2>2, Zenon DEF EndsOK
  <2>4. n \in Nat /\ Len(got[l]) \in Nat /\ Len(got[l]) <= n /\ rd[m] \in Nat
    BY <1>1, <1>4, <1>5, <1>6, Concat, LenProperties, SMTT(60) DEF TypeOK
  <2>5. got' = [got EXCEPT ![l] = Upto(n)]
    BY <1>2, <2>2, <2>3, Zenon
  <2> HIDE DEF n
  <2>6. n \in Len(got[l]) .. rd[m]
    BY <2>3, <2>4
  <2>. QED  BY <2>5, <2>6, Zenon
<1>14. Seen = "yes" /\ o[l] = "up"
  BY <1>3, <1>10 DEF Seen
<1>15. P!Give(l)
  <2>1. P!Opposite(l) = m /\ \A n : P!Chunks(n) = Upto(n)
    BY PipeEnds
  <2>. QED  BY <1>9, <1>11, <1>12, <1>13, <1>14, <2>1, ZenonT(60), SMTT(60) DEF P!Give
<1>. QED  BY <1>15, PipeEnds DEF P!Next

\* The bind of a stream of an open tunnel shows nothing to its ends.
LEMMA StartHidden ==
    ASSUME IndInv, OpenInv, relay_start
    PROVE  UNCHANGED P!vars
<1>1. PICK f \in flush_pend(NewIo("tls"), preq) :
        leg' = [a |-> IF Null(leg["a"]) THEN NewIo("tcp") ELSE leg["a"], b |-> f.side]
  BY ZenonT(60), SMTT(60) DEF relay_start
<1>2. st = "pending" /\ st' = "bound" /\ UNCHANGED <<rd, got, eof>>
  BY Zenon DEF relay_start
<1>3. leg["a"].kind = "none" /\ leg["a"].fin = "none" /\ leg["b"].kind = "none" /\ leg["b"].fin = "none"
  BY <1>2, Zenon DEF OpenInv, IndInv, PendingOK, IoOK, Null, Legs
<1>4. f.side.kind = "tls" /\ f.side.fin = "none"
  <2> DEFINE n == NewIo("tls")
  <2>1. <<>> \in Seq(Nat) /\ Len(<<>>) = 0 /\ HighWater \in Nat
    BY RelayAssumption
  <2>2. n \in IoType /\ IoOK(n) /\ ~Null(n) /\ n.fin = "none" /\ n.kind = "tls"
    BY <2>1 DEF NewIo, IoType, IoOK, Null, Capacity
  <2>3. preq \in Seq(Nat)
    BY DEF IndInv, TypeOK
  <2> HIDE DEF n
  <2>4. f \in flush_pend(n, preq)
    BY DEF n
  <2>5. f.side.kind = n.kind /\ f.side.fin = n.fin
    BY <2>2, <2>3, <2>4, FlushSide, SMTT(60), ZenonT(60)
  <2>. QED  BY <2>2, <2>5
<1>5. leg'["a"] = NewIo("tcp") /\ leg'["b"] = f.side
  BY <1>1, <1>3 DEF Null
<1>6. \A l \in Legs : OutOf(leg[l]) = "up" /\ OutOf(leg'[l]) = "up"
  <2>1. OutOf(NewIo("tcp")) = "up"
    BY DEF OutOf, NewIo
  <2>2. OutOf(leg["a"]) = "up" /\ OutOf(leg["b"]) = "up" /\ OutOf(f.side) = "up"
    BY ONLY <1>3, <1>4 DEF OutOf
  <2>. QED  BY ONLY <1>5, <2>1, <2>2 DEF Legs
<1>7. [l \in Legs |-> OutOf(leg[l])]' = [l \in Legs |-> OutOf(leg[l])]
  BY <1>6
<1>8. Seen' = Seen
  BY <1>2 DEF Seen
<1>. QED  BY <1>2, <1>7, <1>8 DEF P!vars

\* The kind of a tunnel never changes.
LEMMA ModeKept == [Next]_vars => mode' = mode
BY ZenonT(60), SMTT(60)
   DEF Next, vars, relay_a_read, relay_b_read, relay_a_eof, relay_b_eof, Eof, relay_a_error,
       relay_b_error, Error, Ended, relay_a_low, relay_b_low, WriteDone, Low, relay_start,
       stream_bind_timer_cb, kill_stream, FarFin, FarClose, FarReset, relayVars

\* An open tunnel stays one, and its streams have no leg before the bind.
LEMMA OpenStep == IndInv /\ OpenInv /\ [Next]_vars => OpenInv'
<1> SUFFICES ASSUME IndInv, OpenInv, [Next]_vars PROVE OpenInv'
  OBVIOUS
<1>1. mode' = mode
  BY ModeKept
<1>2. ASSUME st' = "pending" PROVE st = "pending" /\ UNCHANGED leg
  <2>1. ASSUME NEW l \in Legs, Live, ~Null(leg[l]) PROVE st = "bound"
    BY <2>1, BoundFirst
  <2>2. CASE st = "pending"
    <3>1. \A l \in Legs : Null(leg[l])
      BY <2>1, <2>2 DEF Live
    <3>2. "a" \in Legs /\ "b" \in Legs
      BY DEF Legs
    <3>. QED  BY <1>2, <2>2, <3>1, <3>2, ZenonT(60), SMTT(60)
           DEF Next, vars, relay_a_read, relay_b_read, Arrives, Reading, relay_a_eof, relay_b_eof, Eof,
               relay_a_error, relay_b_error, Error, relay_a_low, relay_b_low, WriteDone, relay_start,
               stream_bind_timer_cb, kill_stream, tm_stream_close, FarFin, FarClose, FarReset
  <2>3. CASE st # "pending"
    BY <1>2, <2>3, ZenonT(60), SMTT(60)
       DEF Next, vars, relay_a_read, relay_b_read, PassOn, relay_a_eof, relay_b_eof, Eof,
           relay_a_error, relay_b_error, Error, Ended, stream_maybe_close, relay_a_low, relay_b_low,
           WriteDone, Low, relay_start, stream_bind_timer_cb, kill_stream, tm_stream_close,
           FarFin, FarClose, FarReset, relayVars
  <2>. QED  BY <2>2, <2>3
<1>. QED  BY <1>1, <1>2 DEF OpenInv

\* Every callback of the relay is a step of the pipe or invisible to it.
LEMMA StepSimulation ==
    IndInv /\ IndInv' /\ OpenInv /\ [Next]_vars => [P!Next]_P!vars
<1> SUFFICES ASSUME IndInv, IndInv', OpenInv, [Next]_vars PROVE [P!Next]_P!vars
  OBVIOUS
<1>1. "a" \in Legs /\ "b" \in Legs
  BY DEF Legs
<1>2. CASE relay_a_read \/ relay_b_read
  BY <1>2, ReadStep
<1>3. ASSUME NEW l \in Legs, Eof(l) \/ Error(l) PROVE P!Next
  <2>1. st = "bound"
    BY <1>3, BoundFirst DEF Eof, Error, Reading
  <2>2. Ended(l, leg) \/ Ended(l, [leg EXCEPT ![l] = NewIo("gone")])
    BY <1>3 DEF Eof, Error
  <2>. QED  BY <2>1, <2>2, EndStep
<1>4. CASE relay_a_eof \/ relay_b_eof \/ relay_a_error \/ relay_b_error
  BY <1>1, <1>3, <1>4 DEF relay_a_eof, relay_b_eof, relay_a_error, relay_b_error
<1>5. CASE relay_a_low \/ relay_b_low
  BY <1>1, <1>5, GiveStep DEF relay_a_low, relay_b_low
<1>6. CASE relay_start
  BY <1>6, StartHidden
<1>7. CASE stream_bind_timer_cb \/ kill_stream
  <2>1. st \in {"pending", "bound"} /\ st' = "aborted" /\ UNCHANGED <<leg, rd, got, eof>>
    BY <1>7 DEF stream_bind_timer_cb, kill_stream, tm_stream_close, Live
  <2>2. Seen = "yes" /\ Seen' = "cut"
    BY <2>1 DEF Seen
  <2>3. P!Cut
    BY <2>1, <2>2 DEF P!Cut
  <2>. QED  BY <2>3 DEF P!Next
<1>8. ASSUME UNCHANGED <<st, leg, rd, got, eof>> PROVE UNCHANGED P!vars
  BY <1>8 DEF P!vars, Seen
<1>9. CASE UNCHANGED vars
  BY <1>8, <1>9 DEF vars
<1>10. CASE \E l \in Legs : FarFin(l) \/ FarClose(l) \/ FarReset(l)
  BY <1>8, <1>10 DEF FarFin, FarClose, FarReset, relayVars
<1>. QED  BY <1>2, <1>4, <1>5, <1>6, <1>7, <1>9, <1>10 DEF Next

\* A stream starts as a pipe nothing has gone through.
LEMMA InitSimulation == Init /\ mode = "open" => OpenInv /\ P!Init
<1> SUFFICES ASSUME Init, mode = "open" PROVE OpenInv /\ P!Init
  OBVIOUS
<1>1. \A l \in Legs : leg[l].kind = "none" /\ leg[l].fin = "none"
  BY DEF Init, NewIo
<1>2. \A l \in Legs : OutOf(leg[l]) = "up"
  BY <1>1 DEF OutOf
<1>3. Seen = "yes"
  BY DEF Init, Seen
<1>4. "a" \in Legs
  BY DEF Legs
<1>. QED  BY <1>1, <1>2, <1>3, <1>4, PipeEnds DEF OpenInv, P!Init, Init

\* The two ends of every stream of an open tunnel see a pipe: whatever order
\* the callbacks of relay.c, io.c and tls.c run in, nothing is lost, repeated or
\* reordered, no end mark overtakes its data, and a stream that closes by
\* itself has given each end that is up everything.
THEOREM RefinesPipe == Spec => ImplementsPipe
<1>1. Init => IndInv /\ (mode = "open" => OpenInv /\ P!Init)
  BY InitInv, InitSimulation
<1>2. ASSUME IndInv, mode = "open" => OpenInv, [Next]_vars
      PROVE  IndInv' /\ (mode = "open" => OpenInv)' /\ [mode = "open" => P!Next]_P!vars
  <2>1. IndInv' /\ mode' = mode
    BY <1>2, NextInv, ModeKept
  <2>2. CASE mode = "open"
    BY <1>2, <2>1, <2>2, OpenStep, StepSimulation
  <2>3. CASE mode # "open"
    BY <2>1, <2>3
  <2>. QED  BY <2>2, <2>3
<1>. QED  BY <1>1, <1>2, PTL DEF Spec, ImplementsPipe

\* In particular, a stream that starts on an open tunnel is an implementation
\* of Pipe in the usual sense.
COROLLARY OpenStreamIsPipe == Spec /\ mode = "open" => P!Spec
<1>1. Init /\ mode = "open" => IndInv /\ OpenInv /\ P!Init
  BY InitInv, InitSimulation
<1>2. IndInv /\ OpenInv /\ [Next]_vars => (IndInv /\ OpenInv)' /\ [P!Next]_P!vars
  BY NextInv, OpenStep, StepSimulation
<1>. QED  BY <1>1, <1>2, PTL DEF Spec, P!Spec
=============================================================================
