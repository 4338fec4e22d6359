------------------------- MODULE FrameReaderProofs -------------------------
(***************************************************************************)
(* Proofs about FrameReader: the reader loses, repeats and reorders        *)
(* nothing, leaves no frame waiting, and refuses a connection only for     *)
(* what it sent; and however the bytes are cut, it hands out the frames    *)
(* the reference finds in them, for all sizes of reads and frames and all  *)
(* sequences sent.  And the bytes of the UDP envelope are exact both ways. *)
(***************************************************************************)
EXTENDS FrameReader, SequenceTheorems, FiniteSetTheorems, WellFoundedInduction, TLAPS

Frame == [type : Nat, sid : Nat, payload : Seq(Nat)]

(***************************************************************************)
(* Exact and Prompt are not inductive.  While frames are read the relay    *)
(* has nothing, and until the connection is an agent's the reader holds    *)
(* less than one read once a frame was taken from it: that is why frames   *)
(* left behind a REGISTER never make the next read overflow.               *)
(***************************************************************************)
Holds ==
    /\ ph = "frames" => raw = <<>>
    /\ busy => ph = "frames" /\ prom # "now"
    /\ prom = "now" \/ (busy /\ prom = "no") => Len(buf) < MaxRead

IInv == TypeOK /\ Exact /\ Prompt /\ RejectsOnly /\ Holds

----------------------------------------------------------------------------
\* A sequence of cells cut in two, at m, up to n.
LEMMA Split ==
    ASSUME NEW b \in Seq(Nat), NEW m \in 0 .. Len(b), NEW n \in m .. Len(b)
    PROVE  /\ SubSeq(b, m + 1, n) \in Seq(Nat)
           /\ Len(SubSeq(b, m + 1, n)) = n - m
           /\ \A i \in 1 .. n - m : SubSeq(b, m + 1, n)[i] = b[m + i]
           /\ SubSeq(b, 1, m) \o SubSeq(b, m + 1, n) = SubSeq(b, 1, n)
<1>1. Len(b) \in Nat /\ m \in Nat /\ n \in Nat /\ m <= n /\ n <= Len(b)
  OBVIOUS
<1>2. \A i \in 1 .. Len(b) : b[i] \in Nat
  OBVIOUS
<1>3. /\ SubSeq(b, m + 1, n) \in Seq(Nat)
      /\ Len(SubSeq(b, m + 1, n)) = n - m
  BY <1>1, <1>2
<1>4. \A i \in 1 .. n - m : SubSeq(b, m + 1, n)[i] = b[m + i]
  BY <1>1
<1>5. SubSeq(b, 1, m) \o SubSeq(b, m + 1, n) = SubSeq(b, 1, n)
  <2>1. 1 \in 1 .. Len(b) + 1 /\ m \in 1 - 1 .. Len(b) /\ n \in m .. Len(b)
    BY <1>1
  <2> QED  BY <2>1, ConcatAdjacentSubSeq, ZenonT(60), SMTT(60)
<1> QED  BY <1>3, <1>4, <1>5

\* Concatenation of cells: type, length, elements, neutral element.
LEMMA Joined ==
    ASSUME NEW o \in Seq(Nat), NEW b \in Seq(Nat)
    PROVE  /\ o \o b \in Seq(Nat)
           /\ Len(o \o b) = Len(o) + Len(b)
           /\ \A i \in 1 .. Len(o) : (o \o b)[i] = o[i]
           /\ \A i \in 1 .. Len(b) : (o \o b)[Len(o) + i] = b[i]
           /\ o \o <<>> = o
OBVIOUS

\* Concatenation of cells is associative.
LEMMA Regrouped ==
    ASSUME NEW o \in Seq(Nat), NEW b \in Seq(Nat), NEW d \in Seq(Nat)
    PROVE  (o \o b) \o d = o \o (b \o d)
BY ConcatAssociative, SMTT(60), ZenonT(60)

\* The length field of a header is a cell.
LEMMA LengthCell ==
    ASSUME NEW b \in Seq(Nat), Len(b) >= 4
    PROVE  Len(b) \in Nat /\ b[3] \in Nat
<1>1. Len(b) \in Nat /\ b \in [1 .. Len(b) -> Nat]
  BY LenProperties, Zenon
<1> QED  BY ONLY <1>1, Len(b) >= 4

\* What tm_frame_reader_feed takes from the buffer is a frame whose encoding,
\* with what it leaves, is the buffer.
LEMMA FrameCut ==
    ASSUME NEW b \in Seq(Nat), ~Bad(b), Whole(b)
    PROVE  /\ FrameOf(b).frame \in Frame
           /\ FrameOf(b).rest \in Seq(Nat)
           /\ b[3] \in Nat /\ Len(b) >= Hdr + b[3]
           /\ Len(FrameOf(b).rest) = Len(b) - (Hdr + b[3])
           /\ tm_frame_encode(FrameOf(b).frame) \in Seq(Nat)
           /\ tm_frame_encode(FrameOf(b).frame) \o FrameOf(b).rest = b
<1>0. Len(b) \in Nat /\ b \in [1 .. Len(b) -> Nat]
  BY LenProperties
<1>1. PICK n : n = b[3]
  OBVIOUS
<1>2. Len(b) >= 4 /\ Len(b) >= 4 + n /\ b[1] = 1
  BY <1>1 DEF Bad, Whole, Hdr, Version
<1>3. b[1] \in Nat /\ b[2] \in Nat /\ n \in Nat /\ b[4] \in Nat
  BY <1>0, <1>1, <1>2, SMTT(30)
<1>4. 4 \in 0 .. Len(b) /\ 4 + n \in 4 .. Len(b) /\ (4 + n) - 4 = n
  BY ONLY <1>0, <1>2, <1>3
<1>5. 4 + n \in 0 .. Len(b) /\ Len(b) \in 4 + n .. Len(b)
  BY ONLY <1>0, <1>2, <1>3
<1>6. PICK h : h = <<1, b[2], n, b[4]>>
  BY Zenon
<1>7. h \in Seq(Nat) /\ h = SubSeq(b, 1, 4)
  BY <1>0, <1>1, <1>2, <1>3, <1>6
<1>8. PICK p : p = SubSeq(b, 4 + 1, 4 + n)
  BY Zenon
<1>9. PICK r : r = SubSeq(b, 4 + n + 1, Len(b))
  BY Zenon
<1>10. p \in Seq(Nat) /\ Len(p) = n /\ SubSeq(b, 1, 4) \o p = SubSeq(b, 1, 4 + n)
  BY ONLY b \in Seq(Nat), <1>4, <1>8, Split, ZenonT(60), SMTT(60)
<1>11. /\ r \in Seq(Nat) /\ Len(r) = Len(b) - (4 + n)
       /\ SubSeq(b, 1, 4 + n) \o r = SubSeq(b, 1, Len(b))
  BY ONLY b \in Seq(Nat), <1>5, <1>9, Split, ZenonT(60), SMTT(60)
<1>12. SubSeq(b, 1, Len(b)) = b
  BY SubSeqFull, Zenon
<1>13. (h \o p) \o r = b
  BY ONLY <1>7, <1>10, <1>11, <1>12, Zenon
<1>14. FrameOf(b) = [frame |-> [type |-> b[2], sid |-> b[4], payload |-> p], rest |-> r]
  BY <1>1, <1>8, <1>9 DEF FrameOf, tm_frame_make, Hdr
<1>15. /\ FrameOf(b).frame = [type |-> b[2], sid |-> b[4], payload |-> p]
       /\ FrameOf(b).rest = r
  BY ONLY <1>14
<1>16. FrameOf(b).frame \in Frame
  BY ONLY <1>3, <1>10, <1>15 DEF Frame
<1>17. tm_frame_encode(FrameOf(b).frame) = h \o p
  <2>1. /\ FrameOf(b).frame.type = b[2] /\ FrameOf(b).frame.sid = b[4]
        /\ FrameOf(b).frame.payload = p
    BY ONLY <1>15
  <2>2. tm_frame_encode(FrameOf(b).frame) = <<1, b[2], Len(p), b[4]>> \o p
    BY ONLY <2>1, Zenon DEF tm_frame_encode, Version
  <2> QED  BY ONLY <1>6, <1>10, <2>2, Zenon
<1>18. h \o p \in Seq(Nat)
  BY <1>7, <1>10, Joined, Zenon
<1>19. Hdr + b[3] = 4 + n
  BY <1>1 DEF Hdr
<1> QED  BY ONLY <1>1, <1>2, <1>3, <1>11, <1>13, <1>15, <1>16, <1>17, <1>18, <1>19, Zenon

\* What was taken, o, and what the reader holds, b, are the first n cells of s.
Taken(o, b, s, n) == o \o b = SubSeq(s, 1, n)

\* r begins with the header b begins with.
SameHead(r, b) == Len(r) >= 4 /\ r[1] = b[1] /\ r[3] = b[3]

\* The header the reader looks at is that of the next frame sent.
LEMMA HeadSent ==
    ASSUME NEW s \in Seq(Nat), NEW o \in Seq(Nat), NEW b \in Seq(Nat), NEW n \in 0 .. Len(s),
           Taken(o, b, s, n), Len(b) >= 4
    PROVE  SameHead(SubSeq(s, Len(o) + 1, Len(s)), b)
<1> DEFINE r == SubSeq(s, Len(o) + 1, Len(s))
<1> USE DEF Taken
<1>0. Len(o) \in Nat /\ Len(b) \in Nat /\ Len(s) \in Nat /\ n \in Nat /\ n <= Len(s)
  <2>1. Len(o) \in Nat /\ Len(b) \in Nat /\ Len(s) \in Nat
    BY LenProperties, Zenon
  <2> QED  BY ONLY <2>1, n \in 0 .. Len(s)
<1>1. Len(o) + Len(b) = n
  <2>1. Len(o \o b) = Len(o) + Len(b)
    BY Joined
  <2>2. Len(SubSeq(s, 1, n)) = n
    BY <1>0
  <2> QED  BY <2>1, <2>2
<1>2. \A i \in 1 .. Len(b) : b[i] = s[Len(o) + i]
  <2>1. \A i \in 1 .. Len(b) : (o \o b)[Len(o) + i] = b[i]
    BY Joined, Zenon
  <2>2. \A j \in 1 .. n : SubSeq(s, 1, n)[j] = s[j]
    <3>1. 0 \in 0 .. Len(s) /\ n \in 0 .. Len(s)
      BY <1>0
    <3>2. \A j \in 1 .. n - 0 : SubSeq(s, 0 + 1, n)[j] = s[0 + j]
      BY ONLY <3>1, s \in Seq(Nat), Split, ZenonT(60), SMTT(60)
    <3>3. n - 0 = n /\ 0 + 1 = 1 /\ \A j \in 1 .. n : 0 + j = j
      BY <1>0
    <3> QED  BY <3>2, <3>3
  <2>3. \A i \in 1 .. Len(b) : Len(o) + i \in 1 .. n
    BY ONLY <1>0, <1>1, SMTT(30)
  <2> QED  BY <2>1, <2>2, <2>3
<1>3. Len(r) = Len(s) - Len(o) /\ \A i \in 1 .. Len(s) - Len(o) : r[i] = s[Len(o) + i]
  <2>1. Len(o) \in 0 .. Len(s) /\ Len(s) \in Len(o) .. Len(s)
    BY <1>0, <1>1
  <2>2. /\ Len(SubSeq(s, Len(o) + 1, Len(s))) = Len(s) - Len(o)
        /\ \A i \in 1 .. Len(s) - Len(o) : SubSeq(s, Len(o) + 1, Len(s))[i] = s[Len(o) + i]
    <3>1. PICK m \in 0 .. Len(s) : m = Len(o)
      BY <2>1
    <3>2. PICK k \in m .. Len(s) : k = Len(s)
      BY <2>1, <3>1
    <3>3. Len(SubSeq(s, m + 1, k)) = k - m /\ \A i \in 1 .. k - m : SubSeq(s, m + 1, k)[i] = s[m + i]
      BY ONLY s \in Seq(Nat), m \in 0 .. Len(s), k \in m .. Len(s), Split, Zenon
    <3> QED  BY ONLY <3>1, <3>2, <3>3, Zenon
  <2> QED  BY <2>2
<1>4. Len(s) - Len(o) >= 4 /\ 1 \in 1 .. Len(b) /\ 3 \in 1 .. Len(b)
  BY ONLY Len(b) >= 4, <1>0, <1>1, SMTT(30)
<1>5. 1 \in 1 .. Len(s) - Len(o) /\ 3 \in 1 .. Len(s) - Len(o)
  <2> DEFINE m == Len(s) - Len(o)
  <2>1. m \in Int /\ m >= 4
    BY <1>0, <1>4
  <2> HIDE DEF m
  <2>2. 1 \in 1 .. m /\ 3 \in 1 .. m
    BY ONLY <2>1
  <2> QED  BY <2>2 DEF m
<1>6. r[1] = b[1]
  BY <1>2, <1>3, <1>4, <1>5
<1>7. r[3] = b[3]
  BY <1>2, <1>3, <1>4, <1>5
<1> QED  BY <1>3, <1>4, <1>6, <1>7 DEF SameHead

\* A chunk read continues what was read before it.
LEMMA Continues ==
    ASSUME NEW o \in Seq(Nat), NEW b \in Seq(Nat), NEW s \in Seq(Nat),
           NEW n \in 0 .. Len(s), NEW k \in Nat, n + k <= Len(s),
           o \o b = SubSeq(s, 1, n)
    PROVE  /\ SubSeq(s, n + 1, n + k) \in Seq(Nat)
           /\ Len(SubSeq(s, n + 1, n + k)) = k
           /\ o \o (b \o SubSeq(s, n + 1, n + k)) = SubSeq(s, 1, n + k)
<1> DEFINE d == SubSeq(s, n + 1, n + k)
<1>0. n + k \in n .. Len(s) /\ (n + k) - n = k
  OBVIOUS
<1>1. d \in Seq(Nat) /\ Len(d) = k /\ SubSeq(s, 1, n) \o d = SubSeq(s, 1, n + k)
  BY <1>0, Split, Zenon
<1> HIDE DEF d
<1>3. (o \o b) \o d = o \o (b \o d)
  BY <1>1, Regrouped, ZenonT(60)
<1>4. o \o (b \o d) = SubSeq(s, 1, n + k)
  BY <1>1, <1>3, Zenon
<1> QED  BY <1>1, <1>4, Zenon DEF d

----------------------------------------------------------------------------
\* One turn of the callers' loop, when the reader holds b, keeps the invariant.
LEMMA FedStep ==
    ASSUME TypeOK, Holds, ph = "frames",
           NEW b \in Seq(Nat), NEW n \in 0 .. Len(sent),
           sent' = sent, pos' = n,
           out \o b = SubSeq(sent, 1, n), Len(b) <= MaxPayload + Hdr,
           prom = "no" /\ Whole(b) => Len(b) - (Hdr + b[3]) < MaxRead,
           Fed(b)
    PROVE  IInv'
<1> USE FrameAssumption
<1>1. /\ sent \in Seq(Nat) /\ out \in Seq(Nat) /\ buf \in Seq(Nat) /\ raw = <<>>
      /\ prom \in {"no", "now", "yes"} /\ frames \in Seq(Frame) /\ raw \in Seq(Nat)
      /\ Len(buf) <= MaxPayload + Hdr
  BY DEF TypeOK, Holds, Frame
<1>2. Aged \in {"no", "yes"} /\ (Aged = "no" => prom = "no")
  BY <1>1 DEF Aged
<1>3. CASE Bad(b) /\ Rejected
  <2>1. TypeOK'
    BY <1>1, <1>3, Zenon DEF TypeOK, Rejected, Frame
  <2>2. Exact' /\ Prompt'
    BY <1>3 DEF Rejected, Exact, Prompt
  <2>3. RejectsOnly'
    <3>1. Len(b) >= 4 /\ (b[1] # Version \/ b[3] > MaxPayload)
      BY <1>3 DEF Bad, Hdr
    <3>0. PICK r : r = SubSeq(sent, Len(out) + 1, Len(sent))
      BY Zenon
    <3>2. Len(r) >= 4 /\ r[1] = b[1] /\ r[3] = b[3]
      <4>1. /\ out \in Seq(Nat) /\ b \in Seq(Nat) /\ sent \in Seq(Nat) /\ n \in 0 .. Len(sent)
            /\ Taken(out, b, sent, n) /\ Len(b) >= 4
        BY <1>1, <3>1 DEF Taken
      <4>2. SameHead(SubSeq(sent, Len(out) + 1, Len(sent)), b)
        BY ONLY <4>1, HeadSent, Zenon
      <4> QED  BY ONLY <3>0, <4>2, Zenon DEF SameHead
    <3>3. Bad(r)
      BY <3>1, <3>2 DEF Bad, Hdr
    <3>4. out' = out /\ sent' = sent
      BY <1>3 DEF Rejected
    <3> QED  BY <3>0, <3>3, <3>4, Zenon DEF RejectsOnly, Bad
  <2>4. Holds'
    BY <1>1, <1>3 DEF Rejected, Holds
  <2> QED  BY <2>1, <2>2, <2>3, <2>4 DEF IInv
<1>4. CASE ~Whole(b) /\ Incomplete(b)
  <2>1. TypeOK'
    BY <1>1, <1>2, <1>4, Zenon DEF TypeOK, Incomplete, Frame
  <2>2. Exact'
    <3>1. (out \o b) \o <<>> = out \o b
      BY <1>1, Joined
    <3>2. out' = out /\ buf' = b /\ raw' = <<>> /\ pos' = n
      BY <1>1, <1>4 DEF Incomplete
    <3> QED  BY <3>1, <3>2 DEF Exact
  <2>3. Prompt'
    BY <1>4 DEF Incomplete, Prompt, Whole
  <2>4. RejectsOnly' /\ Holds'
    BY <1>1, <1>2, <1>4 DEF Incomplete, RejectsOnly, Holds
  <2> QED  BY <2>1, <2>2, <2>3, <2>4 DEF IInv
<1>5. CASE ~Bad(b) /\ Whole(b) /\ Handle(FrameOf(b).frame, FrameOf(b).rest)
  <2> DEFINE f == FrameOf(b).frame
             e == tm_frame_encode(f)
             r == FrameOf(b).rest
  <2>1. /\ f \in Frame /\ r \in Seq(Nat) /\ e \in Seq(Nat) /\ e \o r = b
        /\ b[3] \in Nat /\ Len(r) = Len(b) - (Hdr + b[3])
    BY <1>5, FrameCut, Zenon
  <2>2. frames' = Append(frames, f) /\ out' = out \o e
    BY <1>5 DEF Handle
  <2>3. \/ GoesOn(r) \/ Binds(r) \/ Ends(r)
        \/ prom = "no" /\ Promotes(r)
    BY <1>5 DEF Handle
  <2> HIDE DEF f, e, r
  <2>4. /\ out' \in Seq(Nat) /\ frames' \in Seq(Frame)
        /\ out' \o r = SubSeq(sent, 1, n)
        /\ Len(r) \in Nat /\ Len(r) <= MaxPayload + Hdr
        /\ prom = "no" => Len(r) < MaxRead
    <3>1. out' \in Seq(Nat) /\ out' \o r = out \o (e \o r)
      <4>1. out \o e \in Seq(Nat)
        BY <1>1, <2>1, Joined, Zenon
      <4>2. (out \o e) \o r = out \o (e \o r)
        <5>1. out \in Seq(Nat) /\ e \in Seq(Nat) /\ r \in Seq(Nat)
          BY <1>1, <2>1
        <5> QED  BY ONLY <5>1, Regrouped, SMTT(60), ZenonT(60)
      <4> QED  BY <4>1, <4>2, <2>2, Zenon
    <3>2. frames' \in Seq(Frame)
      BY <1>1, <2>1, <2>2
    <3>3. Len(r) \in Nat /\ Len(r) <= MaxPayload + Hdr
      BY <2>1, SMTT(30) DEF Hdr
    <3>4. prom = "no" => Len(r) < MaxRead
      BY <1>5, <2>1
    <3> QED  BY <3>1, <3>2, <3>3, <3>4, <2>1, Zenon
  <2>5. (out' \o r) \o <<>> = out' \o r /\ out' \o <<>> = out'
    BY <2>1, <2>4, Joined
  <2>6. CASE GoesOn(r)
    <3>1. TypeOK'
      BY <1>1, <1>2, <2>1, <2>4, <2>6, Zenon DEF TypeOK, GoesOn, Frame
    <3>2. Exact'
      BY <1>1, <2>4, <2>5, <2>6, Zenon DEF GoesOn, Exact
    <3>3. Prompt' /\ RejectsOnly' /\ Holds'
      BY <1>1, <1>2, <2>4, <2>6 DEF GoesOn, Prompt, RejectsOnly, Holds
    <3> QED  BY <3>1, <3>2, <3>3 DEF IInv
  <2>7. CASE Binds(r)
    <3>1. TypeOK'
      <4>1. <<>> \in Seq(Nat) /\ Len(<<>>) <= MaxPayload + Hdr
        BY DEF Hdr
      <4>2. /\ buf' = <<>> /\ raw' = r /\ busy' = FALSE /\ ph' = "bound"
            /\ prom' \in {"no", "yes"}
        BY <1>2, <2>7 DEF Binds
      <4> QED  BY <1>1, <2>1, <2>4, <4>1, <4>2, Zenon DEF TypeOK, Frame
    <3>2. Exact'
      BY <2>4, <2>5, <2>7 DEF Binds, Exact
    <3>3. Prompt' /\ RejectsOnly' /\ Holds'
      BY <1>2, <2>7 DEF Binds, Prompt, RejectsOnly, Holds
    <3> QED  BY <3>1, <3>2, <3>3 DEF IInv
  <2>8. CASE Ends(r)
    <3>1. TypeOK'
      BY <1>1, <1>2, <2>1, <2>4, <2>8, Zenon DEF TypeOK, Ends, Frame
    <3>2. Exact' /\ Prompt' /\ RejectsOnly' /\ Holds'
      BY <1>2, <2>8 DEF Ends, Exact, Prompt, RejectsOnly, Holds
    <3> QED  BY <3>1, <3>2 DEF IInv
  <2>9. CASE prom = "no" /\ Promotes(r)
    <3>1. TypeOK'
      BY <1>1, <2>1, <2>4, <2>9, Zenon DEF TypeOK, Promotes, Frame
    <3>2. Exact'
      BY <1>1, <2>4, <2>5, <2>9, Zenon DEF Promotes, Exact
    <3>3. Prompt' /\ RejectsOnly' /\ Holds'
      BY <1>1, <2>4, <2>9 DEF Promotes, Prompt, RejectsOnly, Holds
    <3> QED  BY <3>1, <3>2, <3>3 DEF IInv
  <2> QED  BY <2>3, <2>6, <2>7, <2>8, <2>9
<1> QED  BY <1>3, <1>4, <1>5 DEF Fed

\* A frame that a read completes began before the read ended: less than the
\* read is left behind it.
LEMMA LeftBehind ==
    ASSUME NEW a \in Seq(Nat), NEW d \in Seq(Nat), Len(d) <= MaxRead,
           ~Whole(a), Whole(a \o d), d # <<>>
    PROVE  Len(a \o d) - (Hdr + (a \o d)[3]) < MaxRead
<1> USE FrameAssumption
<1> DEFINE b == a \o d
<1>1. /\ Len(a) \in Nat /\ Len(d) \in Nat /\ Len(d) > 0
      /\ b \in Seq(Nat) /\ Len(b) = Len(a) + Len(d)
      /\ \A i \in 1 .. Len(a) : b[i] = a[i]
  OBVIOUS
<1>2. Len(b) >= 4 /\ b[3] \in Nat
  <2>1. Len(b) >= 4
    BY DEF Whole, Hdr
  <2>2. b \in Seq(Nat) /\ Len(b) \in Nat
    BY <1>1
  <2> HIDE DEF b
  <2> QED  BY ONLY <2>1, <2>2
<1> HIDE DEF b
<1> DEFINE m == Len(a)
           n == Len(d)
           l == b[3]
<1>3. m \in Nat /\ n \in Nat /\ n > 0 /\ l \in Nat /\ n <= MaxRead /\ MaxRead \in Nat
  BY <1>1, <1>2
<1>4. m < 4 + l
  <2>1. CASE m < 4
    <3> HIDE DEF m, n, l
    <3> QED  BY ONLY <1>3, <2>1
  <2>2. CASE ~(m < 4)
    <3>1. m >= 4
      BY ONLY <1>3, <2>2
    <3>2. b[3] = a[3]
      BY <1>1, <3>1
    <3>3. ~(m >= 4 + l)
      BY <3>1, <3>2 DEF Whole, Hdr
    <3> HIDE DEF m, n, l
    <3> QED  BY ONLY <1>3, <3>3
  <2> QED  BY <2>1, <2>2
<1>5. Len(b) = m + n
  BY <1>1
<1> HIDE DEF m, n, l
<1>6. (m + n) - (4 + l) < MaxRead
  BY ONLY <1>3, <1>4
<1> QED  BY <1>5, <1>6, Zenon DEF b, l, Hdr

\* Initially nothing was read.
LEMMA InitInv == Init => IInv
<1> SUFFICES ASSUME Init PROVE IInv
  OBVIOUS
<1> USE FrameAssumption
<1>1. sent \in Seq(Nat) /\ Len(sent) \in Nat /\ <<>> \in Seq(Nat) /\ Len(<<>>) = 0
  BY DEF Init
<1>2. TypeOK
  <2>1. <<>> \in Seq(Frame) /\ 0 \in 0 .. Len(sent) /\ Len(<<>>) <= MaxPayload + Hdr
    BY <1>1 DEF Hdr
  <2> QED  BY <1>1, <2>1, Zenon DEF Init, TypeOK, Frame
<1>3. Exact
  <2>1. SubSeq(sent, 1, 0) = <<>> /\ (<<>> \o <<>>) \o <<>> = <<>>
    BY <1>1
  <2> QED  BY <2>1 DEF Init, Exact
<1>4. Prompt /\ RejectsOnly /\ Holds
  BY <1>1 DEF Init, Prompt, RejectsOnly, Holds, Whole, Hdr
<1> QED  BY <1>2, <1>3, <1>4 DEF IInv

\* The first call of a read callback: the chunk overflows the reader, which
\* happens only behind the head of a long frame, or is added to it.
LEMMA ReadStep == IInv /\ read_cb => IInv'
<1> SUFFICES ASSUME IInv, read_cb PROVE IInv'
  OBVIOUS
<1> USE FrameAssumption
<1>1. /\ TypeOK /\ Holds /\ Prompt /\ ph = "frames" /\ ~busy /\ sent' = sent
      /\ sent \in Seq(Nat) /\ pos \in 0 .. Len(sent) /\ buf \in Seq(Nat)
      /\ out \in Seq(Nat) /\ raw = <<>>
      /\ prom \in {"no", "now", "yes"} /\ Len(buf) <= MaxPayload + Hdr
  BY DEF IInv, read_cb, TypeOK, Holds
<1>2. PICK k \in 1 .. MaxRead : /\ pos + k <= Len(sent) /\ pos' = pos + k
                                /\ tm_frame_reader_feed(Arrived(k))
  BY DEF read_cb
<1>3. k \in Nat /\ k <= MaxRead /\ k >= 1 /\ pos \in Nat /\ Len(sent) \in Nat
  BY <1>1, <1>2
<1>4. out \o buf = SubSeq(sent, 1, pos)
  <2>1. (out \o buf) \o <<>> = out \o buf
    BY <1>1, Joined
  <2> QED  BY <2>1, <1>1, SMTT(30) DEF IInv, Exact
<1> DEFINE d == Arrived(k)
           b == buf \o d
<1>5. /\ d \in Seq(Nat) /\ Len(d) = k /\ out \o b = SubSeq(sent, 1, pos + k)
  <2>1. /\ SubSeq(sent, pos + 1, pos + k) \in Seq(Nat)
        /\ Len(SubSeq(sent, pos + 1, pos + k)) = k
        /\ out \o (buf \o SubSeq(sent, pos + 1, pos + k)) = SubSeq(sent, 1, pos + k)
    <3>1. /\ out \in Seq(Nat) /\ buf \in Seq(Nat) /\ sent \in Seq(Nat)
          /\ pos \in 0 .. Len(sent) /\ k \in Nat /\ pos + k <= Len(sent)
      BY <1>1, <1>2, <1>3
    <3> QED  BY ONLY <3>1, <1>4, Continues, ZenonT(60), SMTT(60)
  <2> QED  BY <2>1, Zenon DEF Arrived
<1> HIDE DEF d
<1>6. b \in Seq(Nat) /\ Len(b) = Len(buf) + k /\ Len(buf) \in Nat
  <2>1. buf \o d \in Seq(Nat) /\ Len(buf \o d) = Len(buf) + Len(d)
    BY <1>1, <1>5, Joined, ZenonT(60), SMTT(60)
  <2> QED  BY <2>1, <1>1, <1>5
<1>7. CASE TooLong(d)
  <2>1. Rejected
    BY <1>2, <1>7 DEF tm_frame_reader_feed, Overflows, d
  <2>2. Len(buf) + k > MaxPayload + 4
    BY <1>5, <1>7 DEF TooLong, Hdr
  <2>3. prom # "now"
    <3>1. prom = "now" => Len(buf) < MaxRead
      BY <1>1 DEF Holds
    <3> QED  BY <3>1, <2>2, <1>3, <1>6 DEF Hdr
  <2>4. Len(buf) >= 4 /\ Len(buf) < 4 + buf[3] /\ buf[3] \in Nat
    <3>1. Len(buf) >= 4
      BY <2>2, <1>3, <1>6
    <3>2. buf[3] \in Nat
      BY ONLY <3>1, <1>1, LengthCell, Zenon
    <3>3. ~Whole(buf)
      BY <1>1, <2>3 DEF Prompt
    <3>4. ~(Len(buf) >= 4 + buf[3])
      BY <3>1, <3>3 DEF Whole, Hdr
    <3> QED  BY <3>1, <3>2, <3>4, <1>6, SMTT(30)
  <2>5. buf[3] + MaxRead > MaxPayload + 1
    <3> DEFINE m == Len(buf)
               l == buf[3]
    <3>1. /\ m \in Nat /\ l \in Nat /\ m < 4 + l /\ m + k > MaxPayload + 4
          /\ k \in Nat /\ k <= MaxRead /\ MaxRead \in Nat /\ MaxPayload \in Nat
      BY <2>2, <2>4, <1>3, <1>6, SMTT(30)
    <3> HIDE DEF m, l
    <3>2. l + MaxRead > MaxPayload + 1
      BY ONLY <3>1
    <3> QED  BY <3>2 DEF l
  <2>0. PICK r : r = SubSeq(sent, Len(out) + 1, Len(sent))
    BY Zenon
  <2>6. Len(r) >= 4 /\ r[3] = buf[3]
    <3>1. /\ out \in Seq(Nat) /\ buf \in Seq(Nat) /\ sent \in Seq(Nat) /\ pos \in 0 .. Len(sent)
          /\ Taken(out, buf, sent, pos) /\ Len(buf) >= 4
      BY <1>1, <1>4, <2>4 DEF Taken
    <3>2. SameHead(SubSeq(sent, Len(out) + 1, Len(sent)), buf)
      BY ONLY <3>1, HeadSent, Zenon
    <3> QED  BY ONLY <2>0, <3>2, Zenon DEF SameHead
  <2>7. RejectsOnly'
    <3>1. out' = out /\ sent' = sent
      BY <2>1, <1>1 DEF Rejected
    <3>2. Len(r) >= Hdr /\ r[3] + MaxRead > MaxPayload + 1
      BY <2>5, <2>6 DEF Hdr
    <3> QED  BY <2>0, <3>1, <3>2, Zenon DEF RejectsOnly
  <2>8. TypeOK'
    <3>1. pos' \in 0 .. Len(sent')
      BY <1>1, <1>2, <1>3
    <3> QED  BY <3>1, <2>1, <1>1, Zenon DEF TypeOK, Rejected
  <2>9. Exact' /\ Prompt' /\ Holds'
    BY <1>1, <2>1, <2>3 DEF Rejected, Exact, Prompt, Holds
  <2> QED  BY <2>7, <2>8, <2>9 DEF IInv
<1>8. CASE ~TooLong(d)
  <2>1. Fed(b)
    BY <1>2, <1>8 DEF tm_frame_reader_feed, Overflows, d
  <2>2. Len(b) <= MaxPayload + Hdr
    BY <1>5, <1>6, <1>8 DEF TooLong, Hdr
  <2>3. prom = "no" /\ Whole(b) => Len(b) - (Hdr + b[3]) < MaxRead
    <3> SUFFICES ASSUME prom = "no", Whole(b)
                 PROVE  Len(b) - (Hdr + b[3]) < MaxRead
      BY Zenon
    <3>1. ~Whole(buf)
      BY <1>1 DEF Prompt
    <3>2. d # <<>> /\ Len(d) <= MaxRead
      BY <1>3, <1>5
    <3> QED  BY <3>1, <3>2, <1>1, <1>5, LeftBehind, Zenon
  <2>4. pos + k \in 0 .. Len(sent)
    BY <1>2, <1>3
  <2> HIDE DEF b
  <2> QED  BY <1>1, <1>2, <1>5, <1>6, <2>1, <2>2, <2>3, <2>4, FedStep, Zenon
<1> QED  BY <1>7, <1>8

\* The later calls, which add nothing to the reader.
LEMMA NextFrameStep == IInv /\ next_frame => IInv'
<1> SUFFICES ASSUME IInv, next_frame PROVE IInv'
  OBVIOUS
<1>1. /\ TypeOK /\ Holds /\ ph = "frames" /\ busy /\ sent' = sent /\ pos' = pos
      /\ sent \in Seq(Nat) /\ pos \in 0 .. Len(sent) /\ buf \in Seq(Nat)
      /\ out \in Seq(Nat) /\ raw = <<>> /\ Len(buf) <= MaxPayload + Hdr
      /\ Fed(buf) /\ (prom = "no" => Len(buf) < MaxRead)
  BY DEF IInv, next_frame, TypeOK, Holds
<1>2. out \o buf = SubSeq(sent, 1, pos)
  <2>1. (out \o buf) \o <<>> = out \o buf
    BY <1>1, Joined
  <2> QED  BY <2>1, <1>1 DEF IInv, Exact
<1>3. prom = "no" /\ Whole(buf) => Len(buf) - (Hdr + buf[3]) < MaxRead
  <2> SUFFICES ASSUME prom = "no", Whole(buf)
               PROVE  Len(buf) - (Hdr + buf[3]) < MaxRead
    OBVIOUS
  <2>0. Len(buf) >= 4
    BY DEF Whole, Hdr
  <2>1. Len(buf) \in Nat /\ buf[3] \in Nat
    BY ONLY <1>1, <2>0, LengthCell, Zenon
  <2>2. Len(buf) < MaxRead /\ MaxRead \in Nat
    BY <1>1, FrameAssumption
  <2> QED  BY ONLY <2>1, <2>2 DEF Hdr
<1> QED  BY <1>1, <1>2, <1>3, FedStep, Zenon

\* A bound connection hands everything to the relay.
LEMMA RelayReadStep == IInv /\ relay_read => IInv'
<1> SUFFICES ASSUME IInv, relay_read PROVE IInv'
  OBVIOUS
<1>1. PICK k \in 1 .. MaxRead : /\ pos + k <= Len(sent) /\ pos' = pos + k
                                /\ raw' = raw \o Arrived(k)
  BY SMTT(30) DEF relay_read
<1>2. /\ ph = "bound" /\ sent \in Seq(Nat) /\ pos \in 0 .. Len(sent) /\ buf \in Seq(Nat)
      /\ out \in Seq(Nat) /\ raw \in Seq(Nat)
      /\ UNCHANGED <<sent, buf, busy, ph, prom, frames, out>>
  BY DEF IInv, TypeOK, relay_read
<1>3. k \in Nat /\ pos \in Nat /\ Len(sent) \in Nat
  BY <1>1, <1>2, FrameAssumption
<1> DEFINE d == Arrived(k)
           o == out \o buf
<1>4. o \in Seq(Nat) /\ o \o raw = SubSeq(sent, 1, pos)
  BY <1>2, Joined, Zenon DEF IInv, Exact
<1> HIDE DEF o
<1>5. d \in Seq(Nat) /\ o \o (raw \o d) = SubSeq(sent, 1, pos + k)
  <2>1. /\ SubSeq(sent, pos + 1, pos + k) \in Seq(Nat)
        /\ o \o (raw \o SubSeq(sent, pos + 1, pos + k)) = SubSeq(sent, 1, pos + k)
    <3>1. /\ o \in Seq(Nat) /\ raw \in Seq(Nat) /\ sent \in Seq(Nat)
          /\ pos \in 0 .. Len(sent) /\ k \in Nat /\ pos + k <= Len(sent)
      BY <1>1, <1>2, <1>3, <1>4
    <3> QED  BY ONLY <3>1, <1>4, Continues, ZenonT(60), SMTT(60)
  <2> QED  BY <2>1, Zenon DEF Arrived
<1> HIDE DEF d
<1>6. raw' = raw \o d /\ raw' \in Seq(Nat)
  BY <1>1, <1>2, <1>5, Joined DEF d
<1>7. pos' \in 0 .. Len(sent)
  BY <1>1, <1>3
<1>8. TypeOK'
  BY <1>2, <1>6, <1>7 DEF IInv, TypeOK
<1>9. Exact'
  BY <1>1, <1>2, <1>5, <1>6, Zenon DEF Exact, o
<1>10. Prompt' /\ RejectsOnly' /\ Holds'
  BY <1>2 DEF IInv, Prompt, RejectsOnly, Holds
<1> QED  BY <1>8, <1>9, <1>10 DEF IInv

----------------------------------------------------------------------------
\* The strengthened invariant holds always, however reads cut what is sent.
THEOREM Invariance == Spec => []IInv
<1>1. IInv /\ UNCHANGED vars => IInv'
  <2> SUFFICES ASSUME IInv, UNCHANGED vars PROVE IInv'
    OBVIOUS
  <2>1. UNCHANGED <<sent, pos, buf, busy, ph, prom, frames, out, raw>>
    BY DEF vars
  <2>2. TypeOK'
    BY <2>1 DEF IInv, TypeOK
  <2>3. Exact' /\ Prompt' /\ Holds'
    BY <2>1, Zenon DEF IInv, Exact, Prompt, Holds, Whole
  <2>4. RejectsOnly'
    BY <2>1, Zenon DEF IInv, RejectsOnly, Bad
  <2> QED  BY <2>2, <2>3, <2>4 DEF IInv
<1>2. IInv /\ [Next]_vars => IInv'
  BY <1>1, ReadStep, NextFrameStep, RelayReadStep DEF Next
<1> QED  BY <1>2, InitInv, PTL DEF Spec

\* The reader never holds more than one frame of maximal size
\* (tm_frame_reader_feed).
THEOREM TypeCorrect == Spec => []TypeOK
BY Invariance, PTL DEF IInv

\* What was read is handed out as frames, held, or relayed, exactly once and
\* in order, across the hand-over of tm_frame_reader_drain.
THEOREM NothingLost == Spec => []Exact
BY Invariance, PTL DEF IInv

\* No whole frame waits in the reader between reads, but for frames behind a
\* REGISTER in the same read (conn_read leaves its loop there).
THEOREM FramesArePrompt == Spec => []Prompt
BY Invariance, PTL DEF IInv

\* A connection that conforms, with no frame within one read of the maximal
\* length, is never refused by tm_frame_reader_feed.
THEOREM RejectionsJustified == Spec => []RejectsOnly
BY Invariance, PTL DEF IInv

-----------------------------------------------------------------------------
\* The envelope of a datagram.

\* Cutting the lowest byte off a number.
LEMMA ByteOff ==
    ASSUME NEW v \in Nat
    PROVE  Shr8(v) \in Nat /\ Low8(v) \in Byte /\ v = Shl8(Shr8(v), Low8(v))
BY SMT DEF Shr8, Low8, Shl8, Byte

\* Putting a byte behind a number.
LEMMA ByteOn ==
    ASSUME NEW h \in Nat, NEW c \in Byte
    PROVE  Shl8(h, c) \in Nat /\ Shr8(Shl8(h, c)) = h /\ Low8(Shl8(h, c)) = c
BY SMT DEF Shr8, Low8, Shl8, Byte

\* Nothing is above the highest byte.
LEMMA HighestByte ==
    ASSUME NEW c \in Byte
    PROVE  0 \in Nat /\ c \in Nat /\ Shl8(0, c) = c
BY SMT DEF Shl8, Byte

\* v is made of the bytes c1 to c8.
EightBytes(c1, c2, c3, c4, c5, c6, c7, c8, v) ==
    v = Shl8(Shl8(Shl8(Shl8(Shl8(Shl8(Shl8(c1, c2), c3), c4), c5), c6), c7), c8)

\* The bytes wr_u64 writes of v.
Written(v, c1, c2, c3, c4, c5, c6, c7, c8) ==
    /\ c1 = Low8(Shr8(Shr16(Shr32(v)))) /\ c2 = Low8(Shr16(Shr32(v)))
    /\ c3 = Low8(Shr8(Shr32(v))) /\ c4 = Low8(Shr32(v))
    /\ c5 = Low8(Shr8(Shr16(v))) /\ c6 = Low8(Shr16(v))
    /\ c7 = Low8(Shr8(v)) /\ c8 = Low8(v)

\* They are bytes, and v is made of them.
LEMMA WrittenBytes ==
    ASSUME NEW v \in U64
    PROVE  \E c1, c2, c3, c4, c5, c6, c7, c8 \in Byte :
             /\ Written(v, c1, c2, c3, c4, c5, c6, c7, c8)
             /\ EightBytes(c1, c2, c3, c4, c5, c6, c7, c8, v)
<1>0. v \in Nat /\ Shr32(Shr32(v)) = 0
  BY Zenon DEF U64
<1>1. PICK v1 \in Nat, c8 \in Byte : v1 = Shr8(v) /\ c8 = Low8(v) /\ v = Shl8(v1, c8)
  BY <1>0, ByteOff, Zenon
<1>2. PICK v2 \in Nat, c7 \in Byte : v2 = Shr8(v1) /\ c7 = Low8(v1) /\ v1 = Shl8(v2, c7)
  BY ByteOff, Zenon
<1>3. PICK v3 \in Nat, c6 \in Byte : v3 = Shr8(v2) /\ c6 = Low8(v2) /\ v2 = Shl8(v3, c6)
  BY ByteOff, Zenon
<1>4. PICK v4 \in Nat, c5 \in Byte : v4 = Shr8(v3) /\ c5 = Low8(v3) /\ v3 = Shl8(v4, c5)
  BY ByteOff, Zenon
<1>5. PICK v5 \in Nat, c4 \in Byte : v5 = Shr8(v4) /\ c4 = Low8(v4) /\ v4 = Shl8(v5, c4)
  BY ByteOff, Zenon
<1>6. PICK v6 \in Nat, c3 \in Byte : v6 = Shr8(v5) /\ c3 = Low8(v5) /\ v5 = Shl8(v6, c3)
  BY ByteOff, Zenon
<1>7. PICK v7 \in Nat, c2 \in Byte : v7 = Shr8(v6) /\ c2 = Low8(v6) /\ v6 = Shl8(v7, c2)
  BY ByteOff, Zenon
<1>8. Shr8(v7) = 0
  BY ONLY <1>0, <1>1, <1>2, <1>3, <1>4, <1>5, <1>6, <1>7, Zenon DEF Shr32, Shr16
<1>9. PICK c1 \in Byte : c1 = Low8(v7) /\ v7 = Shl8(0, c1)
  BY <1>8, ByteOff, Zenon
<1>10. v7 = c1
  BY <1>9, HighestByte, Zenon
<1>11. EightBytes(c1, c2, c3, c4, c5, c6, c7, c8, v)
  <2>1. v4 = Shl8(Shl8(Shl8(c1, c2), c3), c4)
    BY ONLY <1>5, <1>6, <1>7, <1>10, Zenon
  <2>2. v2 = Shl8(Shl8(v4, c5), c6)
    BY ONLY <1>3, <1>4, Zenon
  <2>3. v = Shl8(Shl8(v2, c7), c8)
    BY ONLY <1>1, <1>2, Zenon
  <2> QED  BY ONLY <2>1, <2>2, <2>3, Zenon DEF EightBytes
<1>12. Written(v, c1, c2, c3, c4, c5, c6, c7, c8)
  BY ONLY <1>1, <1>2, <1>3, <1>4, <1>5, <1>6, <1>7, <1>9, Zenon DEF Written, Shr32, Shr16
<1> WITNESS c1 \in Byte, c2 \in Byte, c3 \in Byte, c4 \in Byte, c5 \in Byte, c6 \in Byte,
            c7 \in Byte, c8 \in Byte
<1> QED  BY ONLY <1>11, <1>12, Zenon

\* Eight bytes make a number of 64 bits, of which wr_u64 writes the same bytes.
LEMMA BytesWritten ==
    ASSUME NEW c1 \in Byte, NEW c2 \in Byte, NEW c3 \in Byte, NEW c4 \in Byte, NEW c5 \in Byte,
           NEW c6 \in Byte, NEW c7 \in Byte, NEW c8 \in Byte, NEW v,
           EightBytes(c1, c2, c3, c4, c5, c6, c7, c8, v)
    PROVE  v \in U64 /\ Written(v, c1, c2, c3, c4, c5, c6, c7, c8)
<1>1. PICK v7 \in Nat : v7 = c1 /\ Shr8(v7) = 0 /\ Low8(v7) = c1
  BY HighestByte, ByteOn, Zenon
<1>2. PICK v6 \in Nat : v6 = Shl8(v7, c2) /\ Shr8(v6) = v7 /\ Low8(v6) = c2
  BY ByteOn, Zenon
<1>3. PICK v5 \in Nat : v5 = Shl8(v6, c3) /\ Shr8(v5) = v6 /\ Low8(v5) = c3
  BY ByteOn, Zenon
<1>4. PICK v4 \in Nat : v4 = Shl8(v5, c4) /\ Shr8(v4) = v5 /\ Low8(v4) = c4
  BY ByteOn, Zenon
<1>5. PICK v3 \in Nat : v3 = Shl8(v4, c5) /\ Shr8(v3) = v4 /\ Low8(v3) = c5
  BY ByteOn, Zenon
<1>6. PICK v2 \in Nat : v2 = Shl8(v3, c6) /\ Shr8(v2) = v3 /\ Low8(v2) = c6
  BY ByteOn, Zenon
<1>7. PICK v1 \in Nat : v1 = Shl8(v2, c7) /\ Shr8(v1) = v2 /\ Low8(v1) = c7
  BY ByteOn, Zenon
<1>8. PICK w \in Nat : w = Shl8(v1, c8) /\ Shr8(w) = v1 /\ Low8(w) = c8
  BY ByteOn, Zenon
<1>9. v = w
  BY <1>1, <1>2, <1>3, <1>4, <1>5, <1>6, <1>7, <1>8, Zenon DEF EightBytes
<1>10. v \in U64
  <2>1. Shr32(v) = v4
    BY ONLY <1>5, <1>6, <1>7, <1>8, <1>9, Zenon DEF Shr32, Shr16
  <2>2. Shr32(v4) = 0
    BY ONLY <1>1, <1>2, <1>3, <1>4, Zenon DEF Shr32, Shr16
  <2> QED  BY ONLY w \in Nat, <1>9, <2>1, <2>2, Zenon DEF U64
<1>11. Written(v, c1, c2, c3, c4, c5, c6, c7, c8)
  BY ONLY <1>1, <1>2, <1>3, <1>4, <1>5, <1>6, <1>7, <1>8, <1>9, ZenonT(60) DEF Written, Shr32, Shr16
<1> QED  BY <1>10, <1>11

\* h is the header in front of a payload: its length, eight bytes of a flow id, flags.
IsHeader(h, c1, c2, c3, c4, c5, c6, c7, c8, flags) ==
    /\ h \in Seq(Nat) /\ Len(h) = 11
    /\ h[1] = 0 /\ h[2] = 11 /\ h[3] = c1 /\ h[4] = c2 /\ h[5] = c3 /\ h[6] = c4
    /\ h[7] = c5 /\ h[8] = c6 /\ h[9] = c7 /\ h[10] = c8 /\ h[11] = flags

\* There is only one such header.
LEMMA OneHeader ==
    ASSUME NEW c1, NEW c2, NEW c3, NEW c4, NEW c5, NEW c6, NEW c7, NEW c8, NEW flags, NEW h, NEW g,
           IsHeader(h, c1, c2, c3, c4, c5, c6, c7, c8, flags),
           IsHeader(g, c1, c2, c3, c4, c5, c6, c7, c8, flags)
    PROVE  h = g
<1>1. h \in Seq(Nat) /\ g \in Seq(Nat) /\ Len(h) = Len(g)
  BY Zenon DEF IsHeader
<1>2. \A i \in 1 .. Len(h) : h[i] = g[i]
  BY SMT DEF IsHeader
<1> QED  BY ONLY <1>1, <1>2, SeqEqual, Zenon

\* The four bytes of a word.
LEMMA FourBytes ==
    ASSUME NEW a \in Nat, NEW b \in Nat, NEW c \in Nat, NEW d \in Nat, NEW s,
           s = <<a, b, c, d>>
    PROVE  s \in Seq(Nat) /\ Len(s) = 4 /\ s[1] = a /\ s[2] = b /\ s[3] = c /\ s[4] = d
BY SMT

\* tm_env_encode writes this header, of the bytes of the flow id.
LEMMA HeaderWritten ==
    ASSUME NEW c1 \in Byte, NEW c2 \in Byte, NEW c3 \in Byte, NEW c4 \in Byte, NEW c5 \in Byte,
           NEW c6 \in Byte, NEW c7 \in Byte, NEW c8 \in Byte, NEW flags \in Nat,
           NEW flow, Written(flow, c1, c2, c3, c4, c5, c6, c7, c8)
    PROVE  IsHeader((wr_u16(11) \o wr_u64(flow)) \o <<flags>>, c1, c2, c3, c4, c5, c6, c7, c8, flags)
<1>0. /\ c1 \in Nat /\ c2 \in Nat /\ c3 \in Nat /\ c4 \in Nat
      /\ c5 \in Nat /\ c6 \in Nat /\ c7 \in Nat /\ c8 \in Nat
  BY SMT DEF Byte
<1>1. PICK l : l = wr_u16(11)
  BY Zenon
<1>2. l \in Seq(Nat) /\ Len(l) = 2 /\ l[1] = 0 /\ l[2] = 11
  BY <1>1, SMT DEF wr_u16, Low8, Shr8
<1>3. PICK x, y : x = <<c1, c2, c3, c4>> /\ y = <<c5, c6, c7, c8>>
  BY Zenon
<1>4. wr_u64(flow) = x \o y
  BY <1>3, Zenon DEF Written, wr_u64, wr_u32
<1>5. x \in Seq(Nat) /\ Len(x) = 4 /\ x[1] = c1 /\ x[2] = c2 /\ x[3] = c3 /\ x[4] = c4
  BY ONLY <1>0, <1>3, FourBytes, ZenonT(60)
<1>6. y \in Seq(Nat) /\ Len(y) = 4 /\ y[1] = c5 /\ y[2] = c6 /\ y[3] = c7 /\ y[4] = c8
  BY ONLY <1>0, <1>3, FourBytes, ZenonT(60)
<1>7. PICK w : w = x \o y
  BY Zenon
<1>8. /\ w \in Seq(Nat) /\ Len(w) = 8
      /\ w[1] = c1 /\ w[2] = c2 /\ w[3] = c3 /\ w[4] = c4
      /\ w[5] = c5 /\ w[6] = c6 /\ w[7] = c7 /\ w[8] = c8
  <2>1. /\ w \in Seq(Nat) /\ Len(w) = Len(x) + Len(y)
        /\ \A i \in 1 .. Len(x) : w[i] = x[i]
        /\ \A i \in 1 .. Len(y) : w[Len(x) + i] = y[i]
    BY ONLY <1>5, <1>6, <1>7, Joined, Zenon
  <2> QED  BY ONLY <2>1, <1>5, <1>6, SMT
<1>9. PICK k : k = l \o w
  BY Zenon
<1>10. /\ k \in Seq(Nat) /\ Len(k) = 10
       /\ k[1] = 0 /\ k[2] = 11 /\ k[3] = c1 /\ k[4] = c2 /\ k[5] = c3 /\ k[6] = c4
       /\ k[7] = c5 /\ k[8] = c6 /\ k[9] = c7 /\ k[10] = c8
  <2>1. /\ k \in Seq(Nat) /\ Len(k) = Len(l) + Len(w)
        /\ \A i \in 1 .. Len(l) : k[i] = l[i]
        /\ \A i \in 1 .. Len(w) : k[Len(l) + i] = w[i]
    BY ONLY <1>2, <1>8, <1>9, Joined, ZenonT(60)
  <2> QED  BY ONLY <2>1, <1>2, <1>8, SMT
<1>11. PICK f : f = <<flags>>
  BY Zenon
<1>12. f \in Seq(Nat) /\ Len(f) = 1 /\ f[1] = flags
  BY ONLY <1>11, flags \in Nat, SMT
<1>13. PICK h : h = k \o f
  BY Zenon
<1>14. IsHeader(h, c1, c2, c3, c4, c5, c6, c7, c8, flags)
  <2>1. /\ h \in Seq(Nat) /\ Len(h) = Len(k) + Len(f)
        /\ \A i \in 1 .. Len(k) : h[i] = k[i]
        /\ \A i \in 1 .. Len(f) : h[Len(k) + i] = f[i]
    BY ONLY <1>10, <1>12, <1>13, Joined, ZenonT(60)
  <2> QED  BY ONLY <2>1, <1>10, <1>12, SMT DEF IsHeader
<1> QED  BY ONLY <1>1, <1>4, <1>7, <1>9, <1>11, <1>13, <1>14, ZenonT(60)

\* The bytes of b are that header, and p behind it.
Headed(b, c1, c2, c3, c4, c5, c6, c7, c8, flags, p) ==
    /\ Len(b) \in Nat /\ Len(b) >= 11
    /\ b[1] = 0 /\ b[2] = 11 /\ b[3] = c1 /\ b[4] = c2 /\ b[5] = c3 /\ b[6] = c4
    /\ b[7] = c5 /\ b[8] = c6 /\ b[9] = c7 /\ b[10] = c8 /\ b[11] = flags
    /\ SubSeq(b, 11 + 1, Len(b)) = p

\* The header in front of a payload, and the payload behind it, can be read back.
LEMMA HeaderRead ==
    ASSUME NEW c1, NEW c2, NEW c3, NEW c4, NEW c5, NEW c6, NEW c7, NEW c8, NEW flags,
           NEW h, IsHeader(h, c1, c2, c3, c4, c5, c6, c7, c8, flags),
           NEW p \in Seq(Nat), NEW b, b = h \o p
    PROVE  Headed(b, c1, c2, c3, c4, c5, c6, c7, c8, flags, p)
<1>1. /\ h \in Seq(Nat) /\ Len(h) = 11
      /\ h[1] = 0 /\ h[2] = 11 /\ h[3] = c1 /\ h[4] = c2 /\ h[5] = c3 /\ h[6] = c4
      /\ h[7] = c5 /\ h[8] = c6 /\ h[9] = c7 /\ h[10] = c8 /\ h[11] = flags
  BY Zenon DEF IsHeader
<1>2. /\ b \in Seq(Nat) /\ Len(b) = Len(h) + Len(p) /\ Len(p) \in Nat
      /\ \A i \in 1 .. Len(h) : b[i] = h[i]
      /\ \A i \in 1 .. Len(p) : b[Len(h) + i] = p[i]
  BY <1>1, Joined, LenProperties, ZenonT(60)
<1>3. SubSeq(b, 11 + 1, Len(b)) = p
  <2>1. 11 \in 0 .. Len(b) /\ Len(b) \in 11 .. Len(b) /\ Len(b) - 11 = Len(p)
    BY ONLY <1>1, <1>2, SMT
  <2>2. PICK q : q = SubSeq(b, 11 + 1, Len(b))
    BY Zenon
  <2>3. q \in Seq(Nat) /\ Len(q) = Len(p) /\ \A i \in 1 .. Len(p) : q[i] = b[11 + i]
    BY ONLY <1>2, <2>1, <2>2, Split, ZenonT(60)
  <2>4. \A i \in 1 .. Len(q) : q[i] = p[i]
    BY ONLY <1>1, <1>2, <2>3, ZenonT(60)
  <2> QED  BY ONLY <2>2, <2>3, <2>4, p \in Seq(Nat), SeqEqual, Zenon
<1>4. /\ b[1] = 0 /\ b[2] = 11 /\ b[3] = c1 /\ b[4] = c2 /\ b[5] = c3 /\ b[6] = c4
      /\ b[7] = c5 /\ b[8] = c6 /\ b[9] = c7 /\ b[10] = c8 /\ b[11] = flags
  BY ONLY <1>1, <1>2, SMT
<1>5. Len(b) \in Nat /\ Len(b) >= 11
  BY ONLY <1>1, <1>2, SMT
<1> QED  BY ONLY <1>3, <1>4, <1>5, Zenon DEF Headed

\* The bytes rd_u64 reads are those its number is made of.
LEMMA FlowRead ==
    ASSUME NEW b
    PROVE  EightBytes(b[3], b[4], b[5], b[6], b[7], b[8], b[9], b[10], rd_u64(b, 3))
<1>1. /\ 3 + 1 = 4 /\ 3 + 2 = 5 /\ 3 + 3 = 6 /\ 3 + 4 = 7 /\ 3 + 5 = 8 /\ 3 + 6 = 9 /\ 3 + 7 = 10
  BY SMT
<1> QED  BY ONLY <1>1, Zenon DEF EightBytes, rd_u64, rd_u32, rd_u16

\* A header of length 11 begins with the bytes 0 and 11.
LEMMA LengthField ==
    /\ Shl8(0, 11) = 11
    /\ \A h \in Byte, c \in Byte : Shl8(h, c) = 11 => h = 0 /\ c = 11
BY SMT DEF Shl8, Byte

\* The envelope of a datagram is exact both ways, for every flow id of 64 bits,
\* every payload and every sequence of bytes: tm_env_decode accepts what
\* tm_env_encode builds and gives its parts back, and what it accepts is what
\* tm_env_encode builds from the parts it gives.
THEOREM EnvelopesAreExact == EnvelopeExact(U64, Seq(Byte), Seq(Byte))
<1>0. /\ Byte \subseteq Nat /\ Flags \subseteq Nat
      /\ \A p \in Seq(Byte) : p \in Seq(Nat)
  <2>1. Byte \subseteq Nat /\ Flags \subseteq Nat
    BY SMT DEF Byte, Flags
  <2>2. ASSUME NEW p \in Seq(Byte)  PROVE p \in Seq(Nat)
    BY ONLY <2>1, p \in Seq(Byte), SeqMonotonic, Zenon
  <2> QED  BY ONLY <2>1, <2>2, Zenon
<1>1. 1 + 1 = 2
  BY SMT
<1>2. ASSUME NEW flow \in U64, NEW flags \in Flags, NEW p \in Seq(Byte)
      PROVE  LET b == tm_env_encode(flow, flags, p) IN
             EnvOK(b) /\ tm_env_decode(b) = [flow |-> flow, flags |-> flags, payload |-> p]
  <2>1. PICK c1, c2, c3, c4, c5, c6, c7, c8 \in Byte :
           /\ Written(flow, c1, c2, c3, c4, c5, c6, c7, c8)
           /\ EightBytes(c1, c2, c3, c4, c5, c6, c7, c8, flow)
    BY WrittenBytes, Zenon
  <2>2. PICK h : h = (wr_u16(11) \o wr_u64(flow)) \o <<flags>>
    BY Zenon
  <2>3. flags \in Nat /\ p \in Seq(Nat)
    BY ONLY <1>0, flags \in Flags, p \in Seq(Byte), Zenon
  <2>4. IsHeader(h, c1, c2, c3, c4, c5, c6, c7, c8, flags)
    BY <2>1, <2>2, <2>3, HeaderWritten, Zenon
  <2>5. PICK b : b = h \o p
    BY Zenon
  <2>6. /\ Len(b) \in Nat /\ Len(b) >= 11
        /\ b[1] = 0 /\ b[2] = 11 /\ b[3] = c1 /\ b[4] = c2 /\ b[5] = c3 /\ b[6] = c4
        /\ b[7] = c5 /\ b[8] = c6 /\ b[9] = c7 /\ b[10] = c8 /\ b[11] = flags
        /\ SubSeq(b, 11 + 1, Len(b)) = p
    <3>1. Headed(b, c1, c2, c3, c4, c5, c6, c7, c8, flags, p)
      BY ONLY <2>3, <2>4, <2>5, HeaderRead, Zenon
    <3> QED  BY ONLY <3>1, Zenon DEF Headed
  <2>7. rd_u64(b, 3) = flow
    BY ONLY <2>1, <2>6, FlowRead, Zenon DEF EightBytes
  <2>8. rd_u16(b, 1) = 11
    BY ONLY <1>1, <2>6, LengthField, Zenon DEF rd_u16
  <2>9. EnvOK(b)
    BY ONLY <2>6, <2>8, flags \in Flags, Zenon DEF EnvOK, EnvHdr
  <2>10. tm_env_decode(b) = [flow |-> flow, flags |-> flags, payload |-> p]
    BY ONLY <2>6, <2>7, Zenon DEF tm_env_decode, EnvHdr
  <2>11. tm_env_encode(flow, flags, p) = b
    BY ONLY <2>2, <2>5, Zenon DEF tm_env_encode
  <2> QED  BY ONLY <2>9, <2>10, <2>11, Zenon
<1>3. ASSUME NEW b \in Seq(Byte), EnvOK(b)
      PROVE  LET e == tm_env_decode(b) IN
             e.flags \in Flags /\ tm_env_encode(e.flow, e.flags, e.payload) = b
  <2>1. Len(b) \in Nat /\ Len(b) >= 11 /\ rd_u16(b, 1) = 11 /\ b[11] \in Flags
    BY <1>3, LenProperties, Zenon DEF EnvOK, EnvHdr
  <2>2. /\ b[1] \in Byte /\ b[2] \in Byte /\ b[3] \in Byte /\ b[4] \in Byte /\ b[5] \in Byte
        /\ b[6] \in Byte /\ b[7] \in Byte /\ b[8] \in Byte /\ b[9] \in Byte /\ b[10] \in Byte
    BY ONLY <2>1, b \in Seq(Byte), SMT
  <2>3. PICK c1, c2, c3, c4, c5, c6, c7, c8 \in Byte :
          /\ c1 = b[3] /\ c2 = b[4] /\ c3 = b[5] /\ c4 = b[6]
          /\ c5 = b[7] /\ c6 = b[8] /\ c7 = b[9] /\ c8 = b[10]
    BY ONLY <2>2, Zenon
  <2>4. b[1] = 0 /\ b[2] = 11
    BY ONLY <1>1, <2>1, <2>2, LengthField, ZenonT(60) DEF rd_u16
  <2>5. PICK flow, flags, p : flow = rd_u64(b, 3) /\ flags = b[11] /\ p = SubSeq(b, 11 + 1, Len(b))
    BY Zenon
  <2>6. Written(flow, c1, c2, c3, c4, c5, c6, c7, c8)
    <3>1. EightBytes(c1, c2, c3, c4, c5, c6, c7, c8, flow)
      BY ONLY <2>3, <2>5, FlowRead, Zenon
    <3> QED  BY <3>1, BytesWritten, Zenon
  <2>7. flags \in Flags /\ flags \in Nat
    BY ONLY <1>0, <2>1, <2>5, Zenon
  <2>8. PICK h : h = (wr_u16(11) \o wr_u64(flow)) \o <<flags>>
    BY Zenon
  <2>9. IsHeader(h, c1, c2, c3, c4, c5, c6, c7, c8, flags)
    BY <2>6, <2>7, <2>8, HeaderWritten, Zenon
  <2>10. b \in Seq(Nat) /\ 11 \in 0 .. Len(b) /\ Len(b) \in 11 .. Len(b)
    <3>1. b \in Seq(Nat)
      BY ONLY <1>0, b \in Seq(Byte), Zenon
    <3>2. 11 \in 0 .. Len(b) /\ Len(b) \in 11 .. Len(b)
      BY ONLY <2>1, SMT
    <3> QED  BY ONLY <3>1, <3>2, Zenon
  <2>11. PICK g : g = SubSeq(b, 1, 11)
    BY Zenon
  <2>12. IsHeader(g, c1, c2, c3, c4, c5, c6, c7, c8, flags)
    <3>1. g \in Seq(Nat) /\ Len(g) = 11 /\ \A i \in 1 .. 11 : g[i] = b[i]
      <4>1. 0 \in 0 .. Len(b) /\ 11 \in 0 .. Len(b) /\ 0 + 1 = 1 /\ 11 - 0 = 11
        BY ONLY <2>1, SMT
      <4>2. /\ SubSeq(b, 0 + 1, 11) \in Seq(Nat) /\ Len(SubSeq(b, 0 + 1, 11)) = 11 - 0
            /\ \A i \in 1 .. 11 - 0 : SubSeq(b, 0 + 1, 11)[i] = b[0 + i]
        BY ONLY <2>10, <4>1, Split, Zenon
      <4> QED  BY ONLY <2>11, <4>1, <4>2, SMT
    <3> QED  BY ONLY <2>3, <2>4, <2>5, <3>1, SMTT(30) DEF IsHeader
  <2>13. h = g
    BY ONLY <2>9, <2>12, OneHeader, Zenon
  <2>14. g \o p = b
    <3>1. SubSeq(b, 1, 11) \o SubSeq(b, 11 + 1, Len(b)) = SubSeq(b, 1, Len(b))
      BY ONLY <2>10, Split, Zenon
    <3>2. SubSeq(b, 1, Len(b)) = b
      BY <2>10, SubSeqFull, Zenon
    <3> QED  BY ONLY <2>5, <2>11, <3>1, <3>2, Zenon
  <2>15. tm_env_encode(flow, flags, p) = b
    BY ONLY <2>8, <2>13, <2>14, Zenon DEF tm_env_encode
  <2>16. tm_env_decode(b) = [flow |-> flow, flags |-> flags, payload |-> p]
    BY ONLY <2>5, Zenon DEF tm_env_decode, EnvHdr
  <2>17. /\ tm_env_decode(b).flow = flow /\ tm_env_decode(b).flags = flags
         /\ tm_env_decode(b).payload = p
    BY ONLY <2>16, SMT
  <2> QED  BY ONLY <2>7, <2>15, <2>17, Zenon
<1> QED  BY ONLY <1>2, <1>3, Zenon DEF EnvelopeExact

-----------------------------------------------------------------------------
\* The cuts do not matter: the recursive reference of the frames, step by step.

\* A set of numbers that is not empty has a least element: of the intervals that
\* end in it, one is minimal among finite sets.
LEMMA Least ==
    ASSUME NEW T \in SUBSET Nat, T # {}
    PROVE  \E x \in T : \A y \in T : x <= y
<1> DEFINE U == {0 .. n : n \in T}
<1>1. U # {}
  BY Zenon
<1>2. U \subseteq FiniteSubsetsOf(Nat)
  <2>1. \A n \in T : 0 .. n \in SUBSET Nat /\ IsFiniteSet(0 .. n)
    BY FS_Interval
  <2> QED  BY <2>1 DEF FiniteSubsetsOf
<1>3. IsWellFoundedOn(StrictSubsetOrdering(Nat), FiniteSubsetsOf(Nat))
  BY FS_StrictSubsetOrderingWellFounded
<1>4. PICK m \in U : \A u \in U : ~(<<u, m>> \in StrictSubsetOrdering(Nat))
  <2> HIDE DEF U
  <2> QED  BY <1>1, <1>2, <1>3, WFMin
<1>5. PICK x \in T : m = 0 .. x
  OBVIOUS
<1>6. ASSUME NEW y \in T, y < x
      PROVE  FALSE
  <2>1. 0 .. y \subseteq 0 .. x /\ 0 .. y # 0 .. x /\ 0 .. y \in SUBSET Nat /\ 0 .. x \in SUBSET Nat
    BY <1>6
  <2>2. <<0 .. y, 0 .. x>> \in StrictSubsetOrdering(Nat)
    BY <2>1 DEF StrictSubsetOrdering
  <2>3. 0 .. y \in U
    BY <1>6
  <2> QED  BY <2>2, <2>3, <1>4, <1>5, Zenon
<1> QED  BY <1>6

\* f is defined on 0 .. n by recursion: head[i] and then f from next[i] on, or
\* base[i] where next[i] is beyond n.
Recursive(f, n, next, head, base) ==
    f = [i \in 0 .. n |-> IF next[i] <= n THEN head[i] \o f[next[i]] ELSE base[i]]

\* A function may be defined by recursion towards the end of an interval: there
\* is one on the last e numbers, for every e.
LEMMA Recursion ==
    ASSUME NEW n \in Nat, NEW next, NEW head, NEW base,
           \A i \in 0 .. n : next[i] \in Nat /\ next[i] > i
    PROVE  \E f : Recursive(f, n, next, head, base)
<1> DEFINE Sat(m, f) ==
             f = [i \in m .. n |-> IF next[i] <= n THEN head[i] \o f[next[i]] ELSE base[i]]
           Bads == {e \in Nat : e <= n /\ ~\E f : Sat(n - e, f)}
<1>1. Bads = {}
  <2> SUFFICES ASSUME Bads # {} PROVE FALSE
    BY Zenon
  <2>1. PICK e \in Bads : \A y \in Bads : e <= y
    BY Least, Zenon
  <2>2. e \in Nat /\ e <= n /\ ~\E f : Sat(n - e, f)
    BY Zenon
  <2>3. CASE e = 0
    <3>1. PICK f : f = [i \in n .. n |-> base[i]]
      BY Zenon
    <3>2. \A i \in n .. n : i = n /\ ~(next[i] <= n)
      OBVIOUS
    <3>3. Sat(n, f)
      BY <3>1, <3>2
    <3>4. n - e = n
      BY <2>3
    <3> QED  BY <3>3, <3>4, <2>2, Zenon
  <2>4. CASE e # 0
    <3> DEFINE m == n - e
    <3>1. m \in Nat /\ m < n /\ e - 1 \in Nat /\ e - 1 <= n /\ n - (e - 1) = m + 1
      BY <2>2, <2>4
    <3>2. e - 1 \notin Bads
      <4> HIDE DEF Bads
      <4> QED  BY <2>1, <2>2, <3>1
    <3>3. PICK g : Sat(m + 1, g)
      BY <3>1, <3>2, Zenon
    <3> HIDE DEF m
    <3>4. PICK h : h = [i \in m .. n |->
                          IF i = m THEN IF next[m] <= n THEN head[m] \o g[next[m]] ELSE base[m]
                          ELSE g[i]]
      BY Zenon
    <3>5. \A i \in m + 1 .. n : h[i] = g[i]
      BY <3>1, <3>4, SMTT(30)
    <3>6. \A i \in m .. n : next[i] <= n => h[next[i]] = g[next[i]]
      BY <3>1, <3>5, SMTT(30)
    <3>7. ASSUME NEW i \in m .. n
          PROVE  h[i] = IF next[i] <= n THEN head[i] \o h[next[i]] ELSE base[i]
      <4>1. CASE i = m
        BY <4>1, <3>4, <3>6, Zenon
      <4>2. CASE i # m
        <5>1. i \in m + 1 .. n
          BY <4>2, <3>1
        <5>2. g[i] = IF next[i] <= n THEN head[i] \o g[next[i]] ELSE base[i]
          BY <5>1, <3>3, Zenon
        <5> QED  BY <5>1, <5>2, <3>5, <3>6, SMTT(30)
      <4> QED  BY <4>1, <4>2
    <3>8. Sat(m, h)
      BY <3>4, <3>7, Zenon
    <3> QED  BY <3>8, <2>2, Zenon DEF m
  <2> QED  BY <2>3, <2>4
<1>2. n \in Nat /\ n <= n /\ n - n = 0
  OBVIOUS
<1>3. \E f : Sat(n - n, f)
  BY <1>1, <1>2, Zenon
<1> QED  BY <1>2, <1>3, SMTT(30) DEF Recursive

\* Where the frame at the head of b, from the i-th cell on, ends.
After(s, i) == i + Hdr + Behind(s, i)[3]

\* s has a good and whole frame behind the i-th cell.
Good(s, i) == ~Bad(Behind(s, i)) /\ Whole(Behind(s, i))

\* A frame ends behind the place it begins at, and within what was sent.
LEMMA AfterFacts ==
    ASSUME NEW s \in Seq(Nat), NEW i \in 0 .. Len(s), Good(s, i)
    PROVE  After(s, i) \in i + 1 .. Len(s)
<1>0. Len(s) \in Nat /\ i \in Nat /\ i <= Len(s)
  OBVIOUS
<1>1. PICK b : b = Behind(s, i)
  OBVIOUS
<1>2. b \in Seq(Nat) /\ Len(b) = Len(s) - i
  <2>1. Len(s) \in i .. Len(s)
    BY <1>0
  <2> QED  BY <1>1, <2>1, Split DEF Behind
<1>3. Len(b) >= 4 /\ Len(b) >= 4 + b[3]
  BY <1>1 DEF Good, Whole, Hdr
<1>4. b[3] \in Nat
  BY ONLY <1>2, <1>3, LengthCell
<1>5. After(s, i) = i + 4 + b[3]
  BY <1>1 DEF After, Hdr
<1>6. PICK l \in Nat : l = b[3] /\ Len(b) >= 4 + l /\ After(s, i) = i + 4 + l
  BY <1>3, <1>4, <1>5
<1>7. PICK m \in Nat : m = Len(s) /\ Len(b) = m - i /\ i <= m
  BY <1>0, <1>2
<1>8. i + 4 + l \in i + 1 .. m
  <2>1. m - i >= 4 + l
    BY <1>6, <1>7
  <2> QED  BY ONLY <2>1, i \in Nat, l \in Nat, m \in Nat
<1> QED  BY ONLY <1>6, <1>7, <1>8, Zenon

\* The frames of an agent's connection are what their equation says.
LEMMA AgentFramesFacts ==
    ASSUME NEW s \in Seq(Nat), NEW i \in 0 .. Len(s)
    PROVE  AgentFrames(s)[i] =
             IF Good(s, i) THEN <<First(Behind(s, i))>> \o AgentFrames(s)[After(s, i)] ELSE <<>>
<1> DEFINE n == Len(s)
           next == [k \in 0 .. n |-> IF Good(s, k) THEN After(s, k) ELSE n + 1]
           head == [k \in 0 .. n |-> <<First(Behind(s, k))>>]
           base == [k \in 0 .. n |-> <<>>]
<1>1. n \in Nat
  OBVIOUS
<1>2. \A k \in 0 .. n : Good(s, k) => After(s, k) \in k + 1 .. n
  BY AfterFacts
<1> HIDE DEF n
<1>3. \A k \in 0 .. n : next[k] \in Nat /\ next[k] > k
  BY <1>1, <1>2
<1>4. \A k \in 0 .. n : next[k] <= n <=> Good(s, k)
  BY <1>1, <1>2
<1>5. PICK f : Recursive(f, n, next, head, base)
  <2> HIDE DEF next, head, base
  <2> QED  BY ONLY <1>1, <1>3, Recursion, Zenon
<1> DEFINE A == [k \in 0 .. n |-> IF Good(s, k) THEN <<First(Behind(s, k))>> \o f[After(s, k)] ELSE <<>>]
<1>6. f = A
  <2>1. \A k \in 0 .. n : f[k] = A[k]
    <3> TAKE k \in 0 .. n
    <3>1. f[k] = IF next[k] <= n THEN head[k] \o f[next[k]] ELSE base[k]
      BY <1>5, Zenon DEF Recursive
    <3>2. CASE Good(s, k)
      <4>1. next[k] <= n /\ next[k] = After(s, k) /\ head[k] = <<First(Behind(s, k))>>
        BY <3>2, <1>4
      <4> QED  BY <3>1, <3>2, <4>1, SMTT(30)
    <3>3. CASE ~Good(s, k)
      <4>1. ~(next[k] <= n) /\ base[k] = <<>>
        BY <3>3, <1>4
      <4> QED  BY <3>1, <3>3, <4>1, SMTT(30)
    <3> QED  BY <3>2, <3>3
  <2>2. DOMAIN f = 0 .. n /\ f = [k \in 0 .. n |-> f[k]]
    BY <1>5 DEF Recursive
  <2> HIDE DEF next, head, base
  <2> QED  BY <2>1, <2>2, Zenon
<1> DEFINE G == CHOOSE g : g = [k \in 0 .. Len(s) |->
                   IF Bad(Behind(s, k)) \/ ~Whole(Behind(s, k)) THEN <<>>
                   ELSE <<First(Behind(s, k))>> \o g[k + Hdr + Behind(s, k)[3]]]
<1>7. f = [k \in 0 .. Len(s) |->
             IF Bad(Behind(s, k)) \/ ~Whole(Behind(s, k)) THEN <<>>
             ELSE <<First(Behind(s, k))>> \o f[k + Hdr + Behind(s, k)[3]]]
  BY <1>6, Zenon DEF n, Good, After
<1>8. G = [k \in 0 .. Len(s) |->
             IF Bad(Behind(s, k)) \/ ~Whole(Behind(s, k)) THEN <<>>
             ELSE <<First(Behind(s, k))>> \o G[k + Hdr + Behind(s, k)[3]]]
  BY <1>7, Zenon
<1>9. AgentFrames(s) = G
  BY DEF AgentFrames
<1> HIDE DEF G
<1> QED  BY <1>8, <1>9, Zenon DEF Good, After

\* The frames of a connection that is not an agent's are what their equation says.
LEMMA ConnFramesFacts ==
    ASSUME NEW s \in Seq(Nat), NEW i \in 0 .. Len(s)
    PROVE  LET x == First(Behind(s, i)) IN
           ConnFrames(s)[i] =
             IF ~Good(s, i) THEN <<>>
             ELSE IF x.type \in Binding \cup Ending THEN <<x>>
             ELSE IF x.type \in Promoting THEN <<x>> \o AgentFrames(s)[After(s, i)]
             ELSE <<x>> \o ConnFrames(s)[After(s, i)]
<1> DEFINE n == Len(s)
           x(k) == First(Behind(s, k))
           on(k) == Good(s, k) /\ x(k).type \notin Binding \cup Ending \cup Promoting
           next == [k \in 0 .. n |-> IF on(k) THEN After(s, k) ELSE n + 1]
           head == [k \in 0 .. n |-> <<x(k)>>]
           base == [k \in 0 .. n |->
                      IF ~Good(s, k) THEN <<>>
                      ELSE IF x(k).type \in Binding \cup Ending THEN <<x(k)>>
                      ELSE <<x(k)>> \o AgentFrames(s)[After(s, k)]]
<1>1. n \in Nat
  OBVIOUS
<1>2. \A k \in 0 .. n : Good(s, k) => After(s, k) \in k + 1 .. n
  BY AfterFacts
<1> HIDE DEF n, x
<1>3. \A k \in 0 .. n : next[k] \in Nat /\ next[k] > k
  BY <1>1, <1>2
<1>4. \A k \in 0 .. n : next[k] <= n <=> on(k)
  BY <1>1, <1>2, SMTT(30)
<1>5. PICK f : Recursive(f, n, next, head, base)
  <2> HIDE DEF next, head, base
  <2> QED  BY ONLY <1>1, <1>3, Recursion, Zenon
<1>6. \A k \in 0 .. n : f[k] =
        IF ~Good(s, k) THEN <<>>
        ELSE IF x(k).type \in Binding \cup Ending THEN <<x(k)>>
        ELSE IF x(k).type \in Promoting THEN <<x(k)>> \o AgentFrames(s)[After(s, k)]
        ELSE <<x(k)>> \o f[After(s, k)]
  <2> TAKE k \in 0 .. n
  <2>1. f[k] = IF next[k] <= n THEN head[k] \o f[next[k]] ELSE base[k]
    BY <1>5, Zenon DEF Recursive
  <2>2. CASE on(k)
    <3>1. next[k] <= n /\ next[k] = After(s, k) /\ head[k] = <<x(k)>>
      BY <2>2, <1>4, SMTT(30)
    <3> QED  BY <2>1, <2>2, <3>1, SMTT(30)
  <2>3. CASE ~on(k)
    <3>1. ~(next[k] <= n)
      BY <2>3, <1>4, SMTT(30)
    <3> QED  BY <2>1, <2>3, <3>1
  <2> QED  BY <2>2, <2>3, SMTT(30)
<1>7. f = [k \in 0 .. n |-> f[k]]
  BY <1>5 DEF Recursive
<1> DEFINE G == CHOOSE g : g = [k \in 0 .. Len(s) |->
                   IF Bad(Behind(s, k)) \/ ~Whole(Behind(s, k)) THEN <<>>
                   ELSE IF First(Behind(s, k)).type \in Binding \cup Ending THEN <<First(Behind(s, k))>>
                   ELSE IF First(Behind(s, k)).type \in Promoting
                        THEN <<First(Behind(s, k))>> \o AgentFrames(s)[k + Hdr + Behind(s, k)[3]]
                   ELSE <<First(Behind(s, k))>> \o g[k + Hdr + Behind(s, k)[3]]]
<1>8. f = [k \in 0 .. Len(s) |->
             IF Bad(Behind(s, k)) \/ ~Whole(Behind(s, k)) THEN <<>>
             ELSE IF First(Behind(s, k)).type \in Binding \cup Ending THEN <<First(Behind(s, k))>>
             ELSE IF First(Behind(s, k)).type \in Promoting
                  THEN <<First(Behind(s, k))>> \o AgentFrames(s)[k + Hdr + Behind(s, k)[3]]
             ELSE <<First(Behind(s, k))>> \o f[k + Hdr + Behind(s, k)[3]]]
  BY <1>6, <1>7, Zenon DEF n, x, Good, After
<1>9. G = [k \in 0 .. Len(s) |->
             IF Bad(Behind(s, k)) \/ ~Whole(Behind(s, k)) THEN <<>>
             ELSE IF First(Behind(s, k)).type \in Binding \cup Ending THEN <<First(Behind(s, k))>>
             ELSE IF First(Behind(s, k)).type \in Promoting
                  THEN <<First(Behind(s, k))>> \o AgentFrames(s)[k + Hdr + Behind(s, k)[3]]
             ELSE <<First(Behind(s, k))>> \o G[k + Hdr + Behind(s, k)[3]]]
  BY <1>8, Zenon
<1>10. ConnFrames(s) = G
  BY DEF ConnFrames
<1> HIDE DEF G
<1> QED  BY <1>9, <1>10, Zenon DEF Good, After

\* A function that goes on with one frame, or ends, gives frames.
LEMMA FramesTyped ==
    ASSUME NEW n \in Nat, NEW g, NEW next,
           \A i \in 0 .. n :
             \/ g[i] \in Seq(Frame)
             \/ next[i] \in i + 1 .. n /\ \E x \in Frame : g[i] = <<x>> \o g[next[i]]
    PROVE  \A i \in 0 .. n : g[i] \in Seq(Frame)
<1> DEFINE Bads == {e \in Nat : e <= n /\ g[n - e] \notin Seq(Frame)}
<1>1. Bads = {}
  <2> SUFFICES ASSUME Bads # {} PROVE FALSE
    OBVIOUS
  <2>1. PICK e \in Bads : \A y \in Bads : e <= y
    BY Least, Zenon
  <2>2. e \in Nat /\ e <= n /\ g[n - e] \notin Seq(Frame)
    OBVIOUS
  <2>3. n - e \in 0 .. n
    BY <2>2
  <2>4. PICK j : j = next[n - e]
    OBVIOUS
  <2>5. /\ j \in (n - e) + 1 .. n
        /\ \E x \in Frame : g[n - e] = <<x>> \o g[j]
    BY <2>2, <2>3, <2>4, Zenon
  <2>6. n - j \in Nat /\ n - j <= n /\ n - j < e /\ n - (n - j) = j
    BY <2>2, <2>5, SMTT(30)
  <2>7. n - j \notin Bads
    <3> HIDE DEF Bads
    <3> QED  BY <2>1, <2>2, <2>6
  <2>8. g[j] \in Seq(Frame)
    BY <2>6, <2>7
  <2>9. PICK x \in Frame : g[n - e] = <<x>> \o g[j]
    BY <2>5, Zenon
  <2>10. <<x>> \in Seq(Frame)
    OBVIOUS
  <2>11. <<x>> \o g[j] \in Seq(Frame)
    BY ONLY <2>8, <2>10, ConcatProperties
  <2> QED  BY ONLY <2>2, <2>9, <2>11, SMTT(30)
<1>2. ASSUME NEW i \in 0 .. n
      PROVE  g[i] \in Seq(Frame)
  <2>1. n - i \in Nat /\ n - i <= n /\ n - (n - i) = i
    OBVIOUS
  <2> QED  BY <1>1, <2>1, Zenon
<1> QED  BY <1>2

\* The head of a sequence is what tm_frame_reader_feed takes of it.
LEMMA FirstFacts ==
    ASSUME NEW s \in Seq(Nat), NEW i \in 0 .. Len(s), Good(s, i)
    PROVE  First(Behind(s, i)) \in Frame
<1>1. PICK b : b = Behind(s, i)
  OBVIOUS
<1>2. b \in Seq(Nat)
  <2>1. Len(s) \in i .. Len(s)
    OBVIOUS
  <2> QED  BY <1>1, <2>1, Split DEF Behind
<1>3. FrameOf(b).frame \in Frame
  BY <1>1, <1>2, FrameCut, Zenon DEF Good
<1>4. FrameOf(b).frame = First(b)
  BY DEF FrameOf, First
<1> QED  BY ONLY <1>1, <1>3, <1>4, Zenon

\* The reference gives sequences of frames.
LEMMA AgentFramesType ==
    ASSUME NEW s \in Seq(Nat)
    PROVE  \A i \in 0 .. Len(s) : AgentFrames(s)[i] \in Seq(Frame)
<1>1. PICK next : next = [k \in 0 .. Len(s) |-> After(s, k)]
  BY Zenon
<1>2. PICK g : g = AgentFrames(s)
  OBVIOUS
<1>3. ASSUME NEW i \in 0 .. Len(s)
      PROVE  \/ g[i] \in Seq(Frame)
             \/ next[i] \in i + 1 .. Len(s) /\ \E x \in Frame : g[i] = <<x>> \o g[next[i]]
  <2>1. g[i] = IF Good(s, i) THEN <<First(Behind(s, i))>> \o g[After(s, i)] ELSE <<>>
    BY <1>2, AgentFramesFacts, Zenon
  <2>2. CASE Good(s, i)
    <3>1. next[i] = After(s, i) /\ After(s, i) \in i + 1 .. Len(s)
      BY <1>1, <2>2, AfterFacts
    <3>2. First(Behind(s, i)) \in Frame
      BY <2>2, FirstFacts
    <3> QED  BY ONLY <2>1, <2>2, <3>1, <3>2, Zenon
  <2>3. CASE ~Good(s, i)
    <3>1. <<>> \in Seq(Frame)
      OBVIOUS
    <3> QED  BY ONLY <2>1, <2>3, <3>1, Zenon
  <2> QED  BY <2>2, <2>3, Zenon
<1>4. Len(s) \in Nat
  BY SMTT(30)
<1> QED  BY ONLY <1>2, <1>3, <1>4, FramesTyped, Zenon

\* ... also before a connection is an agent's.
LEMMA ConnFramesType ==
    ASSUME NEW s \in Seq(Nat)
    PROVE  \A i \in 0 .. Len(s) : ConnFrames(s)[i] \in Seq(Frame)
<1>1. PICK next : next = [k \in 0 .. Len(s) |-> After(s, k)]
  BY Zenon
<1>2. PICK g : g = ConnFrames(s)
  OBVIOUS
<1>3. ASSUME NEW i \in 0 .. Len(s)
      PROVE  \/ g[i] \in Seq(Frame)
             \/ next[i] \in i + 1 .. Len(s) /\ \E x \in Frame : g[i] = <<x>> \o g[next[i]]
  <2>0. PICK x : x = First(Behind(s, i))
    OBVIOUS
  <2>1. g[i] = IF ~Good(s, i) THEN <<>>
               ELSE IF x.type \in Binding \cup Ending THEN <<x>>
               ELSE IF x.type \in Promoting THEN <<x>> \o AgentFrames(s)[After(s, i)]
               ELSE <<x>> \o g[After(s, i)]
    BY ONLY s \in Seq(Nat), i \in 0 .. Len(s), <2>0, <1>2, ConnFramesFacts, Zenon
  <2>2. CASE Good(s, i)
    <3>1. next[i] = After(s, i) /\ After(s, i) \in i + 1 .. Len(s)
      BY <1>1, <2>2, AfterFacts
    <3>2. x \in Frame
      BY <2>0, <2>2, FirstFacts
    <3>3. <<x>> \in Seq(Frame)
      BY <3>2
    <3>4. AgentFrames(s)[After(s, i)] \in Seq(Frame)
      <4>1. After(s, i) \in 0 .. Len(s)
        BY <3>1
      <4> QED  BY <4>1, AgentFramesType
    <3>5. <<x>> \o AgentFrames(s)[After(s, i)] \in Seq(Frame)
      BY ONLY <3>3, <3>4, ConcatProperties
    <3> QED  BY ONLY <2>1, <2>2, <3>1, <3>2, <3>3, <3>5, Zenon
  <2>3. CASE ~Good(s, i)
    <3>1. <<>> \in Seq(Frame)
      OBVIOUS
    <3> QED  BY ONLY <2>1, <2>3, <3>1, Zenon
  <2> QED  BY <2>2, <2>3, Zenon
<1>4. Len(s) \in Nat
  OBVIOUS
<1> QED  BY ONLY <1>2, <1>3, <1>4, FramesTyped, Zenon

\* The first k cells sent.
Sent(k) == SubSeq(sent, 1, k)

\* The k cells of t go on behind o with b, which ends at n.
Continued(t, o, b, n, k) ==
    /\ t \in Seq(Nat) /\ Len(t) = k /\ Len(o) \in 0 .. k
    /\ Behind(t, Len(o)) \in Seq(Nat)
    /\ Len(Behind(t, Len(o))) = k - Len(o) /\ Len(b) = n - Len(o)
    /\ \A j \in 1 .. Len(b) : Behind(t, Len(o))[j] = b[j]

\* What a sequence of cells has behind those that were taken begins with what
\* the reader holds.
LEMMA BehindTaken ==
    ASSUME NEW s \in Seq(Nat), NEW o \in Seq(Nat), NEW b \in Seq(Nat),
           NEW n \in 0 .. Len(s), NEW k \in n .. Len(s), Taken(o, b, s, n)
    PROVE  Continued(SubSeq(s, 1, k), o, b, n, k)
<1>0. /\ Len(s) \in Nat /\ Len(o) \in Nat /\ Len(b) \in Nat
      /\ n \in Nat /\ k \in Nat /\ n <= k /\ k <= Len(s)
  OBVIOUS
<1>1. PICK t : t = SubSeq(s, 1, k)
  BY Zenon
<1>2. t \in Seq(Nat) /\ Len(t) = k /\ \A j \in 1 .. k : t[j] = s[j]
  <2>1. 0 \in 0 .. Len(s) /\ k \in 0 .. Len(s)
    BY <1>0
  <2>2. /\ SubSeq(s, 0 + 1, k) \in Seq(Nat) /\ Len(SubSeq(s, 0 + 1, k)) = k - 0
        /\ \A j \in 1 .. k - 0 : SubSeq(s, 0 + 1, k)[j] = s[0 + j]
    BY ONLY s \in Seq(Nat), <2>1, Split, Zenon
  <2>3. 0 + 1 = 1 /\ k - 0 = k /\ \A j \in 1 .. k : 0 + j = j
    BY <1>0
  <2> QED  BY <1>1, <2>2, <2>3, SMTT(30)
<1>3. Len(o) + Len(b) = n
  <2>1. Len(o \o b) = Len(o) + Len(b)
    BY Joined
  <2>2. Len(SubSeq(s, 1, n)) = n
    BY <1>0
  <2> QED  BY <2>1, <2>2 DEF Taken
<1>4. \A j \in 1 .. Len(b) : b[j] = s[Len(o) + j]
  <2>1. \A j \in 1 .. Len(b) : (o \o b)[Len(o) + j] = b[j]
    BY Joined, Zenon
  <2>2. \A j \in 1 .. n : SubSeq(s, 1, n)[j] = s[j]
    BY <1>0
  <2>3. \A j \in 1 .. Len(b) : Len(o) + j \in 1 .. n
    <3>1. PICK lo \in Nat, lb \in Nat : lo = Len(o) /\ lb = Len(b)
      BY <1>0
    <3>2. lo + lb = n
      BY ONLY <1>3, <3>1
    <3>3. \A j \in 1 .. lb : lo + j \in 1 .. n
      BY ONLY <3>1, <3>2, SMTT(30)
    <3> QED  BY ONLY <3>1, <3>3
  <2> QED  BY <2>1, <2>2, <2>3, Zenon DEF Taken
<1>5. PICK m \in Nat : m = Len(o) /\ m <= n /\ m <= k
  BY <1>0, <1>3
<1>6. PICK c : c = SubSeq(t, m + 1, k)
  BY Zenon
<1>7. c \in Seq(Nat) /\ Len(c) = k - m /\ \A j \in 1 .. k - m : c[j] = t[m + j]
  <2>1. m \in 0 .. Len(t) /\ k \in m .. Len(t)
    BY ONLY <1>0, <1>2, <1>5
  <2> QED  BY ONLY <1>2, <1>6, <2>1, Split, Zenon
<1>8. \A j \in 1 .. Len(b) : j \in 1 .. k - m /\ m + j \in 1 .. k
  BY ONLY <1>0, <1>3, <1>5, SMTT(30)
<1>9. \A j \in 1 .. Len(b) : c[j] = b[j]
  BY ONLY <1>2, <1>4, <1>5, <1>7, <1>8, Zenon
<1>10. c = Behind(SubSeq(s, 1, k), Len(o))
  BY ONLY <1>1, <1>2, <1>5, <1>6, Zenon DEF Behind
<1>11. Len(b) = n - m /\ m \in 0 .. k
  BY ONLY <1>0, <1>3, <1>5
<1> QED  BY ONLY <1>1, <1>2, <1>5, <1>7, <1>9, <1>10, <1>11, Zenon DEF Continued

\* A frame the reader gives its caller is the one the reference gives there,
\* however much more was sent.
LEMMA SameFrame ==
    ASSUME NEW s \in Seq(Nat), NEW o \in Seq(Nat), NEW b \in Seq(Nat),
           NEW n \in 0 .. Len(s), NEW k \in n .. Len(s), Taken(o, b, s, n),
           ~Bad(b), Whole(b)
    PROVE  /\ Good(SubSeq(s, 1, k), Len(o))
           /\ First(Behind(SubSeq(s, 1, k), Len(o))) = FrameOf(b).frame
           /\ After(SubSeq(s, 1, k), Len(o)) = Len(o \o tm_frame_encode(FrameOf(b).frame))
<1>1. PICK c : c = Behind(SubSeq(s, 1, k), Len(o))
  OBVIOUS
<1>2. /\ c \in Seq(Nat) /\ Len(c) = k - Len(o) /\ Len(b) = n - Len(o)
      /\ \A j \in 1 .. Len(b) : c[j] = b[j]
  <2>1. /\ s \in Seq(Nat) /\ o \in Seq(Nat) /\ b \in Seq(Nat)
        /\ n \in 0 .. Len(s) /\ k \in n .. Len(s) /\ Taken(o, b, s, n)
    OBVIOUS
  <2>2. Continued(SubSeq(s, 1, k), o, b, n, k)
    BY ONLY <2>1, BehindTaken, Zenon
  <2> QED  BY ONLY <1>1, <2>2, Zenon DEF Continued
<1>3. Len(o) \in Nat /\ Len(b) \in Nat /\ n \in Nat /\ k \in Nat /\ n <= k /\ Len(c) \in Nat
  BY <1>2
<1>4. Len(b) <= Len(c)
  BY ONLY <1>2, <1>3
<1>5. PICK l : l = b[3]
  OBVIOUS
<1>6. Len(b) >= 4 /\ Len(b) >= 4 + l /\ b[1] = 1 /\ ~(l > MaxPayload)
  BY <1>5, SMTT(30) DEF Bad, Whole, Hdr, Version
<1>7. l \in Nat
  BY ONLY b \in Seq(Nat), <1>5, <1>6, LengthCell
<1>8. 1 \in 1 .. Len(b) /\ 2 \in 1 .. Len(b) /\ 3 \in 1 .. Len(b) /\ 4 \in 1 .. Len(b)
  BY ONLY <1>3, <1>6
<1>9. c[1] = b[1] /\ c[2] = b[2] /\ c[3] = l /\ c[4] = b[4]
  BY ONLY <1>2, <1>5, <1>8, Zenon
<1>10. Len(c) >= 4 /\ Len(c) >= 4 + l
  BY ONLY <1>3, <1>4, <1>6, <1>7, SMTT(30)
<1>11. ~Bad(c) /\ Whole(c)
  BY ONLY <1>6, <1>9, <1>10 DEF Bad, Whole, Hdr, Version
<1>12. SubSeq(c, 4 + 1, 4 + l) = SubSeq(b, 4 + 1, 4 + l)
  <2>1. 4 \in 0 .. Len(c) /\ 4 + l \in 4 .. Len(c) /\ 4 \in 0 .. Len(b) /\ 4 + l \in 4 .. Len(b)
    BY ONLY <1>3, <1>6, <1>7, <1>10
  <2>2. PICK p : p = SubSeq(c, 4 + 1, 4 + l)
    BY Zenon
  <2>3. PICK r : r = SubSeq(b, 4 + 1, 4 + l)
    BY Zenon
  <2>4. p \in Seq(Nat) /\ Len(p) = (4 + l) - 4 /\ \A j \in 1 .. (4 + l) - 4 : p[j] = c[4 + j]
    BY ONLY <1>2, <2>1, <2>2, Split, Zenon
  <2>5. r \in Seq(Nat) /\ Len(r) = (4 + l) - 4 /\ \A j \in 1 .. (4 + l) - 4 : r[j] = b[4 + j]
    BY ONLY b \in Seq(Nat), <2>1, <2>3, Split, Zenon
  <2>6. \A j \in 1 .. (4 + l) - 4 : 4 + j \in 1 .. Len(b)
    BY ONLY <1>3, <1>6, <1>7
  <2>7. \A j \in 1 .. Len(p) : p[j] = r[j]
    BY ONLY <1>2, <2>4, <2>5, <2>6, Zenon
  <2>8. p = r
    BY ONLY <2>4, <2>5, <2>7, SeqEqual, Zenon
  <2> QED  BY ONLY <2>2, <2>3, <2>8, Zenon
<1>13. First(c) = FrameOf(b).frame
  <2>1. First(c) = tm_frame_make(c[2], c[4], SubSeq(c, 4 + 1, 4 + c[3]))
    BY DEF First, Hdr
  <2>2. FrameOf(b).frame = tm_frame_make(b[2], b[4], SubSeq(b, 4 + 1, 4 + b[3]))
    BY DEF FrameOf, Hdr
  <2> QED  BY ONLY <1>5, <1>9, <1>12, <2>1, <2>2, ZenonT(60)
<1>14. Len(o \o tm_frame_encode(FrameOf(b).frame)) = Len(o) + Hdr + l
  <2>1. PICK e : e = tm_frame_encode(FrameOf(b).frame)
    OBVIOUS
  <2>2. PICK r : r = FrameOf(b).rest
    OBVIOUS
  <2>3. e \in Seq(Nat) /\ r \in Seq(Nat) /\ e \o r = b /\ Len(r) = Len(b) - (Hdr + l)
    BY ONLY b \in Seq(Nat), ~Bad(b), Whole(b), <1>5, <2>1, <2>2, FrameCut, Zenon
  <2>4. Len(b) = Len(e) + Len(r) /\ Len(e) \in Nat /\ Len(r) \in Nat
    BY ONLY <2>3, Joined
  <2>5. Len(e) = 4 + l
    BY ONLY <1>3, <1>7, <2>3, <2>4, SMTT(30) DEF Hdr
  <2>6. Len(o \o e) = Len(o) + Len(e)
    BY <2>3, Joined
  <2> QED  BY ONLY <1>3, <1>7, <2>1, <2>5, <2>6, SMTT(30) DEF Hdr
<1>15. After(SubSeq(s, 1, k), Len(o)) = Len(o) + Hdr + l
  BY ONLY <1>1, <1>9, Zenon DEF After
<1> QED  BY ONLY <1>1, <1>11, <1>13, <1>14, <1>15, Zenon DEF Good

\* The frames the reference finds in the first k cells behind those taken.
Remaining(k) == IF prom = "no" THEN ConnFrames(Sent(k))[Len(out)] ELSE AgentFrames(Sent(k))[Len(out)]

\* The frames handed out are the first the reference finds, whatever else is
\* read later; once frames are over they are all of them.
CutsInv == \A k \in pos .. Len(sent) :
    /\ ph = "frames" => Frames(Sent(k)) = frames \o Remaining(k)
    /\ ph \in {"bound", "ended"} => Frames(Sent(k)) = frames

\* A frame added at the end or in front of the rest is the same.
LEMMA OneMore ==
    ASSUME NEW a \in Seq(Frame), NEW x \in Frame, NEW r \in Seq(Frame)
    PROVE  a \o (<<x>> \o r) = Append(a, x) \o r /\ a \o <<x>> = Append(a, x)
<1>1. <<x>> \in Seq(Frame)
  OBVIOUS
<1>2. a \o <<x>> = Append(a, x)
  OBVIOUS
<1>3. PICK y : y = <<x>>
  BY Zenon
<1>4. PICK S : S = Frame
  OBVIOUS
<1>5. a \in Seq(S) /\ y \in Seq(S) /\ r \in Seq(S)
  BY ONLY <1>1, <1>3, <1>4, a \in Seq(Frame), r \in Seq(Frame), SMTT(30)
<1>6. (a \o y) \o r = a \o (y \o r)
  BY ONLY <1>5, ConcatAssociative, SMTT(60), ZenonT(60)
<1> QED  BY ONLY <1>2, <1>3, <1>6, Zenon

\* The callers' loop hands out the frames of the reference.
LEMMA FedCuts ==
    ASSUME TypeOK, CutsInv, ph = "frames",
           NEW b \in Seq(Nat), NEW n \in pos .. Len(sent),
           sent' = sent, pos' = n, Taken(out, b, sent, n), Fed(b)
    PROVE  CutsInv'
<1>0. /\ sent \in Seq(Nat) /\ out \in Seq(Nat) /\ frames \in Seq(Frame) /\ prom \in {"no", "now", "yes"}
      /\ pos \in 0 .. Len(sent) /\ Len(sent) \in Nat /\ n \in 0 .. Len(sent)
  BY DEF TypeOK, Frame
<1>1. \A k \in n .. Len(sent) : k \in pos .. Len(sent) /\ Frames(Sent(k)) = frames \o Remaining(k)
  <2>1. \A k \in n .. Len(sent) : k \in pos .. Len(sent)
    BY ONLY <1>0, n \in pos .. Len(sent)
  <2> QED  BY ONLY <2>1, CutsInv, ph = "frames" DEF CutsInv
<1>2. \A k : Sent(k)' = Sent(k)
  BY DEF Sent
<1>3. ASSUME NEW k \in n .. Len(sent)
      PROVE  /\ ph' = "frames" => Frames(Sent(k)) = frames' \o Remaining(k)'
             /\ ph' \in {"bound", "ended"} => Frames(Sent(k)) = frames'
  <2>1. CASE Bad(b) /\ Rejected
    BY <2>1 DEF Rejected
  <2>2. CASE Incomplete(b)
    <3>1. frames' = frames /\ out' = out /\ ph' = "frames" /\ prom' = Aged
      BY <2>2 DEF Incomplete
    <3>2. prom' = "no" <=> prom = "no"
      BY <3>1 DEF Aged
    <3>3. Remaining(k)' = Remaining(k)
      BY ONLY <1>2, <3>1, <3>2, Zenon DEF Remaining
    <3> QED  BY ONLY <1>1, <3>1, <3>3
  <2>3. CASE ~Bad(b) /\ Whole(b) /\ Handle(FrameOf(b).frame, FrameOf(b).rest)
    <3>1. PICK f : f = FrameOf(b).frame
      OBVIOUS
    <3>2. PICK t : t = Sent(k)
      OBVIOUS
    <3>3. PICK i : i = Len(out)
      BY Zenon
    <3>4. PICK j : j = Len(out \o tm_frame_encode(f))
      OBVIOUS
    <3>5. Good(t, i) /\ First(Behind(t, i)) = f /\ After(t, i) = j
      <4>1. /\ sent \in Seq(Nat) /\ out \in Seq(Nat) /\ b \in Seq(Nat) /\ n \in 0 .. Len(sent)
            /\ k \in n .. Len(sent) /\ Taken(out, b, sent, n) /\ ~Bad(b) /\ Whole(b)
        BY <1>0, <2>3
      <4>2. t = SubSeq(sent, 1, k)
        BY <3>2 DEF Sent
      <4> QED  BY ONLY <3>1, <3>3, <3>4, <4>1, <4>2, SameFrame, ZenonT(60)
    <3>6. t \in Seq(Nat) /\ i \in 0 .. Len(t)
      <4>1. /\ sent \in Seq(Nat) /\ out \in Seq(Nat) /\ b \in Seq(Nat) /\ n \in 0 .. Len(sent)
            /\ k \in n .. Len(sent) /\ Taken(out, b, sent, n)
        BY <1>0
      <4>2. Continued(SubSeq(sent, 1, k), out, b, n, k)
        BY ONLY <4>1, BehindTaken, Zenon
      <4> QED  BY ONLY <3>2, <3>3, <4>2, Zenon DEF Continued, Sent
    <3>7. f \in Frame
      BY ONLY <3>5, <3>6, FirstFacts, Zenon
    <3>8. j \in 0 .. Len(t)
      <4>1. After(t, i) \in i + 1 .. Len(t)
        BY ONLY <3>5, <3>6, AfterFacts, Zenon
      <4> QED  BY ONLY <3>5, <3>6, <4>1
    <3>9. AgentFrames(t)[i] = <<f>> \o AgentFrames(t)[j] /\ AgentFrames(t)[j] \in Seq(Frame)
      BY ONLY <3>5, <3>6, <3>8, AgentFramesFacts, AgentFramesType, Zenon
    <3>10. /\ ConnFrames(t)[i] = IF f.type \in Binding \cup Ending THEN <<f>>
                                 ELSE IF f.type \in Promoting THEN <<f>> \o AgentFrames(t)[j]
                                 ELSE <<f>> \o ConnFrames(t)[j]
           /\ ConnFrames(t)[j] \in Seq(Frame)
      BY ONLY <3>5, <3>6, <3>8, ConnFramesFacts, ConnFramesType, Zenon
    <3>11. frames' = Append(frames, f) /\ Len(out') = j
      BY <2>3, <3>1, <3>4 DEF Handle
    <3>12. Frames(t) = frames \o (IF prom = "no" THEN ConnFrames(t)[i] ELSE AgentFrames(t)[i])
      BY ONLY <1>1, k \in n .. Len(sent), <3>2, <3>3, Zenon DEF Remaining
    <3>13. Remaining(k)' = IF prom' = "no" THEN ConnFrames(t)[j] ELSE AgentFrames(t)[j]
      BY ONLY <1>2, <3>2, <3>11, Zenon DEF Remaining
    <3>14. /\ frames \o (<<f>> \o AgentFrames(t)[j]) = Append(frames, f) \o AgentFrames(t)[j]
           /\ frames \o (<<f>> \o ConnFrames(t)[j]) = Append(frames, f) \o ConnFrames(t)[j]
           /\ frames \o <<f>> = Append(frames, f)
      BY ONLY <1>0, <3>7, <3>9, <3>10, OneMore, Zenon
    <3>15. \/ prom # "no" /\ ph' = "frames" /\ prom' # "no"
           \/ prom = "no" /\ f.type \notin Binding \cup Ending \cup Promoting /\ ph' = "frames" /\ prom' = "no"
           \/ prom = "no" /\ f.type \in Binding \cup Ending /\ ph' \in {"bound", "ended"}
           \/ prom = "no" /\ f.type \in Promoting /\ ph' = "frames" /\ prom' = "now"
      BY <2>3, <3>1, Zenon DEF Handle, GoesOn, Binds, Ends, Promotes, Aged
    <3>16. f.type \in Promoting => f.type \notin Binding \cup Ending
      BY FrameAssumption
    <3>17. CASE prom # "no" /\ ph' = "frames" /\ prom' # "no"
      BY ONLY <3>2, <3>9, <3>11, <3>12, <3>13, <3>14, <3>17, ZenonT(60)
    <3>18. CASE prom = "no" /\ f.type \notin Binding \cup Ending \cup Promoting /\ ph' = "frames" /\ prom' = "no"
      <4>1. ConnFrames(t)[i] = <<f>> \o ConnFrames(t)[j]
        BY ONLY <3>10, <3>18
      <4> QED  BY ONLY <3>2, <3>11, <3>12, <3>13, <3>14, <3>18, <4>1, ZenonT(60)
    <3>19. CASE prom = "no" /\ f.type \in Binding \cup Ending /\ ph' \in {"bound", "ended"}
      <4>1. ConnFrames(t)[i] = <<f>>
        BY ONLY <3>10, <3>19
      <4> QED  BY ONLY <3>2, <3>11, <3>12, <3>14, <3>19, <4>1, Zenon
    <3>20. CASE prom = "no" /\ f.type \in Promoting /\ ph' = "frames" /\ prom' = "now"
      <4>1. ConnFrames(t)[i] = <<f>> \o AgentFrames(t)[j]
        BY ONLY <3>10, <3>16, <3>20
      <4> QED  BY ONLY <3>2, <3>11, <3>12, <3>13, <3>14, <3>20, <4>1, ZenonT(60)
    <3> QED  BY ONLY <3>15, <3>17, <3>18, <3>19, <3>20, SMTT(30)
  <2> QED  BY <2>1, <2>2, <2>3, SMTT(30) DEF Fed
<1>4. pos' .. Len(sent') = n .. Len(sent)
  OBVIOUS
<1> QED  BY ONLY <1>2, <1>3, <1>4, Zenon DEF CutsInv

\* No read changes what the frames are.
LEMMA CutsStep == IInv /\ CutsInv /\ [Next]_vars => CutsInv'
<1> SUFFICES ASSUME IInv, CutsInv, [Next]_vars PROVE CutsInv'
  OBVIOUS
<1>0. /\ TypeOK /\ Holds /\ sent \in Seq(Nat) /\ out \in Seq(Nat) /\ buf \in Seq(Nat)
      /\ pos \in 0 .. Len(sent) /\ Len(sent) \in Nat
  BY DEF IInv, TypeOK
<1>1. ph = "frames" => out \o buf = SubSeq(sent, 1, pos)
  <2>1. ph = "frames" => raw = <<>> /\ (out \o buf) \o raw = SubSeq(sent, 1, pos)
    BY Zenon DEF IInv, Exact, Holds
  <2>2. (out \o buf) \o <<>> = out \o buf
    BY <1>0, Joined
  <2> QED  BY ONLY <2>1, <2>2, Zenon
<1>2. CASE read_cb
  <2>1. PICK k \in 1 .. MaxRead : /\ pos + k <= Len(sent) /\ pos' = pos + k
                                  /\ tm_frame_reader_feed(Arrived(k))
    BY <1>2 DEF read_cb
  <2>2. ph = "frames" /\ sent' = sent
    BY <1>2 DEF read_cb
  <2>3. k \in Nat
    BY FrameAssumption
  <2>4. CASE Rejected
    BY <2>4 DEF Rejected, CutsInv
  <2>5. CASE Fed(buf \o Arrived(k))
    <3>1. PICK b : b = buf \o Arrived(k)
      BY Zenon
    <3>2. /\ out \in Seq(Nat) /\ buf \in Seq(Nat) /\ sent \in Seq(Nat)
          /\ pos \in 0 .. Len(sent) /\ k \in Nat /\ pos + k <= Len(sent)
          /\ out \o buf = SubSeq(sent, 1, pos)
      BY <1>0, <1>1, <2>1, <2>2, <2>3
    <3>3. /\ SubSeq(sent, pos + 1, pos + k) \in Seq(Nat)
          /\ out \o (buf \o SubSeq(sent, pos + 1, pos + k)) = SubSeq(sent, 1, pos + k)
      BY ONLY <3>2, Continues, ZenonT(60), SMTT(60)
    <3>4. b \in Seq(Nat) /\ Taken(out, b, sent, pos + k)
      BY ONLY <3>1, <3>2, <3>3, Joined, Zenon DEF Arrived, Taken
    <3>5. pos + k \in pos .. Len(sent)
      BY <3>2
    <3> QED  BY ONLY <1>0, CutsInv, <2>1, <2>2, <2>5, <3>1, <3>4, <3>5, FedCuts, Zenon
  <2> QED  BY <2>1, <2>4, <2>5 DEF tm_frame_reader_feed, Overflows
<1>3. CASE next_frame
  <2>1. ph = "frames" /\ sent' = sent /\ pos' = pos /\ Fed(buf)
    BY <1>3 DEF next_frame
  <2>2. Taken(out, buf, sent, pos) /\ pos \in pos .. Len(sent)
    BY <1>0, <1>1, <2>1 DEF Taken
  <2> QED  BY ONLY <1>0, CutsInv, <2>1, <2>2, FedCuts, Zenon
<1>4. CASE relay_read
  <2>1. PICK k \in 1 .. MaxRead : pos + k <= Len(sent) /\ pos' = pos + k
    BY <1>4 DEF relay_read
  <2>2. ph = "bound" /\ ph' = "bound" /\ sent' = sent /\ frames' = frames
    BY <1>4 DEF relay_read
  <2>3. \A m \in pos' .. Len(sent) : m \in pos .. Len(sent)
    BY <1>0, <2>1, FrameAssumption
  <2> QED  BY ONLY CutsInv, <2>2, <2>3 DEF CutsInv, Sent
<1>5. CASE UNCHANGED vars
  BY <1>5 DEF vars, CutsInv, Sent, Remaining
<1> QED  BY <1>2, <1>3, <1>4, <1>5, SMTT(30) DEF Next

\* Before the first read the reference has everything to find.
LEMMA CutsInit == Init => CutsInv
<1> SUFFICES ASSUME Init, NEW k \in pos .. Len(sent)
             PROVE  /\ ph = "frames" /\ Frames(Sent(k)) = frames \o Remaining(k)
  BY Zenon DEF CutsInv, Init
<1>1. /\ ph = "frames" /\ prom = "no" /\ frames = <<>> /\ Len(out) = 0 /\ sent \in Seq(Nat)
      /\ k \in 0 .. Len(sent)
  BY FrameAssumption DEF Init
<1>2. Sent(k) \in Seq(Nat)
  BY <1>1 DEF Sent
<1>3. 0 \in 0 .. Len(Sent(k))
  BY <1>2
<1>4. ConnFrames(Sent(k))[0] \in Seq(Frame)
  BY ONLY <1>2, <1>3, ConnFramesType, Zenon
<1>5. <<>> \o ConnFrames(Sent(k))[0] = ConnFrames(Sent(k))[0]
  BY <1>4
<1> QED  BY ONLY <1>1, <1>5 DEF Frames, Remaining

\* Between reads the frames handed out are all the reference finds.
LEMMA CutsEnough == IInv /\ CutsInv => CutsDontMatter
<1> SUFFICES ASSUME IInv, CutsInv, ~busy, prom # "now", ph # "rejected"
             PROVE  frames = Frames(Sent(pos))
  BY DEF CutsDontMatter, Sent
<1>0. /\ sent \in Seq(Nat) /\ out \in Seq(Nat) /\ buf \in Seq(Nat) /\ frames \in Seq(Frame)
      /\ pos \in 0 .. Len(sent) /\ pos \in pos .. Len(sent)
      /\ ph \in {"frames", "bound", "ended", "rejected"}
  BY DEF IInv, TypeOK, Frame
<1>1. CASE ph \in {"bound", "ended"}
  BY ONLY <1>0, <1>1, CutsInv DEF CutsInv
<1>2. CASE ph = "frames"
  <2>1. ~Whole(buf)
    BY <1>2 DEF IInv, Prompt
  <2>2. Taken(out, buf, sent, pos)
    <3>1. raw = <<>> /\ (out \o buf) \o raw = SubSeq(sent, 1, pos)
      BY <1>2, Zenon DEF IInv, Exact, Holds
    <3>2. (out \o buf) \o <<>> = out \o buf
      BY <1>0, Joined
    <3> QED  BY ONLY <3>1, <3>2, Zenon DEF Taken
  <2>3. Continued(Sent(pos), out, buf, pos, pos)
    BY ONLY <1>0, <2>2, BehindTaken, Zenon DEF Sent
  <2>4. PICK t : t = Sent(pos)
    OBVIOUS
  <2>5. PICK i : i = Len(out)
    BY Zenon
  <2>6. Behind(t, i) = buf
    <3>1. /\ Behind(t, i) \in Seq(Nat) /\ Len(Behind(t, i)) = Len(buf)
          /\ \A j \in 1 .. Len(buf) : Behind(t, i)[j] = buf[j]
      BY ONLY <2>3, <2>4, <2>5, Zenon DEF Continued
    <3> QED  BY ONLY <1>0, <3>1, SeqEqual, Zenon
  <2>7. t \in Seq(Nat) /\ i \in 0 .. Len(t) /\ ~Good(t, i)
    BY ONLY <2>1, <2>3, <2>4, <2>5, <2>6, Zenon DEF Continued, Good
  <2>8. AgentFrames(t)[i] = <<>> /\ ConnFrames(t)[i] = <<>>
    BY ONLY <2>7, AgentFramesFacts, ConnFramesFacts, Zenon
  <2>9. Remaining(pos) = <<>>
    BY ONLY <2>4, <2>5, <2>8, Zenon DEF Remaining
  <2>10. Frames(Sent(pos)) = frames \o <<>>
    BY ONLY <1>0, <1>2, <2>9, CutsInv, Zenon DEF CutsInv
  <2>11. frames \o <<>> = frames
    BY <1>0
  <2> QED  BY ONLY <2>10, <2>11
<1> QED  BY <1>0, <1>1, <1>2

\* How the network and TLS cut what was sent never matters: between reads the
\* caller was handed exactly the frames found in what was read, taken as one
\* piece by the recursive reference.
THEOREM CutsNeverMatter == Spec => []CutsDontMatter
<1>1. Spec => []CutsInv
  BY Invariance, CutsInit, CutsStep, PTL DEF Spec
<1> QED  BY <1>1, Invariance, CutsEnough, PTL
=============================================================================
