------------------------- MODULE WireDecoderProofs -------------------------
(***************************************************************************)
(* Proofs about WireDecoder, for every size of the slop, of an int, of the *)
(* input and of its fields.                                                *)
(***************************************************************************)
EXTENDS WireDecoder, TLAPS

USE StreamAssumption

Stream == [size : Nat, patch : [0 .. 2 * Slop - 1 -> Int], input_delta : Int,
           end : Int, limit_ptr : Int, limit : Int, capture_start : Int]
Kinds == MessageKinds \cup {"packed", "skip", "item"}
Loop == [kind : Kinds, delta : Int, left : Int, stop : Int, from : Nat]
View == [at : Int, size : Int, from : Nat]

TypeOK ==
    /\ e \in Stream /\ ptr \in Int
    /\ frames \in Seq(Loop) /\ frames # <<>>
    /\ depth \in Int /\ end_group \in Int
    /\ status \in {"loop", "field", "ok", "error"}
    /\ pos \in Nat /\ overran \in BOOLEAN /\ view \in View

\* The stream reads from the input, or from the patch buffer with the end of
\* the input in it.
InBuffer(s) ==
    /\ s.size + Slop < Patch
    /\ \/ s.input_delta = 0 /\ s.size > Slop /\ s.end = s.size - Slop
       \/ /\ s.input_delta = s.size - s.end
          /\ s.input_delta + Patch >= 0
          /\ s.end \in Patch .. Patch + Slop
          /\ \A i \in 0 .. 2 * Slop - 1 :
                s.patch[i] = IF i + Patch < s.end THEN i + Patch + s.input_delta ELSE Zero

\* Where in the input the limit is.
Limit(s) == GetInputPtr(s, s.end) + s.limit

Clamp(n) == IF 0 <= n THEN 0 ELSE n

\* The pointer is in the buffer, or less than Slop bytes behind its end.
Placed(s, p) ==
    /\ InBuffer(s)
    /\ p - s.end <= Slop
    /\ p >= IF s.input_delta = 0 THEN 0 ELSE Patch
    /\ s.limit_ptr = s.end + Clamp(s.limit)
    /\ Limit(s) <= s.size

FramesOK ==
    /\ frames[1].kind = "top" /\ frames[1].stop = e.size
    /\ \A k \in 2 .. Len(frames) : frames[k].kind # "top"
    /\ \A k \in 1 .. Len(frames) : frames[k].stop <= e.size /\ frames[k].delta >= 0
    /\ \A k \in 1 .. Len(frames) : frames[k].kind \notin LimitKinds => frames[k].delta = 0
    /\ \A k \in 1 .. Len(frames) - 1 :
          frames[k].stop = frames[k + 1].stop + frames[k + 1].delta

\* Only skipped groups are inside a loop that is not that of a message, so one
\* group at most is captured.
CaptureOK ==
    /\ \A j, k \in 1 .. Len(frames) :
          j < k /\ frames[j].kind \notin MessageKinds => frames[k].kind = "skip"
    /\ \A k \in 2 .. Len(frames) :
          frames[k].kind = "skip" /\ frames[k - 1].kind \in MessageKinds =>
              e.capture_start = frames[k].from

PlaceOK ==
    /\ Placed(e, ptr)
    /\ GetInputPtr(e, ptr) = pos
    /\ Limit(e) = Top.stop

StatusOK ==
    /\ status = "loop" => (overran => pos > Top.stop)
    /\ status = "field" => ~overran /\ ptr < e.limit_ptr /\ view = NoView
    /\ status = "ok" => ~overran /\ pos = e.size /\ Len(frames) = 1

ViewOK ==
    /\ \A i \in 0 .. view.size - 1 :
          /\ Readable(e, view.at + i)
          /\ view.from + i < e.size => Byte(e, view.at + i) = view.from + i
    /\ view.at < Patch => view.at + view.size <= e.size

\* The inductive invariant.
DecoderInv ==
    TypeOK /\ FramesOK /\ CaptureOK /\ PlaceOK /\ StatusOK /\ ViewOK

----------------------------------------------------------------------------
(***************************************************************************)
(* Lemmas about the stream.                                                *)
(***************************************************************************)
\* What MIN(0, n) is, in PushLimit and PopLimit.
LEMMA MinZero == \A n \in Int : Min({0, n}) = Clamp(n)
BY DEF Min, Clamp

\* The conversion to int keeps what an int can hold, and never returns less
\* than the smallest int.
LEMMA ToIntSmall == \A n \in Int : n >= -IntHalf /\ n < IntHalf => ToInt(n) = n
BY DEF ToInt

LEMMA ToIntRange == \A n \in Int : ToInt(n) \in Int /\ ToInt(n) >= -IntHalf
<1>1. \A n \in Int : (n + IntHalf) % (2 * IntHalf) \in Int /\ (n + IntHalf) % (2 * IntHalf) >= 0
  OBVIOUS
<1> QED BY <1>1 DEF ToInt

\* The limit and the capture leave the rest of the stream alone.
LEMMA SetLimitStream ==
    ASSUME NEW s \in Stream, NEW n \in Int
    PROVE  /\ SetLimit(s, n) \in Stream
           /\ SetLimit(s, n).limit = n
           /\ SetLimit(s, n).limit_ptr = s.end + Clamp(n)
           /\ SetLimit(s, n).size = s.size /\ SetLimit(s, n).patch = s.patch
           /\ SetLimit(s, n).end = s.end /\ SetLimit(s, n).input_delta = s.input_delta
           /\ SetLimit(s, n).capture_start = s.capture_start
<1> DEFINE m == s.end + Clamp(n)
<1>1. Min({0, n}) = Clamp(n) /\ m \in Int
  BY MinZero DEF Clamp, Stream
<1>2. SetLimit(s, n) = [s EXCEPT !.limit = n, !.limit_ptr = m]
  BY <1>1 DEF SetLimit
<1>3. m = s.end + Clamp(n)
  OBVIOUS
<1> HIDE DEF m
<1> QED BY <1>1, <1>2, <1>3 DEF Stream

LEMMA CaptureStream ==
    ASSUME NEW s \in Stream, NEW n \in Int
    PROVE  LET t == [s EXCEPT !.capture_start = n]
           IN  /\ t \in Stream
               /\ t.limit = s.limit /\ t.limit_ptr = s.limit_ptr
               /\ t.size = s.size /\ t.patch = s.patch
               /\ t.end = s.end /\ t.input_delta = s.input_delta
               /\ t.capture_start = n
BY DEF Stream

\* Nothing but the limit and the capture changed: bytes are where they were.
SameBytes(s, t) ==
    /\ t.size = s.size /\ t.patch = s.patch
    /\ t.end = s.end /\ t.input_delta = s.input_delta

\* The first and the second answer of IsDone, and what the fallback needs.  A
\* limit that an int cannot hold is only ever taken for an error.
LEMMA IsDoneAnswers ==
    ASSUME NEW s \in Stream, NEW p \in Int, Placed(s, p)
    PROVE  LET d == IsDone(s, p)
           IN  \/ /\ d = [stream |-> s, ptr |-> p, res |-> "more"]
                  /\ p < s.limit_ptr
               \/ /\ d = Flip(s, p, p - s.end)
                  /\ s.input_delta = 0 /\ s.size > Slop /\ s.end = s.size - Slop
                  /\ p >= s.end /\ p - s.end < s.limit
               \/ /\ d = [stream |-> s, ptr |-> p, res |-> "done"]
                  /\ p - s.end = s.limit
               \/ /\ d = [stream |-> s, ptr |-> p, res |-> "error"]
                  /\ p - s.end = s.limit => s.limit < -IntHalf
<1> DEFINE n == p - s.end
           over == ToInt(n)
<1>0. /\ s.size \in Nat /\ s.end \in Int /\ s.limit \in Int /\ s.limit_ptr \in Int
      /\ s.input_delta \in Int /\ n \in Int
  BY DEF Stream
<1>1. n <= Slop /\ Slop < IntHalf
  BY <1>0 DEF Placed
<1>2. over \in Int /\ over >= -IntHalf
  BY <1>0, ToIntRange
<1>3. n >= -IntHalf => over = n
  BY <1>0, <1>1, ToIntSmall
<1>4. /\ s.limit_ptr = s.end + Clamp(s.limit)
      /\ Limit(s) <= s.size /\ InBuffer(s)
      /\ p >= IF s.input_delta = 0 THEN 0 ELSE Patch
  BY DEF Placed
<1>5. CASE p < s.limit_ptr
  BY <1>5 DEF IsDone, IsDoneStatus
<1>6. CASE ~(p < s.limit_ptr)
  <2>1. n >= Clamp(s.limit)
    BY <1>6, <1>4, <1>0 DEF Clamp
  <2>2. CASE over = s.limit
    <3>1. n = s.limit
      BY <2>1, <2>2, <1>0, <1>2, <1>3 DEF Clamp
    <3>2. IsDone(s, p) = [stream |-> s, ptr |-> p, res |-> "done"]
      BY <1>6, <2>2 DEF IsDone, IsDoneStatus
    <3> QED BY <3>1, <3>2
  <2>3. CASE over # s.limit /\ over < s.limit
    <3>1. s.limit > 0 /\ n >= 0 /\ over = n
      BY <2>1, <2>3, <1>0, <1>2, <1>3 DEF Clamp
    <3>2. IsDone(s, p) = Flip(s, p, n)
      BY <1>6, <2>3, <3>1 DEF IsDone, IsDoneStatus
    <3>3. s.input_delta = 0 /\ s.size > Slop /\ s.end = s.size - Slop
      BY <3>1, <1>0, <1>4 DEF InBuffer, Limit, GetInputPtr
    <3> QED BY <3>1, <3>2, <3>3, <2>3, <1>0
  <2>4. CASE over # s.limit /\ ~(over < s.limit)
    <3>1. IsDone(s, p) = [stream |-> s, ptr |-> p, res |-> "error"]
      BY <1>6, <2>4 DEF IsDone, IsDoneStatus
    <3>2. n = s.limit => s.limit < -IntHalf
      BY <2>4, <1>0, <1>3
    <3> QED BY <3>1, <3>2
  <2> QED BY <2>2, <2>3, <2>4
<1> QED BY <1>5, <1>6

\* The switch to the patch buffer: the pointer names the same byte as before,
\* the limit is the same place, and the next Slop bytes are in the buffer.
LEMMA FlipPlaced ==
    ASSUME NEW s \in Stream, NEW p \in Int, Placed(s, p),
           s.input_delta = 0, s.size > Slop, s.end = s.size - Slop,
           p >= s.end, p - s.end < s.limit
    PROVE  LET d == Flip(s, p, p - s.end)
           IN  /\ d.res = "more" /\ d.stream \in Stream /\ d.ptr \in Int
               /\ Placed(d.stream, d.ptr) /\ d.ptr < d.stream.limit_ptr
               /\ GetInputPtr(d.stream, d.ptr) = GetInputPtr(s, p)
               /\ Limit(d.stream) = Limit(s)
               /\ d.stream.size = s.size
               /\ d.stream.capture_start = s.capture_start
<1> DEFINE d == Flip(s, p, p - s.end)
           t == d.stream
           patch == [i \in 0 .. 2 * Slop - 1 |->
                        IF i < Slop THEN Byte(s, s.end + i) ELSE Zero]
<1>0. /\ s.size \in Nat /\ s.end \in Int /\ s.limit \in Int
      /\ s.limit <= Slop /\ s.size + Slop < Patch
  BY DEF Stream, Placed, InBuffer, Limit, GetInputPtr
<1>1. \A i \in 0 .. 2 * Slop - 1 :
         patch[i] = IF i < Slop THEN i + s.end ELSE Zero
  BY <1>0 DEF Byte, InInput
<1>2. patch \in [0 .. 2 * Slop - 1 -> Int]
  BY <1>0, <1>1 DEF Zero
<1> HIDE DEF patch
<1>3. /\ t \in Stream
      /\ t.size = s.size /\ t.capture_start = s.capture_start
      /\ t.patch = patch /\ t.end = Patch + Slop /\ t.limit = s.limit - Slop
      /\ t.limit_ptr = Patch + Slop + (s.limit - Slop)
      /\ t.input_delta = s.end - Patch
      /\ d.ptr = Patch + (p - s.end) /\ d.res = "more"
  <2> DEFINE end == Patch + Slop
             limit == s.limit - Slop
             limit_ptr == Patch + Slop + (s.limit - Slop)
             delta == p - (Patch + (p - s.end))
  <2>1. /\ t = [s EXCEPT !.patch = patch, !.end = end, !.limit = limit,
                         !.limit_ptr = limit_ptr, !.input_delta = delta]
        /\ d.ptr = Patch + (p - s.end) /\ d.res = "more"
    BY DEF Flip, patch
  <2>2. /\ end \in Int /\ limit \in Int /\ limit_ptr \in Int /\ delta \in Int
        /\ delta = s.end - Patch
    BY <1>0
  <2> HIDE DEF d, t, end, limit, limit_ptr, delta
  <2>3. /\ t \in Stream
        /\ t.size = s.size /\ t.capture_start = s.capture_start
        /\ t.patch = patch /\ t.end = end /\ t.limit = limit
        /\ t.limit_ptr = limit_ptr /\ t.input_delta = delta
    BY <1>2, <2>1, <2>2 DEF Stream
  <2> QED BY <2>1, <2>2, <2>3 DEF end, limit, limit_ptr
<1> HIDE DEF d
<1>4. InBuffer(t)
  <2>1. \A i \in 0 .. 2 * Slop - 1 :
           t.patch[i] = IF i + Patch < t.end THEN i + Patch + t.input_delta ELSE Zero
    BY <1>0, <1>1, <1>3
  <2> QED BY <1>0, <1>3, <2>1 DEF InBuffer
<1>5. Limit(t) = Limit(s) /\ GetInputPtr(t, d.ptr) = GetInputPtr(s, p)
  BY <1>0, <1>3 DEF Limit, GetInputPtr
<1>6. Placed(t, d.ptr) /\ d.ptr < t.limit_ptr /\ d.ptr \in Int
  BY <1>0, <1>3, <1>4, <1>5 DEF Placed, Clamp
<1> QED BY <1>3, <1>5, <1>6 DEF d

\* When IsDone returned false there is a byte before the limit, and the byte
\* and the limit are where they were.
LEMMA IsDoneMore ==
    ASSUME NEW s \in Stream, NEW p \in Int, Placed(s, p), IsDone(s, p).res = "more"
    PROVE  LET d == IsDone(s, p)
           IN  /\ d.stream \in Stream /\ d.ptr \in Int
               /\ Placed(d.stream, d.ptr) /\ d.ptr < d.stream.limit_ptr
               /\ GetInputPtr(d.stream, d.ptr) = GetInputPtr(s, p)
               /\ Limit(d.stream) = Limit(s)
               /\ d.stream.size = s.size
               /\ d.stream.capture_start = s.capture_start
<1> DEFINE d == IsDone(s, p)
<1>1. CASE d = [stream |-> s, ptr |-> p, res |-> "more"] /\ p < s.limit_ptr
  BY <1>1
<1>2. CASE /\ d = Flip(s, p, p - s.end)
           /\ s.input_delta = 0 /\ s.size > Slop /\ s.end = s.size - Slop
           /\ p >= s.end /\ p - s.end < s.limit
  BY <1>2, FlipPlaced
<1> QED BY <1>1, <1>2, IsDoneAnswers

\* IsDone says done only at the limit, and there always if an int can hold it.
\* Behind the limit it is an error.
LEMMA IsDoneLimit ==
    ASSUME NEW s \in Stream, NEW p \in Int, Placed(s, p)
    PROVE  /\ IsDone(s, p).res = "done" => GetInputPtr(s, p) = Limit(s)
           /\ GetInputPtr(s, p) > Limit(s) => IsDone(s, p).res = "error"
           /\ GetInputPtr(s, p) = Limit(s) /\ s.limit >= -IntHalf =>
                 IsDone(s, p).res = "done"
<1>0. /\ s.end \in Int /\ s.limit \in Int /\ s.limit_ptr \in Int /\ s.input_delta \in Int
      /\ s.limit_ptr = s.end + Clamp(s.limit)
  BY DEF Stream, Placed
<1>1. Flip(s, p, p - s.end).res = "more"
  BY DEF Flip
<1>2. GetInputPtr(s, p) - Limit(s) = (p - s.end) - s.limit
  BY <1>0 DEF Limit, GetInputPtr
<1>3. GetInputPtr(s, p) \in Int /\ Limit(s) \in Int
  BY <1>0 DEF Limit, GetInputPtr
<1>4. p < s.limit_ptr => p - s.end < s.limit
  BY <1>0 DEF Clamp
<1>5. CASE IsDone(s, p) = [stream |-> s, ptr |-> p, res |-> "more"] /\ p < s.limit_ptr
  BY <1>0, <1>2, <1>3, <1>4, <1>5
<1>6. CASE IsDone(s, p) = Flip(s, p, p - s.end) /\ p - s.end < s.limit
  BY <1>0, <1>1, <1>2, <1>3, <1>6
<1>7. CASE IsDone(s, p) = [stream |-> s, ptr |-> p, res |-> "done"] /\ p - s.end = s.limit
  <2>1. p - s.end \in Int /\ IsDone(s, p).res = "done"
    BY <1>0, <1>7
  <2>2. GetInputPtr(s, p) = Limit(s)
    BY <1>0, <1>7 DEF GetInputPtr, Limit
  <2> QED BY <1>3, <2>1, <2>2
<1>8. CASE /\ IsDone(s, p) = [stream |-> s, ptr |-> p, res |-> "error"]
           /\ p - s.end = s.limit => s.limit < -IntHalf
  <2>1. p - s.end \in Int /\ IsDone(s, p).res = "error"
    BY <1>0, <1>8
  <2> QED BY <1>0, <1>2, <1>3, <1>8, <2>1
<1> QED BY <1>5, <1>6, <1>7, <1>8, IsDoneAnswers

----------------------------------------------------------------------------
(***************************************************************************)
(* Lemmas about the parts of the invariant.                                *)
(***************************************************************************)
\* Sequences with an element more or less at the end.
LEMMA AppendFrame ==
    ASSUME NEW fs \in Seq(Loop), NEW f \in Loop
    PROVE  /\ Append(fs, f) \in Seq(Loop) /\ Append(fs, f) # <<>>
           /\ Len(Append(fs, f)) = Len(fs) + 1
           /\ Append(fs, f)[Len(fs) + 1] = f
           /\ \A k \in 1 .. Len(fs) : Append(fs, f)[k] = fs[k]
OBVIOUS

LEMMA FrontFrame ==
    ASSUME NEW fs \in Seq(Loop), Len(fs) > 1
    PROVE  /\ Front(fs) \in Seq(Loop) /\ Front(fs) # <<>>
           /\ Len(Front(fs)) = Len(fs) - 1
           /\ \A k \in 1 .. Len(fs) - 1 : Front(fs)[k] = fs[k]
<1>1. Len(fs) - 1 \in Nat /\ Len(fs) - 1 <= Len(fs)
  OBVIOUS
<1>2. Front(fs) = [k \in 1 .. Len(fs) - 1 |-> fs[k]]
  BY <1>1 DEF Front
<1>3. \A k \in 1 .. Len(fs) - 1 : fs[k] \in Loop
  BY <1>1
<1>4. Front(fs) \in Seq(Loop) /\ Len(Front(fs)) = Len(fs) - 1
  BY <1>1, <1>2, <1>3
<1>5. \A k \in 1 .. Len(fs) - 1 : Front(fs)[k] = fs[k]
  BY <1>2
<1>6. Front(fs) # <<>>
  BY <1>1, <1>4
<1> QED BY <1>4, <1>5, <1>6

LEMMA TopFacts ==
    ASSUME TypeOK
    PROVE  /\ Len(frames) \in Nat /\ Len(frames) >= 1
           /\ Top = frames[Len(frames)] /\ Top \in Loop
           /\ \A k \in 1 .. Len(frames) : frames[k] \in Loop
BY DEF TypeOK, Top, Last

\* A loop is entered: its field ends where the limit it pushed is, and a group
\* is captured only outside of one.
LEMMA PushFrame ==
    ASSUME TypeOK, FramesOK, CaptureOK, NEW f \in Loop,
           frames' = Append(frames, f), e'.size = e.size,
           f.kind # "top", f.stop <= e.size, f.delta >= 0,
           f.kind \notin LimitKinds => f.delta = 0,
           Top.stop = f.stop + f.delta,
           Top.kind \notin MessageKinds => f.kind = "skip",
           f.kind = "skip" /\ Top.kind \in MessageKinds => e'.capture_start = f.from,
           ~(f.kind = "skip" /\ Top.kind \in MessageKinds) =>
               e'.capture_start = e.capture_start
    PROVE  /\ FramesOK' /\ CaptureOK'
           /\ frames' \in Seq(Loop) /\ frames' # <<>> /\ Top' = f
<1> DEFINE n == Len(frames)
<1>1. /\ n \in Nat /\ n >= 1 /\ Top = frames[n]
      /\ \A k \in 1 .. n : frames[k] \in Loop
  BY TopFacts
<1>2. /\ frames' \in Seq(Loop) /\ frames' # <<>> /\ Len(frames') = n + 1
      /\ frames'[n + 1] = f
      /\ \A k \in 1 .. n : frames'[k] = frames[k]
  BY AppendFrame DEF TypeOK
<1>3. Top' = f
  BY <1>2 DEF Top, Last
<1> HIDE DEF n
<1>0. n \in Nat /\ n >= 1
  BY <1>1
<1>4. FramesOK'
  <2>1. frames'[1].kind = "top" /\ frames'[1].stop = e'.size
    BY <1>1, <1>2 DEF FramesOK
  <2>2. ASSUME NEW k \in 2 .. n + 1 PROVE frames'[k].kind # "top"
    BY <1>1, <1>2 DEF FramesOK, n
  <2>3. ASSUME NEW k \in 1 .. n + 1
        PROVE  /\ frames'[k].stop <= e'.size /\ frames'[k].delta >= 0
               /\ frames'[k].kind \notin LimitKinds => frames'[k].delta = 0
    <3>1. CASE k = n + 1
      BY <1>2, <3>1
    <3>2. CASE k <= n
      BY <1>0, <1>2, <3>2 DEF FramesOK, n
    <3>3. k = n + 1 \/ k <= n
      BY <1>0
    <3> QED BY <3>1, <3>2, <3>3
  <2>4. ASSUME NEW k \in 1 .. n
        PROVE  frames'[k].stop = frames'[k + 1].stop + frames'[k + 1].delta
    <3>1. CASE k = n
      BY <1>1, <1>2, <3>1
    <3>2. CASE k < n
      BY <1>1, <1>2, <3>2 DEF FramesOK, n
    <3>3. k = n \/ k < n
      BY <1>0
    <3> QED BY <3>1, <3>2, <3>3
  <2>5. Len(frames') - 1 = n
    BY <1>1, <1>2
  <2> QED BY <1>2, <2>1, <2>2, <2>3, <2>4, <2>5 DEF FramesOK
<1>5. CaptureOK'
  <2>1. ASSUME NEW j \in 1 .. n + 1, NEW k \in 1 .. n + 1, j < k,
               frames'[j].kind \notin MessageKinds
        PROVE  frames'[k].kind = "skip"
    <3>1. j \in 1 .. n /\ frames'[j] = frames[j]
      BY <1>1, <1>2, <2>1
    <3>2. CASE k <= n
      BY <1>0, <1>2, <2>1, <3>1, <3>2 DEF CaptureOK, n
    <3>3. CASE k = n + 1
      <4>1. Top.kind \notin MessageKinds
        <5>1. CASE j = n
          BY <1>1, <2>1, <3>1, <5>1
        <5>2. CASE j < n
          <6>1. frames[n].kind = "skip"
            BY <1>1, <2>1, <3>1, <5>2 DEF CaptureOK, n
          <6> QED BY <1>1, <6>1 DEF MessageKinds
        <5> QED BY <1>1, <3>1, <5>1, <5>2
      <4> QED BY <1>2, <3>3, <4>1
    <3>4. k = n + 1 \/ k <= n
      BY <1>0
    <3> QED BY <3>2, <3>3, <3>4
  <2>2. ASSUME NEW k \in 2 .. n + 1, frames'[k].kind = "skip",
               frames'[k - 1].kind \in MessageKinds
        PROVE  e'.capture_start = frames'[k].from
    <3>1. k - 1 \in 1 .. n /\ frames'[k - 1] = frames[k - 1]
      BY <1>1, <1>2
    <3>2. CASE k = n + 1
      <4>1. f.kind = "skip" /\ Top.kind \in MessageKinds
        BY <1>1, <1>2, <2>2, <3>1, <3>2
      <4> QED BY <1>2, <3>2, <4>1
    <3>3. CASE k <= n
      <4>1. frames[k].kind = "skip" /\ frames'[k] = frames[k]
        BY <1>1, <1>2, <2>2, <3>3
      <4>2. frames[n].kind = "skip"
        <5>1. CASE k = n
          BY <4>1, <5>1
        <5>2. CASE k < n
          BY <1>1, <3>3, <4>1, <5>2 DEF CaptureOK, MessageKinds, n
        <5> QED BY <1>1, <3>3, <5>1, <5>2
      <4>3. e'.capture_start = e.capture_start
        BY <1>1, <4>2 DEF MessageKinds
      <4>4. e.capture_start = frames[k].from
        BY <1>0, <2>2, <3>1, <3>3, <4>1 DEF CaptureOK, n
      <4> QED BY <4>1, <4>3, <4>4
    <3>4. k = n + 1 \/ k <= n
      BY <1>0
    <3> QED BY <3>2, <3>3, <3>4
  <2> QED BY <1>2, <2>1, <2>2 DEF CaptureOK
<1> QED BY <1>2, <1>3, <1>4, <1>5

\* A loop is left: the one around it ends where popping the delta says, and the
\* capture may end with the group that began it.
LEMMA PopFrame ==
    ASSUME TypeOK, FramesOK, CaptureOK, Top.kind # "top",
           frames' = Front(frames), e'.size = e.size,
           \/ e'.capture_start = e.capture_start
           \/ Top.kind = "skip" /\ frames[Len(frames) - 1].kind \in MessageKinds
    PROVE  /\ FramesOK' /\ CaptureOK'
           /\ frames' \in Seq(Loop) /\ frames' # <<>>
           /\ Top' \in Loop /\ Top'.stop = Top.stop + Top.delta
<1> DEFINE n == Len(frames)
<1>1. /\ n \in Nat /\ n >= 1 /\ Top = frames[n]
      /\ \A k \in 1 .. n : frames[k] \in Loop
  BY TopFacts
<1>2. n > 1
  BY <1>1 DEF FramesOK
<1>3. /\ frames' \in Seq(Loop) /\ frames' # <<>> /\ Len(frames') = n - 1
      /\ \A k \in 1 .. n - 1 : frames'[k] = frames[k]
  BY <1>2, FrontFrame DEF TypeOK
<1> HIDE DEF n
<1>4. Top' = frames[n - 1] /\ n - 1 \in 1 .. n
  BY <1>1, <1>2, <1>3 DEF Top, Last
<1>5. Top'.stop = Top.stop + Top.delta
  <2>1. frames[n - 1].stop = frames[(n - 1) + 1].stop + frames[(n - 1) + 1].delta
    BY <1>1, <1>2 DEF FramesOK, n
  <2> QED BY <1>1, <1>4, <2>1
<1>6. FramesOK'
  <2>1. frames'[1].kind = "top" /\ frames'[1].stop = e'.size
    BY <1>1, <1>2, <1>3 DEF FramesOK
  <2>2. ASSUME NEW k \in 2 .. n - 1 PROVE frames'[k].kind # "top"
    BY <1>1, <1>3 DEF FramesOK, n
  <2>3. ASSUME NEW k \in 1 .. n - 1
        PROVE  /\ frames'[k].stop <= e'.size /\ frames'[k].delta >= 0
               /\ frames'[k].kind \notin LimitKinds => frames'[k].delta = 0
    BY <1>1, <1>3 DEF FramesOK, n
  <2>4. ASSUME NEW k \in 1 .. (n - 1) - 1
        PROVE  frames'[k].stop = frames'[k + 1].stop + frames'[k + 1].delta
    BY <1>1, <1>3 DEF FramesOK, n
  <2> QED BY <1>3, <2>1, <2>2, <2>3, <2>4 DEF FramesOK
<1>7. CaptureOK'
  <2>1. ASSUME NEW j \in 1 .. n - 1, NEW k \in 1 .. n - 1, j < k,
               frames'[j].kind \notin MessageKinds
        PROVE  frames'[k].kind = "skip"
    BY <1>1, <1>3, <2>1 DEF CaptureOK, n
  <2>2. ASSUME NEW k \in 2 .. n - 1, frames'[k].kind = "skip",
               frames'[k - 1].kind \in MessageKinds
        PROVE  e'.capture_start = frames'[k].from
    <3>1. /\ k \in 2 .. n /\ k - 1 \in 1 .. n - 1 /\ k \in 1 .. n - 1
          /\ frames'[k] = frames[k] /\ frames'[k - 1] = frames[k - 1]
      BY <1>1, <1>3
    <3>2. e.capture_start = frames[k].from
      BY <2>2, <3>1 DEF CaptureOK, n
    <3>3. frames[n - 1].kind = "skip"
      <4>1. CASE k = n - 1
        BY <2>2, <3>1, <4>1
      <4>2. CASE k < n - 1
        BY <1>1, <1>4, <2>2, <3>1, <4>2 DEF CaptureOK, MessageKinds, n
      <4> QED BY <1>1, <3>1, <4>1, <4>2
    <3>4. e'.capture_start = e.capture_start
      BY <3>3 DEF MessageKinds, n
    <3> QED BY <3>1, <3>2, <3>4
  <2> QED BY <1>3, <2>1, <2>2 DEF CaptureOK
<1> QED BY <1>1, <1>3, <1>4, <1>5, <1>6, <1>7

\* No loop is entered or left.
LEMMA SameFrames ==
    ASSUME TypeOK, FramesOK, CaptureOK, frames' = frames, e'.size = e.size,
           e'.capture_start = e.capture_start
    PROVE  /\ FramesOK' /\ CaptureOK'
           /\ frames' \in Seq(Loop) /\ frames' # <<>> /\ Top' = Top
BY DEF TypeOK, FramesOK, CaptureOK, Top

\* The pointer moves in its buffer, and the limit may change.
LEMMA Moved ==
    ASSUME TypeOK, PlaceOK, e' \in Stream, SameBytes(e, e'),
           e'.limit_ptr = e.end + Clamp(e'.limit),
           GetInputPtr(e, e.end) + e'.limit <= e.size,
           NEW n \in Nat, ptr' = ptr + n, pos' = pos + n, ptr + n <= e.end + Slop
    PROVE  /\ Placed(e', ptr') /\ GetInputPtr(e', ptr') = pos'
           /\ ptr' \in Int /\ pos' \in Nat
           /\ Limit(e') = GetInputPtr(e, e.end) + e'.limit
<1>1. InBuffer(e')
  BY DEF PlaceOK, Placed, InBuffer, SameBytes
<1>2. /\ e.end \in Int /\ e.input_delta \in Int /\ e.limit \in Int /\ e.size \in Nat
      /\ e'.limit \in Int /\ ptr \in Int /\ pos \in Nat
  BY DEF TypeOK, Stream
<1>3. Limit(e') = GetInputPtr(e, e.end) + e'.limit /\ GetInputPtr(e', ptr') = pos'
  BY <1>2 DEF Limit, GetInputPtr, SameBytes, PlaceOK
<1>4. Placed(e', ptr')
  BY <1>1, <1>2, <1>3 DEF Placed, PlaceOK, SameBytes
<1> QED BY <1>2, <1>3, <1>4

\* The same with the limit as it was.
LEMMA Advanced ==
    ASSUME TypeOK, PlaceOK, e' \in Stream, SameBytes(e, e'),
           e'.limit_ptr = e.limit_ptr, e'.limit = e.limit,
           NEW n \in Nat, ptr' = ptr + n, pos' = pos + n, ptr + n <= e.end + Slop
    PROVE  /\ Placed(e', ptr') /\ GetInputPtr(e', ptr') = pos'
           /\ ptr' \in Int /\ pos' \in Nat
           /\ Limit(e') = Limit(e)
<1>1. /\ e'.limit_ptr = e.end + Clamp(e'.limit)
      /\ GetInputPtr(e, e.end) + e'.limit <= e.size
  BY DEF PlaceOK, Placed, Limit
<1> QED BY <1>1, Moved DEF Limit

\* What there is to know before a field is read.
LEMMA FieldFacts ==
    ASSUME DecoderInv, status = "field"
    PROVE  /\ ~overran /\ view = NoView
           /\ ptr < e.end /\ pos < Top.stop /\ Top.stop <= e.size
           /\ e.end \in Int /\ e.size \in Nat /\ e.limit \in Int
           /\ e.input_delta \in Int /\ ptr \in Int /\ pos \in Nat
           /\ pos = ptr + e.input_delta /\ Top.stop = e.end + e.input_delta + e.limit
           /\ Top \in Loop /\ overran \in BOOLEAN
<1>1. /\ e.end \in Int /\ e.size \in Nat /\ e.limit \in Int
      /\ e.input_delta \in Int /\ ptr \in Int /\ pos \in Nat /\ overran \in BOOLEAN
  BY DEF DecoderInv, TypeOK, Stream
<1>2. Top \in Loop
  BY TopFacts DEF DecoderInv
<1>3. ~overran /\ view = NoView /\ ptr < e.limit_ptr
  BY DEF DecoderInv, StatusOK
<1>4. /\ e.limit_ptr = e.end + Clamp(e.limit) /\ Limit(e) <= e.size
      /\ GetInputPtr(e, ptr) = pos /\ Limit(e) = Top.stop
  BY DEF DecoderInv, PlaceOK, Placed
<1>5. pos = ptr + e.input_delta /\ Top.stop = e.end + e.input_delta + e.limit
  BY <1>4 DEF GetInputPtr, Limit
<1> QED BY <1>1, <1>2, <1>3, <1>4, <1>5 DEF Clamp

\* No view, the view there was, or one of the input: its bytes can be read.
LEMMA NoViewOK ==
    ASSUME e' \in Stream, view' = NoView
    PROVE  ViewOK' /\ view' \in View
BY DEF ViewOK, View, NoView, Stream

LEMMA SameView ==
    ASSUME TypeOK, ViewOK, SameBytes(e, e'), view' = view
    PROVE  ViewOK' /\ view' \in View
BY DEF TypeOK, ViewOK, SameBytes, Readable, Byte, InInput, InPatch

LEMMA InputView ==
    ASSUME e' \in Stream, NEW a \in Nat, NEW n \in Int, a + n <= e'.size,
           view' = [at |-> a, size |-> n, from |-> a]
    PROVE  ViewOK' /\ view' \in View
<1>1. e'.size \in Nat
  BY DEF Stream
<1>2. view' \in View /\ view'.at = a /\ view'.size = n /\ view'.from = a
  BY DEF View
<1>3. ASSUME NEW i \in 0 .. n - 1
      PROVE  InInput(e', a + i)
  BY <1>1 DEF InInput
<1> QED BY <1>1, <1>2, <1>3 DEF ViewOK, Readable, Byte

----------------------------------------------------------------------------
(***************************************************************************)
(* The invariant holds at first, and every step keeps it.                  *)
(***************************************************************************)
LEMMA InitInv == Init => DecoderInv
<1> SUFFICES ASSUME NEW size \in InputSizes,
                    e = StreamInit(size).stream, ptr = StreamInit(size).ptr,
                    pos = 0, frames = <<Frame("top", 0, 0, size)>>,
                    depth = MaxDepth, end_group = NoGroup, status = "loop",
                    overran = FALSE, view = NoView
             PROVE  DecoderInv
  BY DEF Init
<1>1. size \in Nat /\ size + Slop < Patch /\ MaxDepth \in Int
  BY DecoderAssumption
<1>2. Frame("top", 0, 0, size) \in Loop
  BY <1>1 DEF Frame, Loop, Kinds, MessageKinds
<1>3. /\ frames \in Seq(Loop) /\ frames # <<>> /\ Len(frames) = 1
      /\ frames[1] = Frame("top", 0, 0, size) /\ Top = frames[1]
  BY <1>2 DEF Top, Last
<1>4. Top.kind = "top" /\ Top.delta = 0 /\ Top.stop = size
  BY <1>3 DEF Frame
<1>5. ASSUME size <= Slop PROVE e \in Stream /\ ptr \in Int /\ e.size = size /\ PlaceOK
  <2>1. /\ e.size = size /\ e.input_delta = -Patch /\ e.end = Patch + size
        /\ e.limit_ptr = Patch + size /\ e.limit = 0 /\ e.capture_start = NULL
        /\ e.patch = [i \in 0 .. 2 * Slop - 1 |-> IF i < size THEN i ELSE Zero]
        /\ ptr = Patch
        /\ e = [size |-> e.size, patch |-> e.patch, input_delta |-> e.input_delta,
                end |-> e.end, limit_ptr |-> e.limit_ptr, limit |-> e.limit,
                capture_start |-> e.capture_start]
    BY <1>5 DEF StreamInit
  <2>2. \A i \in 0 .. 2 * Slop - 1 : e.patch[i] = IF i < size THEN i ELSE Zero
    BY <2>1
  <2>3. e.patch \in [0 .. 2 * Slop - 1 -> Int]
    BY <1>1, <2>1 DEF Zero
  <2>4. e \in Stream
    <3> HIDE DEF Zero
    <3>1. e.capture_start \in Int /\ e.input_delta \in Int /\ e.end \in Int
          /\ e.limit_ptr \in Int /\ e.limit \in Int /\ e.size \in Nat
      BY <1>1, <2>1 DEF NULL
    <3> QED BY <2>1, <2>3, <3>1 DEF Stream
  <2>5. InBuffer(e)
    <3>1. \A i \in 0 .. 2 * Slop - 1 :
             e.patch[i] = IF i + Patch < e.end THEN i + Patch + e.input_delta ELSE Zero
      BY <1>1, <2>1, <2>2
    <3> QED BY <1>1, <1>5, <2>1, <3>1 DEF InBuffer
  <2>6. PlaceOK
    BY <1>1, <1>4, <1>5, <2>1, <2>5 DEF PlaceOK, Placed, Limit, GetInputPtr, Clamp
  <2> QED BY <2>1, <2>4, <2>6
<1>6. ASSUME size > Slop PROVE e \in Stream /\ ptr \in Int /\ e.size = size /\ PlaceOK
  <2>1. /\ e.size = size /\ e.input_delta = 0 /\ e.end = size - Slop
        /\ e.limit_ptr = size - Slop /\ e.limit = Slop /\ e.capture_start = NULL
        /\ e.patch = [i \in 0 .. 2 * Slop - 1 |-> Zero]
        /\ ptr = 0
        /\ e = [size |-> e.size, patch |-> e.patch, input_delta |-> e.input_delta,
                end |-> e.end, limit_ptr |-> e.limit_ptr, limit |-> e.limit,
                capture_start |-> e.capture_start]
    BY <1>1, <1>6 DEF StreamInit
  <2>3. e.patch \in [0 .. 2 * Slop - 1 -> Int]
    BY <2>1 DEF Zero
  <2>4. e \in Stream
    <3>1. e.capture_start \in Int /\ e.input_delta \in Int /\ e.end \in Int
          /\ e.limit_ptr \in Int /\ e.limit \in Int /\ e.size \in Nat
      BY <1>1, <2>1 DEF NULL
    <3> QED BY <2>1, <2>3, <3>1 DEF Stream
  <2>6. PlaceOK
    BY <1>1, <1>4, <1>6, <2>1 DEF PlaceOK, Placed, InBuffer, Limit, GetInputPtr, Clamp
  <2> QED BY <2>1, <2>4, <2>6
<1>7. e \in Stream /\ ptr \in Int /\ e.size = size /\ PlaceOK
  BY <1>1, <1>5, <1>6
<1>8. TypeOK
  <2>1. NoView \in View /\ NoGroup \in Int
    BY DEF View, NoView, NoGroup
  <2> QED BY <1>1, <1>3, <1>7, <2>1 DEF TypeOK
<1>9. FramesOK /\ CaptureOK
  <2>1. \A k \in 1 .. Len(frames) : k = 1
    BY <1>3
  <2>2. 2 .. Len(frames) = {} /\ 1 .. Len(frames) - 1 = {}
    BY <1>3
  <2>3. FramesOK
    BY <1>1, <1>3, <1>4, <1>7, <2>1, <2>2 DEF FramesOK
  <2>4. CaptureOK
    BY <2>1, <2>2 DEF CaptureOK
  <2> QED BY <2>3, <2>4
<1>10. StatusOK /\ ViewOK
  BY <1>1, <1>7 DEF StatusOK, ViewOK, NoView
<1> QED BY <1>7, <1>8, <1>9, <1>10 DEF DecoderInv

LEMMA ThrowInv ==
    ASSUME DecoderInv, Throw
    PROVE  DecoderInv'
BY DEF DecoderInv, Throw, TypeOK, FramesOK, CaptureOK, PlaceOK, StatusOK, ViewOK, Top

\* A field of n bytes was read in a loop that goes on.
LEMMA FieldRead ==
    ASSUME DecoderInv, status = "field", NEW n \in Nat, Advance(n),
           UNCHANGED <<e, frames, depth, end_group>>,
           ptr + n <= e.end + Slop, ViewOK', view' \in View
    PROVE  DecoderInv'
<1>1. /\ FramesOK' /\ CaptureOK' /\ Top' = Top
      /\ frames' \in Seq(Loop) /\ frames' # <<>>
  BY SameFrames DEF DecoderInv
<1>2. /\ Placed(e', ptr') /\ GetInputPtr(e', ptr') = pos'
      /\ ptr' \in Int /\ pos' \in Nat /\ Limit(e') = Limit(e)
  BY Advanced DEF DecoderInv, Advance, SameBytes, TypeOK
<1>3. PlaceOK'
  BY <1>1, <1>2 DEF PlaceOK, DecoderInv
<1>4. StatusOK' /\ overran' \in BOOLEAN
  BY <1>1, FieldFacts DEF StatusOK, Advance
<1>5. TypeOK'
  BY <1>1, <1>2, <1>4 DEF TypeOK, DecoderInv, Advance
<1> QED BY <1>1, <1>3, <1>4, <1>5 DEF DecoderInv

LEMMA ScalarInv ==
    ASSUME DecoderInv, Scalar
    PROVE  DecoderInv'
<1>0. status = "field" /\ UNCHANGED <<e, frames, depth, end_group>>
  BY DEF Scalar
<1>1. /\ ptr < e.end /\ e.end \in Int /\ ptr \in Int /\ pos \in Nat /\ e \in Stream
      /\ pos = ptr + e.input_delta /\ e.input_delta \in Int /\ e.limit \in Int
      /\ Top.stop = e.end + e.input_delta + e.limit /\ Top.stop <= e.size /\ e.size \in Nat
  BY <1>0, FieldFacts DEF DecoderInv, TypeOK
<1>2. view' = view => ViewOK' /\ view' \in View
  BY <1>0, SameView DEF DecoderInv, SameBytes
<1>3. ASSUME NEW v \in VarintBytes, NEW t \in TagBytes
      PROVE  t + v \in Nat /\ t + v <= Slop /\ v \in Nat /\ v <= Slop
  BY DecoderAssumption
<1>4. ASSUME NEW v \in VarintBytes, Advance(v), view' = view
      PROVE  DecoderInv'
  <2>1. v \in Nat /\ v <= Slop
    BY DecoderAssumption
  <2> QED BY <1>0, <1>1, <1>2, <1>4, <2>1, FieldRead
<1>5. ASSUME NEW v \in VarintBytes, NEW t \in TagBytes, Advance(t + v), view' = view
      PROVE  DecoderInv'
  BY <1>0, <1>1, <1>2, <1>3, <1>5, FieldRead
<1>6. ASSUME NEW v \in VarintBytes, NEW t \in TagBytes, Advance(t + v),
             ~CaptureFails(StartCapture(e, ptr), At(t + v)),
             view' = String(Captured(StartCapture(e, ptr), At(t + v)), 0)
      PROVE  DecoderInv'
  <2> DEFINE c == StartCapture(e, ptr)
             n == t + v
  <2>1. c.capture_start = pos /\ c.end = e.end /\ c.limit = e.limit
        /\ c.input_delta = e.input_delta
    BY <1>1, CaptureStream DEF StartCapture, GetInputPtr
  <2>2. n \in Nat /\ n <= Slop
    BY <1>3
  <2> HIDE DEF n, c
  <2>3. view' = [at |-> pos, size |-> n, from |-> pos]
    <3>1. view' = String(Captured(c, At(n)), 0)
      BY <1>6 DEF n, c
    <3>2. (At(n) + e.input_delta) - pos = n /\ pos + 0 = pos
      BY <1>1, <2>2 DEF At
    <3> QED BY <2>1, <3>1, <3>2 DEF String, Captured, GetInputPtr
  <2>4. pos + n <= e.size
    <3>1. ~(At(n) - e.end > e.limit)
      BY <1>6, <2>1 DEF CaptureFails, n, c
    <3> QED BY <1>1, <2>2, <3>1 DEF At
  <2>5. ViewOK' /\ view' \in View
    BY <1>0, <1>1, <2>2, <2>3, <2>4, InputView
  <2>6. Advance(n)
    BY <1>6 DEF n
  <2> QED BY <1>0, <1>1, <2>2, <2>5, <2>6, FieldRead
<1> QED BY <1>4, <1>5, <1>6 DEF Scalar

LEMMA Sizes ==
    /\ \A h \in Header : h \in Nat /\ h <= Slop
    /\ \A t \in TagBytes : t \in Nat /\ t <= Slop
    /\ \A n \in FieldSizes : n \in Nat
BY DecoderAssumption DEF Header

\* The facts above with the types that the arithmetic of an action needs.
LEMMA FieldArith ==
    ASSUME DecoderInv, status = "field"
    PROVE  /\ ptr < e.end /\ e.end \in Int /\ ptr \in Int /\ pos \in Nat /\ e \in Stream
           /\ pos = ptr + e.input_delta /\ e.input_delta \in Int /\ e.limit \in Int
           /\ Top.stop = e.end + e.input_delta + e.limit
           /\ Top.stop <= e.size /\ e.size \in Nat
           /\ pos < Top.stop /\ Top.stop \in Int /\ e.size + Slop < Patch
           /\ e.limit_ptr = e.end + Clamp(e.limit) /\ e.limit_ptr \in Int
           /\ \/ /\ e.input_delta = 0 /\ e.end = e.size - Slop /\ ptr >= 0
              \/ /\ e.input_delta = e.size - e.end /\ ptr >= Patch /\ e.input_delta # 0
                 /\ e.end <= Patch + Slop
<1>1. /\ InBuffer(e) /\ e.limit_ptr = e.end + Clamp(e.limit)
      /\ ptr >= IF e.input_delta = 0 THEN 0 ELSE Patch
      /\ e \in Stream /\ e.limit_ptr \in Int
  BY DEF DecoderInv, TypeOK, PlaceOK, Placed, Stream
<1>2. /\ ptr < e.end /\ pos < Top.stop /\ Top.stop <= e.size
      /\ e.end \in Int /\ e.size \in Nat /\ e.limit \in Int
      /\ e.input_delta \in Int /\ ptr \in Int /\ pos \in Nat
      /\ pos = ptr + e.input_delta /\ Top.stop = e.end + e.input_delta + e.limit
  BY FieldFacts
<1>3. /\ e.size + Slop < Patch
      /\ \/ e.input_delta = 0 /\ e.end = e.size - Slop
         \/ /\ e.input_delta = e.size - e.end
            /\ e.end >= Patch /\ e.end <= Patch + Slop
  BY <1>1, <1>2 DEF InBuffer
<1> QED BY <1>1, <1>2, <1>3

\* A string is in the input, or in what is left of it in the patch buffer.
LEMMA StringFieldInv ==
    ASSUME DecoderInv, StringField
    PROVE  DecoderInv'
<1>0. status = "field" /\ UNCHANGED <<e, frames, depth, end_group>>
  BY DEF StringField, Reading
<1>1. PICK h \in Header, n \in FieldSizes :
         /\ n <= AliasEnd(e) - At(h)
         /\ Advance(h + n)
         /\ view' = String(AliasView(e, At(h), n), h)
  BY DEF StringField
<1>2. h \in Nat /\ h <= Slop /\ n \in Nat
  BY Sizes
<1>3. ptr + (h + n) <= e.end + Slop /\ pos + h + n <= e.size
  BY <1>0, <1>1, <1>2, FieldArith DEF AliasEnd, At
<1>4. view' = [at |-> pos + h, size |-> n, from |-> pos + h]
  <2>1. (ptr + h) + e.input_delta = pos + h
    BY <1>0, <1>2, FieldArith
  <2> QED BY <1>1, <2>1 DEF String, AliasView, At, GetInputPtr
<1>5. e' \in Stream /\ e'.size = e.size /\ pos + h \in Nat
  BY <1>0, <1>2, FieldArith
<1>6. ViewOK' /\ view' \in View
  BY <1>2, <1>3, <1>4, <1>5, InputView
<1> QED BY <1>0, <1>1, <1>2, <1>3, <1>6, FieldRead

\* A packed field may end in the zeros behind the input; those are read, but
\* they are not bytes of it.
LEMMA FixedPackedInv ==
    ASSUME DecoderInv, FixedPacked
    PROVE  DecoderInv'
<1>0. status = "field" /\ UNCHANGED <<e, frames, depth, end_group>>
  BY DEF FixedPacked, Reading
<1>1. PICK h \in Header, n \in FieldSizes :
         /\ n <= EphemeralEnd(e) - At(h)
         /\ Advance(h + n)
         /\ view' = String(EphemeralView(e, At(h), n), h)
  BY DEF FixedPacked
<1>2. h \in Nat /\ h <= Slop /\ n \in Nat
  BY Sizes
<1>3. ptr + (h + n) <= e.end + Slop
  BY <1>0, <1>1, <1>2, FieldArith DEF EphemeralEnd, At
<1>4. view' = [at |-> ptr + h, size |-> n, from |-> pos + h]
  BY <1>1 DEF String, EphemeralView, At
<1>5. view' \in View /\ view'.at = ptr + h /\ view'.size = n /\ view'.from = pos + h
  BY <1>0, <1>2, <1>4, FieldArith DEF View
<1>6. CASE e.input_delta = 0
  <2>1. pos + h = ptr + h /\ ptr + h \in Nat /\ (ptr + h) + n <= e.size
    BY <1>0, <1>2, <1>3, <1>6, FieldArith
  <2>2. ViewOK' /\ view' \in View
    BY <1>0, <1>2, <1>4, <2>1, FieldArith, InputView
  <2> QED BY <1>0, <1>1, <1>2, <1>3, <2>2, FieldRead
<1>7. CASE e.input_delta # 0
  <2>1. /\ e.input_delta = e.size - e.end /\ ptr >= Patch /\ e.end <= Patch + Slop
        /\ e.end \in Int /\ e.size \in Nat /\ pos = ptr + e.input_delta
        /\ ptr \in Int /\ e.size + Slop < Patch
    BY <1>0, <1>7, FieldArith
  <2>2. \A i \in 0 .. 2 * Slop - 1 :
           e.patch[i] = IF i + Patch < e.end THEN i + Patch + e.input_delta ELSE Zero
    BY <1>7 DEF DecoderInv, PlaceOK, Placed, InBuffer
  <2>3. ASSUME NEW i \in 0 .. n - 1
        PROVE  /\ Readable(e, ptr + h + i)
               /\ pos + h + i < e.size => Byte(e, ptr + h + i) = pos + h + i
    <3>1. /\ (ptr + h + i) - Patch \in 0 .. 2 * Slop - 1
          /\ ~InInput(e, ptr + h + i) /\ InPatch(ptr + h + i)
      BY <1>2, <1>3, <2>1 DEF InInput, InPatch
    <3>2. Byte(e, ptr + h + i) =
             IF ptr + h + i < e.end THEN ptr + h + i + e.input_delta ELSE Zero
      <4>1. Byte(e, ptr + h + i) = e.patch[(ptr + h + i) - Patch]
        BY <3>1 DEF Byte
      <4>2. ((ptr + h + i) - Patch) + Patch = ptr + h + i
        BY <1>2, <2>1
      <4> QED BY <2>2, <3>1, <4>1, <4>2
    <3> QED BY <1>2, <2>1, <3>1, <3>2 DEF Readable
  <2>4. ViewOK'
    BY <1>0, <1>2, <1>5, <2>1, <2>3 DEF ViewOK
  <2> QED BY <1>0, <1>1, <1>2, <1>3, <1>5, <2>4, FieldRead
<1> QED BY <1>6, <1>7

\* What is captured ends before the limit, so it is all input.
LEMMA UnknownDelimitedInv ==
    ASSUME DecoderInv, UnknownDelimited
    PROVE  DecoderInv'
<1>0. status = "field" /\ UNCHANGED <<e, frames, depth, end_group>>
  BY DEF UnknownDelimited, Reading
<1> DEFINE c == StartCapture(e, ptr)
<1>1. PICK h \in Header, n \in FieldSizes :
         /\ n <= EphemeralEnd(e) - At(h)
         /\ ~CaptureFails(c, At(h + n))
         /\ Advance(h + n)
         /\ view' = String(Captured(c, At(h + n)), 0)
  BY DEF UnknownDelimited
<1>2. h \in Nat /\ h <= Slop /\ n \in Nat /\ h + n \in Nat
  BY Sizes
<1>3. c.capture_start = pos /\ c.end = e.end /\ c.limit = e.limit
      /\ c.input_delta = e.input_delta
  <2>1. e \in Stream /\ ptr + e.input_delta \in Int /\ ptr + e.input_delta = pos
    BY <1>0, FieldArith
  <2>2. c = [e EXCEPT !.capture_start = ptr + e.input_delta]
    BY DEF StartCapture, GetInputPtr
  <2> QED BY <2>1, <2>2, CaptureStream
<1> HIDE DEF c
<1>4. ptr + (h + n) <= e.end + Slop
  BY <1>0, <1>1, <1>2, FieldArith DEF EphemeralEnd, At
<1>5. pos + (h + n) <= e.size
  BY <1>0, <1>1, <1>2, <1>3, FieldArith DEF CaptureFails, At
<1>6. view' = [at |-> pos, size |-> h + n, from |-> pos]
  <2>1. (At(h + n) + e.input_delta) - pos = h + n /\ pos + 0 = pos
    BY <1>0, <1>2, FieldArith DEF At
  <2> QED BY <1>1, <1>3, <2>1 DEF String, Captured, GetInputPtr
<1>7. ViewOK' /\ view' \in View
  BY <1>0, <1>2, <1>5, <1>6, FieldArith, InputView
<1> QED BY <1>0, <1>1, <1>2, <1>4, <1>7, FieldRead

LEMMA SkipDelimitedInv ==
    ASSUME DecoderInv, SkipDelimited
    PROVE  DecoderInv'
<1>0. status = "field" /\ UNCHANGED <<e, frames, depth, end_group, view>>
  BY DEF SkipDelimited, Reading
<1>1. PICK h \in Header, n \in FieldSizes : CheckSize(e, At(h), n) /\ Advance(h + n)
  BY DEF SkipDelimited
<1>2. h \in Nat /\ n \in Nat /\ h + n \in Nat
  BY Sizes
<1>3. ptr + (h + n) <= e.end + Slop
  <2>1. e.limit <= Slop /\ e.limit \in Int /\ ptr \in Int /\ e.end \in Int
    BY <1>0, FieldArith
  <2> QED BY <1>1, <1>2, <2>1 DEF CheckSize, At
<1>4. ViewOK' /\ view' \in View
  BY <1>0, SameView DEF DecoderInv, SameBytes
<1> QED BY <1>0, <1>1, <1>2, <1>3, <1>4, FieldRead

\* A loop that entered does not run past the limit of the one around it: PushLimit
\* fails if its field does not end before it.
LEMMA PushFieldInv ==
    ASSUME DecoderInv, NEW kind \in {"message", "packed"}, PushField(kind), depth' \in Int
    PROVE  DecoderInv'
<1>0. status = "field" /\ Top.kind \in MessageKinds
      /\ status' = "loop" /\ UNCHANGED <<end_group, overran, view>>
  BY DEF PushField, Reading, In
<1>1. PICK h \in Header, n \in FieldSizes :
         /\ PushedDelta(e, At(h), n) >= 0
         /\ e' = PushLimit(e, At(h), n)
         /\ frames' = Append(frames, Frame(kind, PushedDelta(e, At(h), n), 0, pos + h + n))
         /\ ptr' = At(h) /\ pos' = pos + h
  BY DEF PushField, Enter
<1>2. h \in Nat /\ h <= Slop /\ n \in Nat
  BY Sizes
<1> DEFINE delta == PushedDelta(e, At(h), n)
           limit == n + (At(h) - e.end)
           f == Frame(kind, delta, 0, pos + h + n)
<1>3. /\ limit \in Int /\ delta \in Int /\ delta = e.limit - limit
      /\ pos + h + n = e.end + e.input_delta + limit
      /\ pos + h + n \in Int
  BY <1>0, <1>2, FieldArith DEF PushedDelta, At
<1>4. e' = SetLimit(e, limit)
  BY <1>1 DEF PushLimit
<1>5. f = [kind |-> kind, delta |-> delta, left |-> 0, stop |-> pos + h + n, from |-> pos]
  BY DEF Frame
<1>6. delta >= 0 /\ frames' = Append(frames, f) /\ ptr' = ptr + h /\ pos' = pos + h
  BY <1>1 DEF At
<1> HIDE DEF delta, limit
<1>7. /\ f \in Loop /\ f.kind = kind /\ f.delta = delta /\ f.stop = pos + h + n
      /\ f.from = pos
  BY <1>0, <1>3, <1>5, FieldArith DEF Loop, Kinds, MessageKinds
<1> HIDE DEF f
<1>8. /\ e' \in Stream /\ SameBytes(e, e') /\ e'.limit = limit
      /\ e'.limit_ptr = e.end + Clamp(limit) /\ e'.capture_start = e.capture_start
      /\ e'.size = e.size
  BY <1>0, <1>3, <1>4, FieldArith, SetLimitStream DEF SameBytes
<1>9. /\ f.stop <= e.size /\ Top.stop = f.stop + f.delta /\ pos + h <= f.stop
      /\ GetInputPtr(e, e.end) + limit = f.stop
  <2>1. /\ Top.stop = e.end + e.input_delta + e.limit /\ Top.stop <= e.size
        /\ e.end \in Int /\ e.input_delta \in Int /\ e.limit \in Int /\ e.size \in Nat
        /\ pos \in Nat
    BY <1>0, FieldArith
  <2>2. f.stop = e.end + e.input_delta + limit /\ f.stop \in Int
    BY <1>3, <1>7
  <2>3. f.delta = e.limit - limit /\ f.delta >= 0 /\ limit \in Int
    BY <1>3, <1>6, <1>7
  <2>4. pos + h <= f.stop
    BY <1>2, <1>7, <2>1
  <2> QED BY <2>1, <2>2, <2>3, <2>4 DEF GetInputPtr
<1>10. /\ FramesOK' /\ CaptureOK' /\ Top' = f
       /\ frames' \in Seq(Loop) /\ frames' # <<>>
  <2>1. f.kind # "top" /\ f.kind # "skip" /\ f.kind \in LimitKinds /\ f.delta >= 0
    BY <1>6, <1>7 DEF LimitKinds
  <2> QED BY <1>0, <1>6, <1>7, <1>8, <1>9, <2>1, PushFrame DEF DecoderInv
<1>11. /\ Placed(e', ptr') /\ GetInputPtr(e', ptr') = pos'
       /\ ptr' \in Int /\ pos' \in Nat /\ Limit(e') = f.stop
  <2>1. ptr + h <= e.end + Slop
    BY <1>0, <1>2, FieldArith
  <2> QED BY <1>2, <1>6, <1>8, <1>9, <2>1, Moved DEF DecoderInv
<1>12. PlaceOK'
  BY <1>10, <1>11 DEF PlaceOK
<1>13. StatusOK' /\ ViewOK' /\ view' \in View /\ overran' \in BOOLEAN
  BY <1>0, <1>8, FieldFacts, NoViewOK DEF StatusOK
<1>14. TypeOK'
  BY <1>0, <1>8, <1>10, <1>11, <1>13 DEF TypeOK, DecoderInv
<1> QED BY <1>10, <1>12, <1>13, <1>14 DEF DecoderInv

LEMMA SubMessageInv ==
    ASSUME DecoderInv, SubMessage
    PROVE  DecoderInv'
<1>1. depth' \in Int
  BY DEF SubMessage, DecoderInv, TypeOK
<1> QED BY <1>1, PushFieldInv DEF SubMessage

LEMMA VarintPackedInv ==
    ASSUME DecoderInv, VarintPacked
    PROVE  DecoderInv'
<1>1. depth' \in Int
  BY DEF VarintPacked, DecoderInv, TypeOK
<1> QED BY <1>1, PushFieldInv DEF VarintPacked

\* The loop of a group, of a message set item or of a skipped group has the limit
\* of the loop around it.
LEMMA InnerFrame ==
    ASSUME DecoderInv, NEW kind \in {"group", "item", "skip"}, NEW left \in Int,
           frames' = Append(frames, Frame(kind, 0, left, Top.stop)),
           e'.size = e.size,
           Top.kind \notin MessageKinds => kind = "skip",
           IF kind = "skip" /\ Top.kind \in MessageKinds
             THEN e'.capture_start = pos ELSE e'.capture_start = e.capture_start
    PROVE  /\ FramesOK' /\ CaptureOK' /\ Top'.stop = Top.stop
           /\ frames' \in Seq(Loop) /\ frames' # <<>>
<1> DEFINE f == Frame(kind, 0, left, Top.stop)
<1>1. Top.stop \in Int /\ pos \in Nat /\ Limit(e) = Top.stop /\ Top.stop <= e.size
  BY TopFacts DEF DecoderInv, TypeOK, Loop, PlaceOK, Placed
<1>2. f = [kind |-> kind, delta |-> 0, left |-> left, stop |-> Top.stop, from |-> pos]
  BY DEF Frame
<1>3. /\ f \in Loop /\ f.kind = kind /\ f.delta = 0 /\ f.stop = Top.stop
      /\ f.from = pos
  BY <1>1, <1>2 DEF Loop, Kinds, MessageKinds
<1>4. f.kind # "top" /\ Top.stop = f.stop + f.delta /\ f.delta >= 0
  BY <1>1, <1>3
<1>5. frames' = Append(frames, f)
  OBVIOUS
<1> HIDE DEF f
<1>6. f.kind = "skip" /\ Top.kind \in MessageKinds => e'.capture_start = f.from
  BY <1>3
<1>7. ~(f.kind = "skip" /\ Top.kind \in MessageKinds) =>
         e'.capture_start = e.capture_start
  BY <1>3
<1> QED BY <1>1, <1>3, <1>4, <1>5, <1>6, <1>7, PushFrame DEF DecoderInv

LEMMA GroupFieldInv ==
    ASSUME DecoderInv, GroupField
    PROVE  DecoderInv'
<1>0. /\ status = "field" /\ Top.kind \in MessageKinds /\ status' = "loop"
      /\ frames' = Append(frames, Frame("group", 0, 0, Top.stop))
      /\ depth' = depth - 1 /\ UNCHANGED <<end_group, overran, view>>
  BY DEF GroupField, Reading, In, Enter
<1>1. PICK t \in TagBytes :
         /\ IsDone(e, At(t)).res = "more"
         /\ e' = IsDone(e, At(t)).stream /\ ptr' = IsDone(e, At(t)).ptr
         /\ pos' = pos + t
  BY DEF GroupField
<1>2. t \in Nat /\ t <= Slop
  BY Sizes
<1>3. Placed(e, At(t)) /\ At(t) \in Int /\ GetInputPtr(e, At(t)) = pos + t
  <2>1. /\ ptr < e.end /\ ptr \in Int /\ e.end \in Int /\ e.input_delta \in Int
        /\ pos = ptr + e.input_delta
    BY <1>0, FieldArith
  <2>2. Placed(e, ptr)
    BY DEF DecoderInv, PlaceOK
  <2> QED BY <1>2, <2>1, <2>2 DEF Placed, At, GetInputPtr
<1>4. /\ e' \in Stream /\ ptr' \in Int
      /\ Placed(e', ptr') /\ GetInputPtr(e', ptr') = pos'
      /\ Limit(e') = Limit(e) /\ e'.size = e.size
      /\ e'.capture_start = e.capture_start
  BY <1>0, <1>1, <1>3, IsDoneMore, FieldArith
<1>5. /\ FramesOK' /\ CaptureOK' /\ Top'.stop = Top.stop
      /\ frames' \in Seq(Loop) /\ frames' # <<>>
  BY <1>0, <1>4, InnerFrame
<1>6. PlaceOK'
  BY <1>4, <1>5 DEF PlaceOK, DecoderInv
<1>7. StatusOK' /\ ViewOK' /\ view' \in View /\ overran' \in BOOLEAN
  BY <1>0, <1>4, FieldFacts, NoViewOK DEF StatusOK
<1>8. pos' \in Nat
  BY <1>1, <1>2 DEF DecoderInv, TypeOK
<1>9. TypeOK'
  BY <1>0, <1>4, <1>5, <1>7, <1>8 DEF TypeOK, DecoderInv
<1> QED BY <1>5, <1>6, <1>7, <1>9 DEF DecoderInv

\* A tag was read, and a loop with the same limit entered or left.
LEMMA TagRead ==
    ASSUME DecoderInv, status = "field", NEW t \in TagBytes, Advance(t),
           FramesOK', CaptureOK', Top'.stop = Top.stop,
           frames' \in Seq(Loop), frames' # <<>>,
           e' \in Stream, SameBytes(e, e'), e'.limit = e.limit, e'.limit_ptr = e.limit_ptr,
           ViewOK', view' \in View, depth' \in Int, end_group' \in Int
    PROVE  DecoderInv'
<1>1. t \in Nat /\ t <= Slop
  BY Sizes
<1>2. /\ Placed(e', ptr') /\ GetInputPtr(e', ptr') = pos'
      /\ ptr' \in Int /\ pos' \in Nat /\ Limit(e') = Limit(e)
  <2>1. ptr < e.end /\ ptr \in Int /\ e.end \in Int
    BY FieldArith
  <2>2. ptr + t <= e.end + Slop
    BY <1>1, <2>1
  <2> QED BY <1>1, <2>2, Advanced DEF DecoderInv, Advance
<1>3. PlaceOK'
  BY <1>2 DEF PlaceOK, DecoderInv
<1>4. StatusOK' /\ overran' \in BOOLEAN
  BY FieldFacts DEF StatusOK, Advance
<1>5. TypeOK'
  BY <1>2, <1>4 DEF TypeOK, DecoderInv, Advance
<1> QED BY <1>3, <1>4, <1>5 DEF DecoderInv

LEMMA MessageSetItemInv ==
    ASSUME DecoderInv, MessageSetItem
    PROVE  DecoderInv'
<1>0. /\ status = "field" /\ Top.kind \in MessageKinds
      /\ frames' = Append(frames, Frame("item", 0, 0, Top.stop))
      /\ UNCHANGED <<e, depth, end_group, view>>
  BY DEF MessageSetItem, Reading, In, Enter
<1>1. PICK t \in TagBytes : Advance(t)
  BY DEF MessageSetItem
<1>2. e' \in Stream /\ SameBytes(e, e') /\ depth' \in Int /\ end_group' \in Int
  BY <1>0 DEF DecoderInv, TypeOK, SameBytes
<1>3. /\ FramesOK' /\ CaptureOK' /\ Top'.stop = Top.stop
      /\ frames' \in Seq(Loop) /\ frames' # <<>>
  BY <1>0, InnerFrame
<1>4. ViewOK' /\ view' \in View
  BY <1>0, <1>2, SameView DEF DecoderInv
<1> QED BY <1>0, <1>1, <1>2, <1>3, <1>4, TagRead

LEMMA SkipGroupInv ==
    ASSUME DecoderInv, SkipGroup
    PROVE  DecoderInv'
<1> DEFINE left == IF In({"skip"}) THEN Top.left ELSE depth
<1>0. /\ status = "field"
      /\ e' = IF Top.kind \in MessageKinds THEN StartCapture(e, ptr) ELSE e
      /\ frames' = Append(frames, Frame("skip", 0, left - 1, Top.stop))
      /\ UNCHANGED <<depth, end_group, view>>
  BY DEF SkipGroup, Reading, In, Enter
<1>1. PICK t \in TagBytes : Advance(t)
  BY DEF SkipGroup
<1>2. left - 1 \in Int /\ depth' \in Int /\ end_group' \in Int
  BY <1>0, TopFacts DEF DecoderInv, TypeOK, Loop
<1>3. /\ e' \in Stream /\ SameBytes(e, e') /\ e'.size = e.size
      /\ e'.limit = e.limit /\ e'.limit_ptr = e.limit_ptr
      /\ e'.capture_start = IF Top.kind \in MessageKinds THEN pos ELSE e.capture_start
  <2>1. e \in Stream /\ ptr + e.input_delta \in Int /\ ptr + e.input_delta = pos
    BY <1>0, FieldArith
  <2>2. StartCapture(e, ptr) = [e EXCEPT !.capture_start = ptr + e.input_delta]
    BY DEF StartCapture, GetInputPtr
  <2> QED BY <1>0, <2>1, <2>2, CaptureStream DEF SameBytes
<1> HIDE DEF left
<1>4. /\ FramesOK' /\ CaptureOK' /\ Top'.stop = Top.stop
      /\ frames' \in Seq(Loop) /\ frames' # <<>>
  BY <1>0, <1>2, <1>3, InnerFrame
<1>5. ViewOK' /\ view' \in View
  BY <1>0, <1>3, SameView DEF DecoderInv
<1> QED BY <1>0, <1>1, <1>2, <1>3, <1>4, <1>5, TagRead

\* A loop that pushed no limit is left: the limit is that of the loop around it.
LEMMA OuterFrame ==
    ASSUME DecoderInv, Top.kind \in {"group", "skip", "item"},
           frames' = Front(frames), e'.size = e.size,
           \/ e'.capture_start = e.capture_start
           \/ Top.kind = "skip" /\ frames[Len(frames) - 1].kind \in MessageKinds
    PROVE  /\ FramesOK' /\ CaptureOK' /\ Top'.stop = Top.stop
           /\ frames' \in Seq(Loop) /\ frames' # <<>>
<1>1. Top \in Loop /\ Top = frames[Len(frames)] /\ Len(frames) \in 1 .. Len(frames)
  BY TopFacts DEF DecoderInv
<1>2. Top.kind # "top" /\ Top.kind \notin LimitKinds
  BY DEF LimitKinds
<1>3. Top.delta = 0 /\ Top.stop \in Int
  BY <1>1, <1>2 DEF DecoderInv, FramesOK, Loop
<1>4. /\ FramesOK' /\ CaptureOK'
      /\ frames' \in Seq(Loop) /\ frames' # <<>>
      /\ Top'.stop = Top.stop + Top.delta
  BY <1>2, PopFrame DEF DecoderInv
<1> QED BY <1>3, <1>4

LEMMA EndSkipInv ==
    ASSUME DecoderInv, EndSkip
    PROVE  DecoderInv'
<1> DEFINE outer == frames[Len(frames) - 1].kind
<1>0. /\ status = "field" /\ Top.kind \in {"skip", "item"}
      /\ frames' = Front(frames) /\ UNCHANGED <<depth, end_group>>
  BY DEF EndSkip, Reading, In, Leave
<1>1. PICK t \in TagBytes :
         /\ Advance(t)
         /\ IF Top.kind = "skip" /\ outer \in MessageKinds
              THEN /\ ~CaptureFails(e, At(t))
                   /\ view' = [at |-> Captured(e, At(t)).at,
                               size |-> Captured(e, At(t)).size, from |-> Top.from]
                   /\ e' = [e EXCEPT !.capture_start = NULL]
              ELSE UNCHANGED <<e, view>>
  BY DEF EndSkip, In
<1>2. t \in Nat /\ t <= Slop /\ depth' \in Int /\ end_group' \in Int
  BY <1>0, Sizes DEF DecoderInv, TypeOK
<1>3. /\ e' \in Stream /\ SameBytes(e, e') /\ e'.size = e.size
      /\ e'.limit = e.limit /\ e'.limit_ptr = e.limit_ptr
      /\ \/ e'.capture_start = e.capture_start
         \/ Top.kind = "skip" /\ outer \in MessageKinds
  <2>1. e \in Stream /\ NULL \in Int
    BY DEF DecoderInv, TypeOK, NULL
  <2>2. CASE Top.kind = "skip" /\ outer \in MessageKinds
    <3>1. e' = [e EXCEPT !.capture_start = NULL]
      BY <1>1, <2>2
    <3> HIDE DEF outer
    <3> QED BY <2>1, <2>2, <3>1, CaptureStream DEF SameBytes
  <2>3. CASE ~(Top.kind = "skip" /\ outer \in MessageKinds)
    BY <1>1, <2>1, <2>3 DEF SameBytes
  <2> QED BY <2>2, <2>3
<1>4. /\ FramesOK' /\ CaptureOK' /\ Top'.stop = Top.stop
      /\ frames' \in Seq(Loop) /\ frames' # <<>>
  BY <1>0, <1>3, OuterFrame
<1>5. ViewOK' /\ view' \in View
  <2>1. CASE Top.kind = "skip" /\ outer \in MessageKinds
    <3>1. Len(frames) \in 2 .. Len(frames) /\ Top = frames[Len(frames)] /\ Top \in Loop
      BY <2>1, TopFacts DEF DecoderInv, FramesOK
    <3>2. e.capture_start = Top.from /\ Top.from \in Nat
      BY <2>1, <3>1 DEF DecoderInv, CaptureOK, Loop
    <3>3. /\ e.end \in Int /\ e.input_delta \in Int /\ e.limit \in Int /\ e.size \in Nat
          /\ ptr \in Int /\ Top.stop = e.end + e.input_delta + e.limit
          /\ Top.stop <= e.size
      BY <1>0, FieldArith
    <3> DEFINE n == ((ptr + t) + e.input_delta) - Top.from
    <3>4. n \in Int /\ Top.from + n <= e.size
      <4>1. ~((ptr + t) - e.end > e.limit)
        BY <1>1, <2>1 DEF CaptureFails, At
      <4> QED BY <1>2, <3>2, <3>3, <4>1
    <3>5. view' = [at |-> Top.from, size |-> n, from |-> Top.from]
      <4>1. Captured(e, At(t)).at = Top.from /\ Captured(e, At(t)).size = n
        BY <3>2 DEF Captured, GetInputPtr, At
      <4> QED BY <1>1, <2>1, <4>1
    <3> HIDE DEF n
    <3> QED BY <1>3, <3>2, <3>4, <3>5, InputView
  <2>2. CASE ~(Top.kind = "skip" /\ outer \in MessageKinds)
    BY <1>1, <1>3, <2>2, SameView DEF DecoderInv
  <2> QED BY <2>1, <2>2
<1> QED BY <1>0, <1>1, <1>2, <1>3, <1>4, <1>5, TagRead

\* The end of a message that a tag ends: that of its own group, or an error.
LEMMA EndGroupInv ==
    ASSUME DecoderInv, EndGroup
    PROVE  DecoderInv'
<1>0. status = "field" /\ Top.kind \in MessageKinds
  BY DEF EndGroup, Reading, In
<1>1. PICK t \in TagBytes, group \in {Group, OtherGroup} :
         /\ ReturnMessage(group)
         /\ ptr' = ptr + t /\ pos' = pos + t
         /\ overran' = (overran \/ pos + t > Top.stop)
         /\ view' = NoView
  BY DEF EndGroup
<1>2. t \in Nat /\ t <= Slop /\ group # NoGroup /\ group \in Int
  BY Sizes DEF Group, OtherGroup, NoGroup
<1>3. e' = e /\ e \in Stream /\ depth' \in Int /\ end_group' \in Int
  BY <1>1, <1>2 DEF ReturnMessage, DecoderInv, TypeOK, NoGroup
<1>4. ViewOK' /\ view' \in View
  BY <1>1, <1>3, NoViewOK
<1>5. CASE Top.kind = "group" /\ group = Group
  <2>1. frames' = Front(frames) /\ status' = "loop"
    BY <1>1, <1>5 DEF ReturnMessage, In, Leave
  <2>2. Advance(t)
    BY <1>1, <2>1 DEF Advance
  <2>3. /\ FramesOK' /\ CaptureOK' /\ Top'.stop = Top.stop
        /\ frames' \in Seq(Loop) /\ frames' # <<>>
    BY <1>3, <1>5, <2>1, OuterFrame
  <2> QED BY <1>0, <1>3, <1>4, <2>2, <2>3, TagRead DEF SameBytes
<1>6. CASE ~(Top.kind = "group" /\ group = Group)
  <2>1. frames' = frames /\ status' = "error"
    BY <1>1, <1>2, <1>6 DEF ReturnMessage, In
  <2>2. /\ FramesOK' /\ CaptureOK' /\ Top' = Top
        /\ frames' \in Seq(Loop) /\ frames' # <<>>
    BY <1>3, <2>1, SameFrames DEF DecoderInv
  <2>3. ptr < e.end /\ ptr \in Int /\ e.end \in Int
    BY <1>0, FieldArith
  <2>4. ptr + t <= e.end + Slop
    BY <1>2, <2>3
  <2>5. /\ Placed(e', ptr') /\ GetInputPtr(e', ptr') = pos'
        /\ ptr' \in Int /\ pos' \in Nat /\ Limit(e') = Limit(e)
    BY <1>1, <1>2, <1>3, <2>4, Advanced DEF DecoderInv, SameBytes
  <2>6. PlaceOK' /\ StatusOK'
    BY <2>1, <2>2, <2>5 DEF PlaceOK, StatusOK, DecoderInv
  <2>7. overran' \in BOOLEAN
    BY <1>1
  <2>8. TypeOK'
    BY <1>3, <1>4, <2>1, <2>2, <2>5, <2>7 DEF TypeOK
  <2> QED BY <1>4, <2>2, <2>6, <2>8 DEF DecoderInv
<1> QED BY <1>5, <1>6

\* PopLimit restores the limit of the loop around the one that is left.
LEMMA LeaveLimit ==
    ASSUME DecoderInv, Top.kind \in LimitKinds,
           e' = PopLimit(e, Top.delta), frames' = Front(frames),
           UNCHANGED <<ptr, pos>>
    PROVE  /\ FramesOK' /\ CaptureOK' /\ PlaceOK' /\ e' \in Stream
           /\ frames' \in Seq(Loop) /\ frames' # <<>>
           /\ Top'.stop = Top.stop + Top.delta
<1> DEFINE limit == e.limit + Top.delta
<1>1. /\ Top \in Loop /\ Top.delta \in Int /\ Top.stop \in Int /\ e \in Stream
      /\ e.limit \in Int /\ e.end \in Int /\ e.input_delta \in Int /\ e.size \in Nat
      /\ ptr \in Int /\ pos \in Nat
  BY TopFacts DEF DecoderInv, TypeOK, Loop, Stream
<1>2. e' = SetLimit(e, limit) /\ limit \in Int
  BY <1>1 DEF PopLimit
<1>3. /\ e' \in Stream /\ SameBytes(e, e') /\ e'.limit = limit
      /\ e'.limit_ptr = e.end + Clamp(limit) /\ e'.capture_start = e.capture_start
      /\ e'.size = e.size
  <2> HIDE DEF limit
  <2>1. e \in Stream
    BY <1>1
  <2> QED BY <1>2, <2>1, SetLimitStream DEF SameBytes
<1>4. /\ FramesOK' /\ CaptureOK' /\ Top' \in Loop
      /\ frames' \in Seq(Loop) /\ frames' # <<>>
      /\ Top'.stop = Top.stop + Top.delta
  BY <1>3, PopFrame DEF DecoderInv, LimitKinds
<1>5. Top'.stop <= e.size
  <2>1. Top' = frames'[Len(frames')] /\ Len(frames') \in 1 .. Len(frames')
    BY <1>4 DEF Top, Last
  <2> QED BY <1>3, <1>4, <2>1 DEF FramesOK
<1>6. GetInputPtr(e, e.end) + limit = Top'.stop
  BY <1>1, <1>4 DEF DecoderInv, PlaceOK, Limit, GetInputPtr
<1>7. ptr + 0 <= e.end + Slop /\ ptr' = ptr + 0 /\ pos' = pos + 0 /\ 0 \in Nat
  BY <1>1 DEF DecoderInv, PlaceOK, Placed
<1> HIDE DEF limit
<1>8. Placed(e', ptr') /\ GetInputPtr(e', ptr') = pos' /\ Limit(e') = Top'.stop
  BY <1>3, <1>5, <1>6, <1>7, Moved DEF DecoderInv
<1> QED BY <1>3, <1>4, <1>8 DEF PlaceOK

\* The head of a loop: fields are read only before the limit, and loops are left
\* only at it.
LEMMA LoopHeadInv ==
    ASSUME DecoderInv, LoopHead
    PROVE  DecoderInv'
<1> DEFINE d == IsDone(e, ptr)
<1>0. /\ status = "loop" /\ e \in Stream /\ ptr \in Int /\ Placed(e, ptr)
      /\ GetInputPtr(e, ptr) = pos /\ Limit(e) = Top.stop
      /\ overran => pos > Top.stop
  BY DEF LoopHead, DecoderInv, TypeOK, PlaceOK, StatusOK
<1>1. pos \in Nat /\ Top \in Loop /\ Top.stop \in Int
  BY TopFacts DEF DecoderInv, TypeOK, Loop
<1>2. (d.res = "more" \/ d.res = "done") => ~overran
  BY <1>0, <1>1, IsDoneLimit
<1>3. d.res = "done" => pos = Top.stop
  BY <1>0, IsDoneLimit
<1>4. CASE /\ d.res = "more"
           /\ e' = d.stream /\ ptr' = d.ptr
           /\ status' = "field"
           /\ view' = NoView
           /\ UNCHANGED <<frames, depth, end_group, pos, overran>>
  <2>1. /\ e' \in Stream /\ ptr' \in Int /\ Placed(e', ptr')
        /\ ptr' < e'.limit_ptr /\ GetInputPtr(e', ptr') = pos'
        /\ Limit(e') = Top.stop /\ e'.size = e.size
        /\ e'.capture_start = e.capture_start
    BY <1>0, <1>4, IsDoneMore
  <2>2. /\ FramesOK' /\ CaptureOK' /\ Top' = Top
        /\ frames' \in Seq(Loop) /\ frames' # <<>>
    BY <1>4, <2>1, SameFrames DEF DecoderInv
  <2>3. PlaceOK' /\ StatusOK'
    BY <1>2, <1>4, <2>1, <2>2 DEF PlaceOK, StatusOK
  <2>4. ViewOK' /\ view' \in View
    BY <1>4, <2>1, NoViewOK
  <2>5. TypeOK'
    BY <1>4, <2>1, <2>2, <2>4 DEF TypeOK, DecoderInv
  <2> QED BY <2>2, <2>3, <2>4, <2>5 DEF DecoderInv
<1>5. CASE Throw
  BY <1>5, ThrowInv
<1>6. CASE /\ d.res = "done" /\ Top.kind \in LimitKinds
           /\ e' = PopLimit(e, Top.delta) /\ frames' = Front(frames)
           /\ status' = "loop" /\ view' = NoView
           /\ depth' \in Int /\ end_group' \in Int
           /\ UNCHANGED <<ptr, pos, overran>>
  <2>1. /\ FramesOK' /\ CaptureOK' /\ PlaceOK' /\ e' \in Stream
        /\ frames' \in Seq(Loop) /\ frames' # <<>>
    BY <1>6, LeaveLimit
  <2>2. ViewOK' /\ view' \in View /\ StatusOK'
    BY <1>2, <1>6, <2>1, NoViewOK DEF StatusOK
  <2>3. TypeOK'
    BY <1>0, <1>6, <2>1, <2>2 DEF TypeOK, DecoderInv
  <2> QED BY <2>1, <2>2, <2>3 DEF DecoderInv
<1>7. CASE /\ d.res = "done" /\ Top.kind \in {"top", "group"}
           /\ UNCHANGED <<e, frames, ptr, pos, overran>>
           /\ \/ Top.kind = "top" /\ status' = "ok"
              \/ status' = "error"
           /\ view' = NoView
           /\ depth' \in Int /\ end_group' \in Int
  <2>1. /\ FramesOK' /\ CaptureOK' /\ Top' = Top
        /\ frames' \in Seq(Loop) /\ frames' # <<>>
    BY <1>7, SameFrames DEF DecoderInv
  <2>2. PlaceOK'
    BY <1>7, <2>1 DEF PlaceOK, DecoderInv
  <2>3. Top.kind = "top" => Len(frames) = 1 /\ Top.stop = e.size
    <3>1. Len(frames) \in Nat /\ Len(frames) >= 1 /\ Top = frames[Len(frames)]
      BY TopFacts DEF DecoderInv
    <3>2. /\ \A k \in 2 .. Len(frames) : frames[k].kind # "top"
          /\ frames[1].stop = e.size
      BY DEF DecoderInv, FramesOK
    <3>3. CASE Len(frames) = 1
      BY <3>1, <3>2, <3>3
    <3>4. CASE Len(frames) \in 2 .. Len(frames)
      BY <3>1, <3>2, <3>4
    <3>5. Len(frames) = 1 \/ Len(frames) \in 2 .. Len(frames)
      BY <3>1
    <3> QED BY <3>3, <3>4, <3>5
  <2>4. StatusOK'
    BY <1>2, <1>3, <1>7, <2>3 DEF StatusOK
  <2>5. ViewOK' /\ view' \in View
    BY <1>0, <1>7, NoViewOK
  <2>6. TypeOK'
    BY <1>7, <2>1, <2>5 DEF TypeOK, DecoderInv
  <2> QED BY <2>1, <2>2, <2>4, <2>5, <2>6 DEF DecoderInv
<1>8. ASSUME d.res = "done", ReturnMessage(NoGroup), view' = NoView,
             UNCHANGED <<ptr, pos, overran>>
      PROVE  DecoderInv'
  <2>1. NoGroup \in Int /\ NoGroup # Group /\ depth \in Int
    BY DEF NoGroup, Group, DecoderInv, TypeOK
  <2>2. CASE Top.kind = "message"
    <3>1. /\ e' = PopLimit(e, Top.delta) /\ frames' = Front(frames) /\ status' = "loop"
          /\ depth' \in Int /\ end_group' \in Int
      BY <1>8, <2>1, <2>2 DEF ReturnMessage, In, Leave
    <3>2. Top.kind \in LimitKinds
      BY <2>2 DEF LimitKinds
    <3> QED BY <1>6, <1>8, <3>1, <3>2
  <2>3. CASE Top.kind = "top"
    <3>1. /\ UNCHANGED <<e, frames>> /\ status' = "ok"
          /\ depth' \in Int /\ end_group' \in Int
      BY <1>8, <2>1, <2>3 DEF ReturnMessage, In
    <3> QED BY <1>7, <1>8, <2>3, <3>1
  <2>4. CASE Top.kind = "group"
    <3>1. /\ UNCHANGED <<e, frames>> /\ status' = "error"
          /\ depth' \in Int /\ end_group' \in Int
      BY <1>8, <2>1, <2>4 DEF ReturnMessage, In
    <3> QED BY <1>7, <1>8, <2>4, <3>1
  <2> QED BY <1>8, <2>2, <2>3, <2>4 DEF ReturnMessage, In
<1>9. ASSUME d.res = "done", In({"packed"}), LeavePacked, view' = NoView,
             UNCHANGED <<ptr, depth, end_group, status, pos, overran>>
      PROVE  DecoderInv'
  <2>1. /\ e' = PopLimit(e, Top.delta) /\ frames' = Front(frames) /\ status' = "loop"
        /\ Top.kind \in LimitKinds
        /\ depth' \in Int /\ end_group' \in Int
    BY <1>0, <1>9 DEF LeavePacked, Leave, In, LimitKinds, DecoderInv, TypeOK
  <2> QED BY <1>6, <1>9, <2>1
<1> HIDE DEF d
<1>10. \/ /\ d.res = "more"
          /\ e' = d.stream /\ ptr' = d.ptr
          /\ status' = "field"
          /\ view' = NoView
          /\ UNCHANGED <<frames, depth, end_group, pos, overran>>
       \/ Throw
       \/ /\ d.res = "done" /\ ReturnMessage(NoGroup) /\ view' = NoView
          /\ UNCHANGED <<ptr, pos, overran>>
       \/ /\ d.res = "done" /\ In({"packed"}) /\ LeavePacked /\ view' = NoView
          /\ UNCHANGED <<ptr, depth, end_group, status, pos, overran>>
  BY DEF LoopHead, d
<1> QED BY <1>4, <1>5, <1>8, <1>9, <1>10

LEMMA StutterInv ==
    ASSUME DecoderInv, UNCHANGED vars
    PROVE  DecoderInv'
BY DEF DecoderInv, vars, TypeOK, FramesOK, CaptureOK, PlaceOK, StatusOK, ViewOK, Top

\* The invariant of the decoder: the stream reads from one of its buffers, the
\* pointer and the limit name the same places in the input as the bytes consumed
\* and the innermost loop's end, the loops nest, and an overrun is still to be
\* noticed.
THEOREM DecoderInvariant == Spec => []DecoderInv
<1>1. Init => DecoderInv
  BY InitInv
<1>2. DecoderInv /\ [Next]_vars => DecoderInv'
  <2> SUFFICES ASSUME DecoderInv, [Next]_vars PROVE DecoderInv'
    OBVIOUS
  <2>1. CASE BadField
    BY <2>1, ThrowInv DEF BadField
  <2> QED BY <2>1, LoopHeadInv, ScalarInv, EndGroupInv, StringFieldInv, FixedPackedInv,
             UnknownDelimitedInv, SkipDelimitedInv, SubMessageInv, VarintPackedInv,
             GroupFieldInv, MessageSetItemInv, SkipGroupInv, EndSkipInv, StutterInv
          DEF Next
<1> QED BY <1>1, <1>2, PTL DEF Spec

----------------------------------------------------------------------------
(***************************************************************************)
(* The properties.                                                         *)
(***************************************************************************)
\* The Slop bytes at the pointer, before a field is read.
LEMMA SlopReadable ==
    ASSUME DecoderInv, status = "field", NEW i \in 0 .. Slop - 1
    PROVE  /\ Readable(e, ptr + i)
           /\ Byte(e, ptr + i) = IF pos + i < e.size THEN pos + i ELSE Zero
<1>1. /\ ptr < e.end /\ e.end \in Int /\ ptr \in Int /\ pos \in Nat
      /\ pos = ptr + e.input_delta /\ e.input_delta \in Int
      /\ e.size \in Nat /\ e.size + Slop < Patch
      /\ \/ e.input_delta = 0 /\ e.end = e.size - Slop /\ ptr >= 0
         \/ /\ e.input_delta = e.size - e.end /\ ptr >= Patch /\ e.input_delta # 0
            /\ e.end <= Patch + Slop
  BY FieldArith
<1>2. CASE e.input_delta = 0
  <2>1. InInput(e, ptr + i) /\ pos + i < e.size /\ ptr + i = pos + i
    BY <1>1, <1>2 DEF InInput
  <2> QED BY <2>1 DEF Readable, Byte
<1>3. CASE e.input_delta # 0
  <2>1. \A j \in 0 .. 2 * Slop - 1 :
           e.patch[j] = IF j + Patch < e.end THEN j + Patch + e.input_delta ELSE Zero
    BY <1>3 DEF DecoderInv, PlaceOK, Placed, InBuffer
  <2>2. /\ (ptr + i) - Patch \in 0 .. 2 * Slop - 1
        /\ ~InInput(e, ptr + i) /\ InPatch(ptr + i)
        /\ ((ptr + i) - Patch) + Patch = ptr + i
        /\ (ptr + i < e.end) = (pos + i < e.size)
        /\ ptr + i + e.input_delta = pos + i
    BY <1>1, <1>3 DEF InInput, InPatch
  <2>3. Byte(e, ptr + i) = e.patch[(ptr + i) - Patch]
    BY <2>2 DEF Byte
  <2> QED BY <2>1, <2>2, <2>3 DEF Readable
<1> QED BY <1>2, <1>3

\* The bytes read are those of the input, in whichever buffer they are: the Slop
\* bytes that IsDone promises, a string, an unknown field that was captured
\* across the switch of buffers.
THEOREM ReadsAreExact == Spec => []ReadsExact
<1>1. DecoderInv => ReadsExact
  BY SlopReadable DEF ReadsExact, DecoderInv, PlaceOK, ViewOK
<1> QED BY <1>1, DecoderInvariant, PTL

\* The limits that PushLimit and PopLimit keep are the ends of the fields of the
\* loops, however they nest and wherever the buffers are switched.
THEOREM LimitsAreExact == Spec => []LimitsExact
<1>1. ASSUME DecoderInv PROVE LimitsExact
  <2>1. e.limit \in Int /\ e.limit_ptr = e.end + Clamp(e.limit)
    BY <1>1 DEF DecoderInv, TypeOK, Stream, PlaceOK, Placed
  <2>2. Min({0, e.limit}) = Clamp(e.limit)
    BY <2>1, MinZero
  <2>3. GetInputPtr(e, e.end) + e.limit = Top.stop
    BY <1>1 DEF DecoderInv, PlaceOK, Limit
  <2> QED BY <1>1, <2>1, <2>2, <2>3 DEF LimitsExact, DecoderInv, FramesOK
<1> QED BY <1>1, DecoderInvariant, PTL

\* A field that ran past the limit of its loop makes the next IsDone fail, so
\* decoding succeeds only on what ends where it must.  The comparison in int is
\* exact for inputs below 2 GiB.
THEOREM OverrunsAreNoticed == Spec => []OverrunNoticed
<1>1. ASSUME DecoderInv PROVE OverrunNoticed
  <2>1. /\ e \in Stream /\ ptr \in Int /\ Placed(e, ptr) /\ overran \in BOOLEAN
        /\ GetInputPtr(e, ptr) = pos /\ Limit(e) = Top.stop
        /\ status \in {"loop", "field", "ok", "error"}
    BY <1>1 DEF DecoderInv, TypeOK, PlaceOK
  <2>2. overran => status = "error" \/ (status = "loop" /\ pos > Top.stop)
    BY <1>1, <2>1 DEF DecoderInv, StatusOK
  <2>3. status = "ok" => pos = e.size /\ Len(frames) = 1
    BY <1>1 DEF DecoderInv, StatusOK
  <2>4. pos > Top.stop => IsDone(e, ptr).res = "error"
    BY <2>1, IsDoneLimit
  <2>5. ASSUME pos = Top.stop, e.size <= IntHalf
        PROVE  IsDone(e, ptr).res = "done"
    <3>1. /\ e.size \in Nat /\ e.end \in Int /\ e.limit \in Int /\ e.input_delta \in Int
          /\ InBuffer(e) /\ ptr >= IF e.input_delta = 0 THEN 0 ELSE Patch
      BY <2>1 DEF Stream, Placed
    <3>2. ptr - e.end = e.limit
      BY <2>1, <2>5, <3>1 DEF GetInputPtr, Limit
    <3>3. e.limit >= -IntHalf
      BY <2>1, <2>5, <3>1, <3>2 DEF InBuffer
    <3> QED BY <2>1, <2>5, <3>3, IsDoneLimit
  <2> QED BY <2>2, <2>3, <2>4, <2>5 DEF OverrunNoticed
<1> QED BY <1>1, DecoderInvariant, PTL
============================================================================
