---------------------------- MODULE JitterBufferProofs ----------------------------
(***************************************************************************)
(* JitterBuffer for every target, slack, interval and capacity, and for    *)
(* every storm of delays, losses and changes of order.                     *)
(***************************************************************************)
EXTENDS JitterBuffer, FiniteSetTheorems, TLAPS

(* The oldest and the newest frame *)

\* A set of naturals has a least element, the one Min chooses.
LEMMA MinIsLeast ==
    ASSUME NEW S \in SUBSET Nat, S # {}
    PROVE  Min(S) \in S /\ \A j \in S : Min(S) <= j
<1>1. IsWellFoundedOn(OpToRel(<, Nat), Nat)
  BY NatLessThanWellFounded
<1>2. PICK i \in S : \A j \in S : ~ (<<j, i>> \in OpToRel(<, Nat))
  BY <1>1, WFMin
<1>3. \A j \in S : ~ (j < i)
  BY <1>2 DEF OpToRel
<1>4. \A j \in S : i <= j
  BY <1>3
<1>. QED
  BY <1>4 DEF Min

\* Frames are numbered up to a bound, so some are not empty of a newest one.
LEMMA MaxIsGreatest ==
    ASSUME NEW S \in SUBSET Frames, S # {}
    PROVE  Max(S) \in S /\ \A j \in S : j <= Max(S)
<1> DEFINE n == Storm + Calm
           T == {n - x : x \in S}
<1>1. n \in Nat /\ \A x \in S : x \in Nat /\ x <= n
  BY BoundAssumption DEF Frames
<1>2. T \in SUBSET Nat /\ T # {}
  BY <1>1
<1>3. Min(T) \in T /\ \A j \in T : Min(T) <= j
  <2> HIDE DEF T
  <2>. QED
    BY <1>2, MinIsLeast
<1>4. PICK m \in S : Min(T) = n - m
  BY <1>3
<1>5. \A x \in S : n - m <= n - x
  BY <1>3, <1>4
<1> HIDE DEF n, T
<1>6. \A x \in S : m >= x /\ x <= m
  BY <1>1, <1>5
<1>. QED
  BY <1>6 DEF Max

\* There are finitely many frames.
LEMMA FramesFinite ==
    ASSUME NEW S \in SUBSET Frames
    PROVE  IsFiniteSet(S) /\ Cardinality(S) \in Nat
<1>1. IsFiniteSet(Frames)
  BY BoundAssumption, FS_Interval DEF Frames
<1>. QED
  BY <1>1, FS_Subset, FS_CardinalityType

\* Taking a frame out leaves one less, or as many.
LEMMA OneLess ==
    ASSUME NEW S, IsFiniteSet(S), NEW f
    PROVE  /\ Cardinality(S \ {f}) \in Nat
           /\ Cardinality(S \ {f}) <= Cardinality(S)
           /\ Cardinality(S \ {f}) >= Cardinality(S) - 1
<1>1. IsFiniteSet(S \ {f}) /\ Cardinality(S \ {f}) = IF f \in S THEN Cardinality(S) - 1 ELSE Cardinality(S)
  BY FS_RemoveElement
<1>2. Cardinality(S) \in Nat /\ Cardinality(S \ {f}) \in Nat
  BY <1>1, FS_CardinalityType
<1>. QED
  BY <1>1, <1>2

-------------------------------------------------------------------------------
(* push *)

\* What a buffer is between two calls: within its capacity, and while it plays
\* without a frame that is behind, but for those of a set.
AheadBut(b, O) == b.playing => \A f \in b.frames : f >= b.next \/ f \in O
Sized(b) == b \in Buffer /\ Cardinality(b.frames) <= Capacity
GoodBut(b, O) == Sized(b) /\ AheadBut(b, O)

\* What it is if no frame was overtaken.
Ahead(b) == b.playing => \A f \in b.frames : f >= b.next
Good(b) == b \in Buffer /\ Cardinality(b.frames) <= Capacity /\ Ahead(b)

\* Then there is no such set.
LEMMA GoodIs ==
    ASSUME NEW b
    PROVE  Good(b) <=> GoodBut(b, {})
BY DEF Good, GoodBut, Sized, Ahead, AheadBut

\* What the fields of a buffer are.
LEMMA FieldsOf ==
    ASSUME NEW b, Sized(b)
    PROVE  /\ b \in Buffer /\ b.frames \in SUBSET Frames /\ b.frames \in SUBSET Nat
           /\ b.next \in Nat /\ b.playing \in BOOLEAN /\ b.since_drop \in 0 .. Interval
           /\ IsFiniteSet(b.frames) /\ Cardinality(b.frames) \in Nat
           /\ Cardinality(b.frames) <= Capacity
BY FramesFinite, BoundAssumption DEF Sized, Buffer, Frames

\* A stream that starts anew has one frame and does not play.
LEMMA RestartedFields ==
    ASSUME NEW b, b \in Buffer, NEW s \in Frames
    PROVE  /\ Sized(Restarted(b, s)) /\ Restarted(b, s).frames = {s}
           /\ Restarted(b, s).playing = FALSE /\ Restarted(b, s).catching_up = FALSE
           /\ Restarted(b, s).next = s
           /\ Restarted(b, s).since_drop = b.since_drop
<1> USE SizeAssumption, BoundAssumption
<1>1. s \in Nat /\ Cardinality({s}) = 1 /\ {s} \in SUBSET Frames
  BY FS_Singleton DEF Frames
<1> DEFINE r == Restarted(b, s)
<1>2. r = [b EXCEPT !.frames = {s}, !.next = s, !.playing = FALSE, !.catching_up = FALSE]
  BY DEF Restarted
<1>3. /\ r \in Buffer /\ r.frames = {s} /\ r.playing = FALSE /\ r.catching_up = FALSE
      /\ r.next = s /\ r.since_drop = b.since_drop
  BY <1>1, <1>2 DEF Buffer
<1> HIDE DEF r
<1>4. Sized(r)
  BY <1>1, <1>3 DEF Sized
<1>. QED
  BY <1>3, <1>4 DEF r

\* Storing a frame there is room for.
LEMMA StoredFields ==
    ASSUME NEW b, Sized(b), NEW s \in Frames, ~(s \in b.frames), ~Full(b)
    PROVE  LET c == [b EXCEPT !.frames = @ \cup {s}] IN
           /\ Sized(c) /\ c.frames = b.frames \cup {s}
           /\ c.playing = b.playing /\ c.next = b.next /\ c.since_drop = b.since_drop
           /\ Reserve(c) = Reserve(b) + 1
<1> USE SizeAssumption
<1> DEFINE c == [b EXCEPT !.frames = b.frames \cup {s}]
<1>0. /\ b \in Buffer /\ b.frames \in SUBSET Frames /\ IsFiniteSet(b.frames)
      /\ Cardinality(b.frames) \in Nat /\ Cardinality(b.frames) <= Capacity
  BY FieldsOf
<1>1. /\ c \in Buffer /\ c.frames = b.frames \cup {s}
      /\ c.playing = b.playing /\ c.next = b.next /\ c.since_drop = b.since_drop
  BY <1>0 DEF Buffer
<1>2. Cardinality(b.frames \cup {s}) = Cardinality(b.frames) + 1
  BY <1>0, FS_AddElement
<1>3. Cardinality(b.frames) + 1 <= Capacity
  BY <1>0 DEF Full
<1>. QED
  BY <1>1, <1>2, <1>3 DEF Sized, Reserve

\* A frame is entered only if there is room for it and its turn has not passed;
\* a stream that starts anew far away empties the buffer and stops playback.
LEMMA PushGoodBut ==
    ASSUME NEW O, NEW b, GoodBut(b, O), NEW s \in Frames
    PROVE  /\ GoodBut(Push(b, s), O)
           /\ FarFrom(b, s) => GoodBut(Push(b, s), {})
           /\ Push(b, s).playing => b.playing /\ Reserve(Push(b, s)) >= Reserve(b)
           /\ Push(b, s).frames \subseteq b.frames \cup {s}
           /\ Push(b, s).since_drop = b.since_drop
<1> USE SizeAssumption, BoundAssumption
<1>0. /\ b \in Buffer /\ b.frames \in SUBSET Nat /\ b.next \in Nat
      /\ s \in Nat /\ Cardinality(b.frames) \in Nat /\ Sized(b)
  BY FieldsOf DEF GoodBut, Frames
<1>1. CASE FarFrom(b, s)
  <2> DEFINE c == Push(b, s)
  <2>1. c = Restarted(b, s)
    BY <1>1 DEF Push
  <2>2. /\ Sized(Restarted(b, s)) /\ Restarted(b, s).playing = FALSE
        /\ Restarted(b, s).frames = {s} /\ Restarted(b, s).since_drop = b.since_drop
    BY <1>0, RestartedFields
  <2> HIDE DEF c
  <2>3. Sized(c) /\ c.playing = FALSE /\ c.frames = {s} /\ c.since_drop = b.since_drop
    BY <2>1, <2>2
  <2>4. GoodBut(c, O) /\ GoodBut(c, {})
    BY <2>3 DEF GoodBut, AheadBut
  <2>. QED
    BY <2>3, <2>4 DEF c
<1>2. CASE ~FarFrom(b, s) /\ (Late(b, s) \/ s \in b.frames \/ Full(b))
  <2>1. Push(b, s) = b
    BY <1>2 DEF Push
  <2>. QED
    BY <1>0, <1>2, <2>1 DEF Reserve
<1>3. CASE ~FarFrom(b, s) /\ ~(Late(b, s) \/ s \in b.frames \/ Full(b))
  <2> DEFINE c == Push(b, s)
  <2>1. c = [b EXCEPT !.frames = @ \cup {s}]
    BY <1>3 DEF Push
  <2>2. /\ Sized(c) /\ c.frames = b.frames \cup {s} /\ c.playing = b.playing /\ c.next = b.next
        /\ Reserve(c) = Reserve(b) + 1 /\ c.since_drop = b.since_drop
    BY <1>0, <1>3, <2>1, StoredFields
  <2> HIDE DEF c
  <2>3. AheadBut(c, O)
    BY <1>0, <1>3, <2>2 DEF GoodBut, AheadBut, Late
  <2>. QED
    BY <1>0, <1>3, <2>2, <2>3 DEF GoodBut, Reserve, c
<1>. QED
  BY <1>1, <1>2, <1>3

\* So it is if none was overtaken.
LEMMA PushGood ==
    ASSUME NEW b, Good(b), NEW s \in Frames
    PROVE  /\ Good(Push(b, s))
           /\ Push(b, s).playing => b.playing /\ Reserve(Push(b, s)) >= Reserve(b)
BY GoodIs, PushGoodBut

-------------------------------------------------------------------------------
(* pop *)

\* The depth of a buffer, which is negative if every frame is behind.
LEMMA DepthIsInt ==
    ASSUME NEW b, Sized(b)
    PROVE  Depth(b) \in Int
<1>1. CASE b.frames = {}
  BY <1>1 DEF Depth
<1>2. CASE b.frames # {}
  <2>1. Max(b.frames) \in Nat /\ Min(b.frames) \in Nat /\ b.next \in Nat
    BY <1>2, FieldsOf, MaxIsGreatest, MinIsLeast
  <2>. QED
    BY <1>2, <2>1 DEF Depth
<1>. QED
  BY <1>1, <1>2

\* The frames of a buffer that plays are within its depth from its next slot.
LEMMA DepthSpans ==
    ASSUME NEW b, Good(b), b.playing
    PROVE  /\ Depth(b) \in Nat
           /\ \A f \in b.frames : f >= b.next /\ f < b.next + Depth(b)
<1>0. b.frames \in SUBSET Frames /\ b.next \in Nat
  BY DEF Good, Buffer
<1>1. CASE b.frames = {}
  BY <1>1 DEF Depth
<1>2. CASE b.frames # {}
  <2> DEFINE m == Max(b.frames)
  <2>1. m \in b.frames /\ \A f \in b.frames : f <= m
    BY <1>0, <1>2, MaxIsGreatest
  <2>2. Depth(b) = m + 1 - b.next
    BY <1>2 DEF Depth
  <2>3. \A f \in b.frames : f \in Nat /\ f >= b.next
    BY <1>0, BoundAssumption DEF Good, Ahead, Frames
  <2> HIDE DEF m
  <2>. QED
    BY <1>0, <2>1, <2>2, <2>3
<1>. QED
  BY <1>1, <1>2

\* _skip_missing_head leaves out slots without a frame only.
LEMMA SkippedAreEmpty ==
    ASSUME NEW b, b.frames \in SUBSET Nat, b.next \in Nat, NEW depth \in Int
    PROVE  /\ Skipped(b, depth) \in Nat
           /\ depth >= 0 => Skipped(b, depth) \in 0 .. depth
           /\ \A f \in b.frames : f >= b.next => f >= b.next + Skipped(b, depth)
<1> USE SizeAssumption
<1>1. CASE depth <= Target
  BY <1>1 DEF Skipped
<1>2. CASE ~(depth <= Target)
  <2> DEFINE S == {k \in 0 .. depth : b.next + k \in b.frames \/ depth - k <= Target}
             m == Min(S)
  <2>1. Skipped(b, depth) = m
    BY <1>2 DEF Skipped
  <2>2. S \in SUBSET Nat
    OBVIOUS
  <2>3. depth \in S
    BY <1>2
  <2>4. m \in S /\ \A k \in S : m <= k
    <3> HIDE DEF S
    <3>. QED
      BY <2>2, <2>3, MinIsLeast
  <2>5. m \in 0 .. depth /\ m <= depth
    BY <2>4
  <2>6. ASSUME NEW f \in b.frames, f >= b.next
        PROVE  f >= b.next + m
    <3> DEFINE k == f - b.next
    <3>1. f \in Nat /\ k \in Nat /\ b.next + k = f
      BY <2>6
    <3>2. CASE k <= depth
      <4>1. k \in S
        BY <3>1, <3>2
      <4>2. m <= k
        BY <2>4, <4>1
      <4> HIDE DEF m, k
      <4>. QED
        BY <2>5, <3>1, <4>2
    <3>3. CASE ~(k <= depth)
      <4> HIDE DEF m, k
      <4>. QED
        BY <2>5, <3>1, <3>3
    <3>. QED
      BY <3>2, <3>3
  <2> HIDE DEF m, S
  <2>. QED
    BY <2>1, <2>5, <2>6
<1>. QED
  BY <1>1, <1>2

\* Catching up drops a frame only if more than the target are left, and does not
\* pass any frame it leaves.
LEMMA CatchUpGoodBut ==
    ASSUME NEW O, NEW b, GoodBut(b, O)
    PROVE  LET c == CatchUp(b) IN
           /\ GoodBut(c, O) /\ c.playing = b.playing /\ c.frames \subseteq b.frames
           /\ Reserve(c) >= Reserve(b) \/ Reserve(c) >= Target
<1> USE SizeAssumption, BoundAssumption
<1>0. /\ b \in Buffer /\ b.frames \in SUBSET Frames /\ b.next \in Nat /\ b.frames \in SUBSET Nat
      /\ IsFiniteSet(b.frames) /\ Cardinality(b.frames) \in Nat
      /\ Cardinality(b.frames) <= Capacity /\ Sized(b)
  BY FieldsOf DEF GoodBut
<1>1. CASE ~CatchingUp(b)
  <2>1. CatchUp(b) = [b EXCEPT !.catching_up = FALSE]
    BY <1>1 DEF CatchUp
  <2>2. /\ CatchUp(b) \in Buffer /\ CatchUp(b).frames = b.frames
        /\ CatchUp(b).playing = b.playing /\ CatchUp(b).next = b.next
    BY <1>0, <2>1 DEF Buffer
  <2>. QED
    BY <1>0, <2>2 DEF GoodBut, Sized, AheadBut, Reserve
<1>2. CASE CatchingUp(b)
  <2> DEFINE all == Depth(b)
             k == Skipped(b, all)
             depth == all - k
             c == [b EXCEPT !.catching_up = TRUE, !.next = b.next + k]
             d == [c EXCEPT !.frames = c.frames \ {c.next}, !.next = c.next + 1, !.since_drop = 0]
             j == Skipped(d, depth - 1)
  <2>1. CatchUp(b) = IF MayDrop(c, depth) THEN [d EXCEPT !.next = d.next + j] ELSE c
    BY <1>2 DEF CatchUp
  <2>2. all \in Int
    BY <1>0, DepthIsInt
  <2>3. k \in Nat /\ \A f \in b.frames : f >= b.next => f >= b.next + k
    BY <1>0, <2>2, SkippedAreEmpty
  <2> HIDE DEF all, k
  <2>4. /\ c \in Buffer /\ c.frames = b.frames /\ c.playing = b.playing
        /\ c.next = b.next + k /\ c.next \in Nat
    <3>1. b.next + k \in Nat
      BY <1>0, <2>2, <2>3
    <3>. QED
      BY <1>0, <3>1 DEF Buffer
  <2>5. GoodBut(c, O)
    BY <1>0, <2>3, <2>4 DEF GoodBut, Sized, AheadBut
  <2> HIDE DEF c
  <2>6. CASE ~MayDrop(c, depth)
    <3>1. CatchUp(b) = c
      BY <2>1, <2>6
    <3>2. Reserve(c) >= Reserve(b)
      BY <1>0, <2>4 DEF Reserve
    <3>. QED
      BY <2>4, <2>5, <3>1, <3>2
  <2>7. CASE MayDrop(c, depth)
    <3>1. /\ d \in Buffer /\ d.frames = b.frames \ {c.next} /\ d.playing = b.playing
          /\ d.next = c.next + 1 /\ d.next \in Nat
      <4>1. c.frames \ {c.next} \in SUBSET Frames /\ c.next + 1 \in Nat /\ 0 \in 0 .. Interval
        BY <1>0, <2>4
      <4>. QED
        BY <2>4, <4>1 DEF Buffer
    <3> HIDE DEF d
    <3>2. depth \in Int /\ depth - 1 \in Int
      BY <2>2, <2>3
    <3>3. d.frames \in SUBSET Nat /\ \A f \in d.frames : f >= b.next => f >= d.next
      BY <1>0, <2>3, <2>4, <3>1
    <3>4. j \in Nat /\ \A f \in d.frames : f >= d.next => f >= d.next + j
      <4> HIDE DEF depth
      <4>. QED
        BY <3>1, <3>2, <3>3, SkippedAreEmpty
    <3> DEFINE e == [d EXCEPT !.next = d.next + j]
    <3>5. CatchUp(b) = e
      BY <2>1, <2>7
    <3> HIDE DEF j
    <3>6. /\ e \in Buffer /\ e.frames = b.frames \ {c.next} /\ e.playing = b.playing
          /\ e.next = d.next + j
      <4>1. d.next + j \in Nat
        BY <3>1, <3>4
      <4>. QED
        BY <3>1, <4>1 DEF Buffer
    <3> HIDE DEF e
    <3>7. /\ Cardinality(b.frames \ {c.next}) \in Nat
          /\ Cardinality(b.frames \ {c.next}) <= Cardinality(b.frames)
          /\ Cardinality(b.frames \ {c.next}) >= Cardinality(b.frames) - 1
      BY <1>0, OneLess
    <3>8. Cardinality(b.frames) > Target
      <4> HIDE DEF depth
      <4>1. depth - Cardinality(b.frames) < depth - Target
        BY <2>4, <2>7 DEF MayDrop
      <4>. QED
        BY <1>0, <3>2, <4>1
    <3>9. GoodBut(e, O)
      <4>1. AheadBut(e, O)
        BY <3>1, <3>3, <3>4, <3>6 DEF GoodBut, AheadBut
      <4>. QED
        BY <1>0, <3>6, <3>7, <4>1 DEF GoodBut, Sized
    <3>10. Reserve(e) >= Target
      BY <1>0, <3>6, <3>7, <3>8 DEF Reserve
    <3>. QED
      BY <3>5, <3>6, <3>9, <3>10
  <2>. QED
    BY <2>6, <2>7
<1>. QED
  BY <1>1, <1>2

\* So it is if none was overtaken.
LEMMA CatchUpGood ==
    ASSUME NEW b, Good(b), b.playing
    PROVE  LET c == CatchUp(b) IN
           /\ Good(c) /\ c.playing
           /\ Reserve(c) >= Reserve(b) \/ Reserve(c) >= Target
BY GoodIs, CatchUpGoodBut

\* Playback begins with the oldest frame, so with none behind.
LEMMA AlignsGood ==
    ASSUME NEW b, Sized(b), b.frames # {}, NEW on \in BOOLEAN
    PROVE  LET c == [b EXCEPT !.playing = on, !.next = Min(b.frames)] IN
           /\ GoodBut(c, {}) /\ c.playing = on /\ c.frames = b.frames
           /\ c.next = Min(b.frames) /\ c.next \in b.frames /\ c.since_drop = b.since_drop
           /\ c.catching_up = b.catching_up
<1> DEFINE c == [b EXCEPT !.playing = on, !.next = Min(b.frames)]
<1>0. b \in Buffer /\ b.frames \in SUBSET Nat /\ Cardinality(b.frames) <= Capacity
  BY FieldsOf
<1>1. Min(b.frames) \in b.frames /\ \A f \in b.frames : Min(b.frames) <= f
  BY <1>0, MinIsLeast
<1>2. /\ c \in Buffer /\ c.frames = b.frames /\ c.playing = on /\ c.next = Min(b.frames)
      /\ c.since_drop = b.since_drop /\ c.catching_up = b.catching_up
  BY <1>0, <1>1 DEF Buffer
<1> HIDE DEF c
<1>3. GoodBut(c, {})
  BY <1>0, <1>1, <1>2 DEF GoodBut, Sized, AheadBut
<1>. QED
  BY <1>1, <1>2, <1>3 DEF c

\* What Take does to each field.
LEMMA TakeFields ==
    ASSUME NEW t, t \in Buffer
    PROVE  /\ Take(t).frames = t.frames \ {t.next} /\ Take(t).next = t.next + 1
           /\ Take(t).playing = t.playing /\ Take(t).catching_up = t.catching_up
           /\ Take(t).since_drop = IF t.since_drop < Interval THEN t.since_drop + 1
                                                              ELSE t.since_drop
BY DEF Take, Buffer

\* One frame is taken, or its slot passed.
LEMMA TakeGoodBut ==
    ASSUME NEW O, NEW t, GoodBut(t, O)
    PROVE  /\ GoodBut(Take(t), O) /\ Take(t).since_drop \in 1 .. Interval
           /\ Reserve(Take(t)) >= Reserve(t) - 1
<1> USE SizeAssumption
<1> DEFINE u == Take(t)
           since == IF t.since_drop < Interval THEN t.since_drop + 1 ELSE t.since_drop
<1>1. /\ t \in Buffer /\ t.frames \in SUBSET Frames /\ t.frames \in SUBSET Nat
      /\ t.next \in Nat /\ t.since_drop \in 0 .. Interval
      /\ IsFiniteSet(t.frames) /\ Cardinality(t.frames) \in Nat
      /\ Cardinality(t.frames) <= Capacity
  BY FieldsOf DEF GoodBut
<1>2. /\ since \in 1 .. Interval /\ since \in 0 .. Interval /\ t.next + 1 \in Nat
      /\ t.frames \ {t.next} \in SUBSET Frames
  BY <1>1
<1>3. u = [t EXCEPT !.frames = t.frames \ {t.next}, !.next = t.next + 1, !.since_drop = since]
  BY DEF Take
<1> HIDE DEF since
<1>4. /\ u \in Buffer /\ u.frames = t.frames \ {t.next} /\ u.next = t.next + 1
      /\ u.playing = t.playing /\ u.since_drop = since
  BY <1>1, <1>2, <1>3 DEF Buffer
<1> HIDE DEF u
<1>5. /\ Cardinality(u.frames) \in Nat
      /\ Cardinality(u.frames) <= Cardinality(t.frames)
      /\ Cardinality(u.frames) >= Cardinality(t.frames) - 1
  BY <1>1, <1>4, OneLess
<1>6. AheadBut(u, O)
  BY <1>1, <1>4 DEF GoodBut, AheadBut
<1>. QED
  BY <1>1, <1>2, <1>4, <1>5, <1>6 DEF GoodBut, Sized, Reserve, u

\* One frame is taken, or its slot passed, and playback starts with the oldest.
LEMMA PopGoodBut ==
    ASSUME NEW O, NEW b, GoodBut(b, O)
    PROVE  /\ GoodBut(Pop(b), O)
           /\ Pop(b).playing /\ Reserve(b) >= Target => Reserve(Pop(b)) >= Target - 1
           /\ Pop(b).playing /\ ~b.playing => Reserve(b) >= Target
           /\ Pop(b).frames \subseteq b.frames
           /\ b.since_drop >= 1 => Pop(b).since_drop >= 1
<1> USE SizeAssumption
<1>0. /\ b \in Buffer /\ b.frames \in SUBSET Nat /\ Cardinality(b.frames) \in Nat /\ Sized(b)
      /\ Cardinality(b.frames) <= Capacity
  BY FieldsOf DEF GoodBut
<1>1. CASE Underrun(b)
  <2>1. Pop(b) = [b EXCEPT !.playing = FALSE]
    BY <1>1 DEF Pop
  <2>2. Pop(b) \in Buffer /\ Pop(b).frames = b.frames /\ Pop(b).playing = FALSE
        /\ Pop(b).since_drop = b.since_drop
    BY <1>0, <2>1 DEF Buffer
  <2>. QED
    BY <1>0, <2>2 DEF GoodBut, Sized, AheadBut
<1>2. CASE ~Underrun(b) /\ Filling(b)
  <2>1. Pop(b) = b
    BY <1>2 DEF Pop
  <2>. QED
    BY <1>0, <1>2, <2>1 DEF Filling
<1>3. CASE ~Underrun(b) /\ ~Filling(b)
  <2> DEFINE p == Playing(b)
             t == CatchUp(p)
  <2>1. GoodBut(p, O) /\ p.frames = b.frames
    <3>1. CASE b.playing
      BY <3>1 DEF Playing
    <3>2. CASE ~b.playing
      <4>1. Cardinality(b.frames) >= Target
        BY <1>0, <1>3, <3>2 DEF Filling
      <4>2. b.frames # {}
        BY <1>0, <4>1, FS_EmptySet
      <4>3. p = [b EXCEPT !.playing = TRUE, !.next = Min(b.frames)]
        BY <3>2 DEF Playing
      <4>4. GoodBut(p, {}) /\ p.frames = b.frames
        BY <1>0, <4>2, <4>3, AlignsGood
      <4> HIDE DEF p
      <4>. QED
        BY <4>4 DEF GoodBut, AheadBut
    <3>. QED
      BY <3>1, <3>2
  <2>2. GoodBut(t, O) /\ t.frames \subseteq b.frames /\ (Reserve(t) >= Reserve(b) \/ Reserve(t) >= Target)
    <3> HIDE DEF p
    <3>1. Reserve(p) = Reserve(b)
      BY <2>1 DEF Reserve
    <3>. QED
      BY <2>1, <3>1, CatchUpGoodBut
  <2>3. Pop(b) = Take(t)
    BY <1>3 DEF Pop, AtTurn
  <2> HIDE DEF p, t
  <2>4. /\ GoodBut(Take(t), O) /\ Reserve(Take(t)) >= Reserve(t) - 1
        /\ Take(t).frames \subseteq t.frames /\ Take(t).since_drop >= 1
    BY <2>2, TakeGoodBut, TakeFields, FieldsOf DEF GoodBut
  <2>5. Reserve(t) \in Nat /\ Reserve(b) \in Nat /\ Reserve(Take(t)) \in Nat
    BY <1>0, <2>2, <2>4, FieldsOf DEF GoodBut, Reserve
  <2>6. ~b.playing => Reserve(b) >= Target
    BY <1>0, <1>3 DEF Filling, Reserve
  <2>. QED
    BY <2>2, <2>3, <2>4, <2>5, <2>6
<1>. QED
  BY <1>1, <1>2, <1>3

\* So it is if none was overtaken.
LEMMA PopGood ==
    ASSUME NEW b, Good(b)
    PROVE  /\ Good(Pop(b))
           /\ Pop(b).playing /\ Reserve(b) >= Target => Reserve(Pop(b)) >= Target - 1
           /\ Pop(b).playing /\ ~b.playing => Reserve(b) >= Target
BY GoodIs, PopGoodBut

-------------------------------------------------------------------------------
(* The theorems *)

\* The buffer is sized, and behind are only frames that were overtaken, from the
\* moment playback is aligned.  What push has let through was not late then, and
\* a pop that starts or comes to a slot has frames.  The speaker numbers its
\* frames one after the other, one for each period.
Inv ==
    /\ Sized(buf)
    /\ popping # "start" => AheadBut(buf, overtaken)
    /\ popping \in {"no", "start", "turn", "take"}
    /\ popping \in {"start", "turn"} => buf.frames # {}
    /\ pushing \subseteq Judged /\ \A p, q \in pushing : p = q
    /\ \A p \in pushing : p.turn <= p.frame
    /\ overtaken \subseteq Frames
    /\ calm \in 0 .. Calm
    /\ sent \in Nat /\ sent <= Storm + calm
    /\ flight \subseteq Frames

\* push refuses what is late, starts anew, or lets a frame through whose turn
\* has not come.
LEMMA ArriveKeeps ==
    ASSUME Inv, NEW s \in flight, Arrive(s)
    PROVE  Inv'
<1> USE DEF Inv
<1>1. s \in Frames /\ flight' \subseteq Frames
  BY DEF Arrive
<1>2. /\ UNCHANGED <<sent, popping, calm>>
      /\ buf.next \in Nat /\ s \in Nat
  BY <1>1, FieldsOf, BoundAssumption DEF Arrive, Frames
<1>3. CASE FarFrom(buf, s) /\ buf' = Restarted(buf, s) /\ overtaken' = {} /\ UNCHANGED pushing
  <2> DEFINE r == Restarted(buf, s)
  <2>1. Sized(r) /\ r.frames = {s} /\ r.playing = FALSE
    BY <1>1, RestartedFields, FieldsOf
  <2> HIDE DEF r
  <2>2. buf' = r
    BY <1>3 DEF r
  <2>3. Sized(buf') /\ buf'.frames # {} /\ buf'.playing = FALSE
    BY <2>1, <2>2
  <2>. QED
    BY <1>1, <1>2, <1>3, <2>3 DEF AheadBut
<1>4. CASE UNCHANGED <<buf, overtaken, pushing>>
  BY <1>1, <1>2, <1>4
<1>5. CASE /\ ~FarFrom(buf, s) /\ ~Late(buf, s)
           /\ pushing' = {[frame |-> s, turn |-> IF buf.playing THEN buf.next ELSE 0]}
           /\ UNCHANGED <<buf, overtaken>>
  <2> DEFINE p == [frame |-> s, turn |-> IF buf.playing THEN buf.next ELSE 0]
  <2>1. p \in Judged /\ p.turn <= p.frame
    BY <1>1, <1>2, <1>5 DEF Judged, Late
  <2> HIDE DEF p
  <2>2. pushing' = {p}
    BY <1>5 DEF p
  <2>. QED
    BY <1>1, <1>2, <1>5, <2>1, <2>2
<1>. QED
  BY <1>3, <1>4, <1>5 DEF Arrive

\* A frame that is behind when it is stored was overtaken.
LEMMA StoreKeeps ==
    ASSUME Inv, Store
    PROVE  Inv'
<1> USE DEF Inv
<1>1. PICK p \in pushing :
        /\ pushing' = {}
        /\ IF p.frame \in buf.frames \/ Full(buf) THEN UNCHANGED <<buf, overtaken>>
           ELSE /\ buf' = [buf EXCEPT !.frames = @ \cup {p.frame}]
                /\ overtaken' = IF /\ buf.playing /\ popping # "start"
                                   /\ p.turn <= p.frame /\ p.frame < buf.next
                                THEN overtaken \cup {p.frame} ELSE overtaken
        /\ UNCHANGED <<network, popping, calm>>
  BY DEF Store
<1>2. p.frame \in Frames /\ p.frame \in Nat /\ p.turn <= p.frame /\ buf.next \in Nat
      /\ buf.frames \in SUBSET Nat
  BY FieldsOf, BoundAssumption DEF Judged, Frames
<1>3. UNCHANGED <<sent, flight, popping, calm>>
  BY <1>1 DEF network
<1>4. CASE p.frame \in buf.frames \/ Full(buf)
  BY <1>1, <1>3, <1>4
<1>5. CASE ~(p.frame \in buf.frames \/ Full(buf))
  <2>1. /\ Sized(buf') /\ buf'.frames = buf.frames \cup {p.frame}
        /\ buf'.playing = buf.playing /\ buf'.next = buf.next
    <3> DEFINE f == p.frame
               c == [buf EXCEPT !.frames = @ \cup {f}]
    <3>1. f \in Frames /\ ~(f \in buf.frames) /\ ~Full(buf) /\ buf' = c
      BY <1>1, <1>2, <1>5
    <3> HIDE DEF f
    <3>2. /\ Sized(c) /\ c.frames = buf.frames \cup {f}
          /\ c.playing = buf.playing /\ c.next = buf.next
      BY <3>1, StoredFields
    <3> HIDE DEF c
    <3>. QED
      BY <3>1, <3>2 DEF f
  <2>2. /\ overtaken \subseteq overtaken' /\ overtaken' \subseteq Frames
        /\ buf.playing /\ popping # "start" => p.frame >= buf.next \/ p.frame \in overtaken'
    BY <1>1, <1>2, <1>5
  <2>3. popping # "start" => AheadBut(buf', overtaken')
    BY <2>1, <2>2 DEF AheadBut
  <2>. QED
    BY <1>1, <1>3, <2>1, <2>2, <2>3
<1>. QED
  BY <1>4, <1>5

\* A pop that begins leaves the frames as they are.
LEMMA ListenKeeps ==
    ASSUME Inv, Listen
    PROVE  Inv'
<1> USE SizeAssumption DEF Inv
<1>1. UNCHANGED <<sent, flight, pushing, overtaken, calm>> /\ popping = "no"
  BY DEF Listen, network
<1>2. buf \in Buffer /\ Cardinality(buf.frames) \in Nat
  BY FieldsOf
<1>3. CASE Underrun(buf) /\ buf' = [buf EXCEPT !.playing = FALSE] /\ UNCHANGED popping
  <2>1. buf' \in Buffer /\ buf'.frames = buf.frames /\ buf'.playing = FALSE
    BY <1>2, <1>3 DEF Buffer
  <2>. QED
    BY <1>1, <1>3, <2>1 DEF Sized, AheadBut
<1>4. CASE UNCHANGED <<buf, popping>>
  BY <1>1, <1>4
<1>5. CASE buf.playing /\ ~Underrun(buf) /\ popping' = "turn" /\ UNCHANGED buf
  BY <1>1, <1>5 DEF Underrun
<1>6. CASE /\ ~buf.playing /\ ~Filling(buf)
           /\ popping' = "start" /\ buf' = [buf EXCEPT !.playing = TRUE]
  <2>1. buf.frames # {}
    BY <1>2, <1>6, FS_EmptySet DEF Filling
  <2>2. buf' \in Buffer /\ buf'.frames = buf.frames
    BY <1>2, <1>6 DEF Buffer
  <2>. QED
    BY <1>1, <1>6, <2>1, <2>2 DEF Sized
<1>. QED
  BY <1>3, <1>4, <1>5, <1>6 DEF Listen

\* The other steps of a pop, and a calm period.
LEMMA PopKeeps ==
    ASSUME Inv, Align \/ Turn \/ TakeOne \/ Period
    PROVE  Inv'
<1> USE DEF Inv
<1>1. CASE Align
  <2>1. /\ popping' = "turn" /\ UNCHANGED <<sent, flight, pushing, overtaken, calm>>
        /\ buf.frames # {} /\ buf.playing \in BOOLEAN /\ buf \in Buffer
    BY <1>1, FieldsOf DEF Align, network
  <2>2. buf' = [buf EXCEPT !.playing = buf.playing, !.next = Min(buf.frames)]
    BY <1>1, <2>1 DEF Align, Buffer
  <2>3. GoodBut(buf', {}) /\ buf'.frames = buf.frames
    BY <2>1, <2>2, AlignsGood
  <2>. QED
    BY <2>1, <2>3 DEF GoodBut, AheadBut
<1>2. CASE Turn
  <2>1. /\ popping = "turn" /\ popping' = "take" /\ buf' = CatchUp(buf)
        /\ UNCHANGED <<sent, flight, pushing, overtaken, calm>>
    BY <1>2 DEF Turn, network
  <2>2. GoodBut(buf', overtaken)
    BY <2>1, CatchUpGoodBut DEF GoodBut
  <2>. QED
    BY <2>1, <2>2 DEF GoodBut
<1>3. CASE TakeOne
  <2>1. /\ popping = "take" /\ popping' = "no" /\ buf' = Take(buf)
        /\ UNCHANGED <<sent, flight, pushing, overtaken, calm>>
    BY <1>3 DEF TakeOne, network
  <2>2. GoodBut(buf', overtaken)
    BY <2>1, TakeGoodBut DEF GoodBut
  <2>. QED
    BY <2>1, <2>2 DEF GoodBut
<1>4. CASE Period
  <2>1. /\ sent \in Frames /\ sent' = sent + 1 /\ calm' = calm + 1 /\ calm < Calm
        /\ buf' = Pop(Push(buf, sent)) /\ popping = "no"
        /\ UNCHANGED <<flight, pushing, popping>>
        /\ overtaken' = IF FarFrom(buf, sent) THEN {} ELSE overtaken
    BY <1>4, BoundAssumption DEF Period, Frames
  <2>2. GoodBut(buf', overtaken')
    BY <2>1, PushGoodBut, PopGoodBut DEF GoodBut
  <2>3. calm' \in 0 .. Calm /\ sent' \in Nat /\ sent' <= Storm + calm'
    BY <2>1, BoundAssumption
  <2>4. overtaken' \subseteq Frames
    BY <2>1
  <2> HIDE DEF GoodBut
  <2>. QED
    BY <2>1, <2>2, <2>3, <2>4 DEF GoodBut
<1>. QED
  BY <1>1, <1>2, <1>3, <1>4

\* Every step of the threads and of the network.
LEMMA InvStep == Inv /\ [Next]_vars => Inv'
<1> SUFFICES ASSUME Inv, [Next]_vars
             PROVE  Inv'
  OBVIOUS
<1> USE BoundAssumption DEF Inv
<1>1. CASE Send
  <2>1. /\ sent < Storm /\ sent' = sent + 1 /\ flight' = flight \cup {sent}
        /\ UNCHANGED <<buf, pushing, popping, overtaken, calm>>
    BY <1>1 DEF Send
  <2>2. sent \in Frames /\ calm \in Nat
    BY <2>1 DEF Frames
  <2>3. sent' \in Nat /\ sent' <= Storm + calm'
    BY <2>1, <2>2
  <2>. QED
    BY <2>1, <2>2, <2>3
<1>2. ASSUME NEW s \in flight, Arrive(s)
      PROVE  Inv'
  BY <1>2, ArriveKeeps
<1>3. ASSUME NEW s \in flight, Lose(s)
      PROVE  Inv'
  BY <1>3 DEF Lose
<1>4. CASE Store
  BY <1>4, StoreKeeps
<1>5. CASE Listen
  BY <1>5, ListenKeeps
<1>6. CASE Align \/ Turn \/ TakeOne \/ Period
  BY <1>6, PopKeeps
<1>7. CASE UNCHANGED vars
  BY <1>7 DEF vars, network
<1>. QED
  BY <1>1, <1>2, <1>3, <1>4, <1>5, <1>6, <1>7 DEF Next

\* The invariant holds of a new buffer and after every step.
LEMMA Invariant == Spec => []Inv
<1>1. Init => Inv
  <2>1. New \in Buffer /\ New.frames = {} /\ New.playing = FALSE
    BY SizeAssumption DEF New, Buffer
  <2>2. Cardinality({}) = 0
    BY FS_EmptySet
  <2>. QED
    BY <2>1, <2>2, SizeAssumption, BoundAssumption DEF Init, Inv, Sized, AheadBut
<1>. QED
  BY <1>1, InvStep, PTL DEF Spec

\* Types: the numbers of the slots stay natural, the pops since the last drop
\* within the interval, and push holds one frame at most.
THEOREM TypeCorrect == Spec => []TypeOK
<1>1. Inv => TypeOK
  BY BoundAssumption DEF Inv, Sized, TypeOK, Frames
<1>. QED
  BY <1>1, Invariant, PTL

\* push judges a frame on one thread while pop passes its slot on another, and
\* only such a frame is stuck in the buffer: skipping, dropping, aligning and
\* starting anew pass no frame they keep, at whatever point push comes between.
THEOREM OnlyOvertakenStayBehind == Spec => []OnlyOvertakenBehind
<1>1. Inv => OnlyOvertakenBehind
  BY DEF Inv, Sized, AheadBut, OnlyOvertakenBehind, Aligned
<1>. QED
  BY <1>1, Invariant, PTL

\* Catching up takes nothing from a reserve of the target, whatever holes are in
\* it and whatever push stores meanwhile; a pop takes the frame it plays.
THEOREM FullReserveIsKept == Spec => ReserveIsKept
<1>1. Inv /\ [Next]_vars => [ReserveKept]_vars
  <2> SUFFICES ASSUME Inv, Next, buf.playing, buf'.playing, Reserve(buf) >= Target
               PROVE  Reserve(buf)' >= Target - (IF popping = "turn" THEN 0 ELSE 1)
    BY DEF ReserveKept
  <2> USE SizeAssumption, BoundAssumption DEF Inv
  <2>0. Reserve(buf) \in Nat /\ buf \in Buffer
    BY FieldsOf DEF Reserve
  <2>1. SUFFICES Reserve(buf') >= Target - (IF popping = "turn" THEN 0 ELSE 1)
    BY DEF Reserve
  <2>2. ASSUME UNCHANGED buf
        PROVE  Reserve(buf') >= Target - (IF popping = "turn" THEN 0 ELSE 1)
    BY <2>0, <2>2
  <2>3. ASSUME NEW s \in flight, Arrive(s)
        PROVE  Reserve(buf') >= Target - (IF popping = "turn" THEN 0 ELSE 1)
    <3>1. CASE buf' = Restarted(buf, s)
      <4>1. s \in Frames
        OBVIOUS
      <4>2. buf'.playing = FALSE
        BY <2>0, <3>1, <4>1, RestartedFields
      <4>. QED
        BY <4>2
    <3>. QED
      BY <2>2, <2>3, <3>1 DEF Arrive
  <2>4. CASE Store
    <3>1. PICK p \in pushing :
            \/ UNCHANGED buf
            \/ /\ ~(p.frame \in buf.frames) /\ ~Full(buf)
               /\ buf' = [buf EXCEPT !.frames = @ \cup {p.frame}]
      BY <2>4 DEF Store
    <3>2. p.frame \in Frames
      BY DEF Judged
    <3>3. CASE ~(UNCHANGED buf)
      <4>1. Reserve(buf') = Reserve(buf) + 1
        BY <3>1, <3>2, <3>3, StoredFields
      <4>. QED
        BY <2>0, <4>1
    <3>. QED
      BY <2>2, <3>3
  <2>5. CASE Listen \/ Align
    <3>1. Reserve(buf') = Reserve(buf)
      <4>1. buf'.frames = buf.frames
        BY <2>0, <2>5 DEF Listen, Align, Buffer
      <4>. QED
        BY <4>1 DEF Reserve
    <3>. QED
      BY <2>0, <3>1
  <2>6. CASE Turn
    <3>1. buf' = CatchUp(buf) /\ GoodBut(buf, overtaken)
      BY <2>6 DEF Turn, GoodBut
    <3>2. GoodBut(buf', overtaken) /\ (Reserve(buf') >= Reserve(buf) \/ Reserve(buf') >= Target)
      BY <3>1, CatchUpGoodBut
    <3>3. Reserve(buf') \in Nat
      BY <3>2, FieldsOf DEF GoodBut, Reserve
    <3>. QED
      BY <2>0, <3>2, <3>3
  <2>7. CASE TakeOne
    <3>1. buf' = Take(buf) /\ GoodBut(buf, overtaken) /\ popping # "turn"
      BY <2>7 DEF TakeOne, GoodBut
    <3>2. GoodBut(buf', overtaken) /\ Reserve(buf') >= Reserve(buf) - 1
      BY <3>1, TakeGoodBut
    <3>3. Reserve(buf') \in Nat
      BY <3>2, FieldsOf DEF GoodBut, Reserve
    <3>. QED
      BY <2>0, <3>1, <3>2, <3>3
  <2>8. CASE Period
    <3> DEFINE b == Push(buf, sent)
    <3>1. sent \in Frames /\ buf' = Pop(b) /\ GoodBut(buf, overtaken) /\ popping # "turn"
      BY <2>8 DEF Period, Frames, GoodBut
    <3>2. GoodBut(b, overtaken) /\ (b.playing => Reserve(b) >= Reserve(buf))
      BY <3>1, PushGoodBut
    <3> HIDE DEF b
    <3>3. Reserve(b) \in Nat
      BY <3>2, FieldsOf DEF GoodBut, Reserve
    <3>4. Reserve(b) >= Target
      <4>1. CASE b.playing
        BY <2>0, <3>2, <3>3, <4>1
      <4>2. CASE ~b.playing
        <5>1. Pop(b).playing
          BY <3>1
        <5>. QED
          BY <3>2, <4>2, <5>1, PopGoodBut
      <4>. QED
        BY <4>1, <4>2
    <3>5. Reserve(Pop(b)) >= Target - 1
      BY <3>1, <3>2, <3>4, PopGoodBut
    <3>. QED
      BY <3>1, <3>5
  <2>9. CASE Send \/ \E s \in flight : Lose(s)
    BY <2>2, <2>9 DEF Send, Lose
  <2>. QED
    BY <2>3, <2>4, <2>5, <2>6, <2>7, <2>8, <2>9 DEF Next
<1>. QED
  BY <1>1, Invariant, PTL DEF Spec, ReserveIsKept

-------------------------------------------------------------------------------
(* What one pop melts *)

\* Fewer frames than the target find room in the target's slots but the first.
LEMMA FewerThanSlots ==
    ASSUME NEW S, NEW a \in Nat, NEW d \in Nat,
           \A f \in S : f \in Nat /\ f > a /\ f < a + d
    PROVE  d > 0 => Cardinality(S) < d
<1>1. SUFFICES ASSUME d > 0 PROVE Cardinality(S) < d
  OBVIOUS
<1>2. /\ IsFiniteSet(a + 1 .. a + d - 1)
      /\ Cardinality(a + 1 .. a + d - 1) = d - 1
  <2>1. a + 1 \in Int /\ a + d - 1 \in Int
    OBVIOUS
  <2>. QED
    BY <1>1, <2>1, FS_Interval
<1>3. S \in SUBSET (a + 1 .. a + d - 1)
  OBVIOUS
<1>4. Cardinality(S) <= d - 1 /\ Cardinality(S) \in Nat
  BY <1>2, <1>3, FS_Subset, FS_CardinalityType
<1>. QED
  BY <1>4

\* As many frames as slots at most.
LEMMA AtMostSlots ==
    ASSUME NEW S, NEW a \in Nat, NEW d \in Nat,
           \A f \in S : f \in Nat /\ f >= a /\ f < a + d
    PROVE  Cardinality(S) <= d
<1>1. /\ IsFiniteSet(a .. a + d - 1)
      /\ Cardinality(a .. a + d - 1) = d
  <2>1. a \in Int /\ a + d - 1 \in Int
    OBVIOUS
  <2>. QED
    BY <2>1, FS_Interval
<1>2. S \in SUBSET (a .. a + d - 1)
  OBVIOUS
<1>. QED
  BY <1>1, <1>2, FS_Subset

\* _skip_missing_head stops at a frame or at the target, and not before.
LEMMA SkippedStops ==
    ASSUME NEW b, b.frames \in SUBSET Nat, b.next \in Nat, NEW depth \in Nat,
           \A f \in b.frames : f >= b.next /\ f < b.next + depth
    PROVE  LET k == Skipped(b, depth) IN
           /\ depth <= Target => k = 0
           /\ depth > Target => k <= depth - Target
           /\ depth - k > Target => b.next + k \in b.frames
<1> USE SizeAssumption
<1>1. CASE depth <= Target
  BY <1>1 DEF Skipped
<1>2. CASE ~(depth <= Target)
  <2> DEFINE S == {k \in 0 .. depth : b.next + k \in b.frames \/ depth - k <= Target}
             m == Min(S)
  <2>1. Skipped(b, depth) = m
    BY <1>2 DEF Skipped
  <2>2. S \in SUBSET Nat
    OBVIOUS
  <2>3. depth - Target \in S
    BY <1>2
  <2>4. m \in S /\ \A k \in S : m <= k
    <3> HIDE DEF S
    <3>. QED
      BY <2>2, <2>3, MinIsLeast
  <2>5. m \in 0 .. depth /\ (b.next + m \in b.frames \/ depth - m <= Target)
    BY <2>4
  <2>6. m <= depth - Target
    BY <2>3, <2>4
  <2> HIDE DEF m, S
  <2>. QED
    BY <1>2, <2>1, <2>5, <2>6
<1>. QED
  BY <1>1, <1>2

\* A buffer that catches up comes to a slot with a frame, or to one with less
\* than the target of frames behind it; it drops a frame if more than the target
\* are there and the last drop is Interval pops ago, and then one.
LEMMA CatchUpDrops ==
    ASSUME NEW b, Good(b), b.playing, CatchingUp(b)
    PROVE  LET t == CatchUp(b) IN
           /\ t.frames \subseteq b.frames /\ b.next <= t.next
           /\ t.next + 1 <= b.next + Depth(b)
           /\ \A f \in b.frames : f >= t.next => f \in t.frames
           /\ t.next \in t.frames \/ Reserve(t) < Target
           /\ \/ /\ t.since_drop = b.since_drop /\ Reserve(t) = Reserve(b)
                 /\ b.since_drop < Interval \/ Reserve(t) <= Target
              \/ /\ t.since_drop = 0 /\ Reserve(t) = Reserve(b) - 1
                 /\ b.since_drop = Interval
<1> USE SizeAssumption, BoundAssumption
<1>0. /\ b \in Buffer /\ b.frames \in SUBSET Frames /\ b.next \in Nat /\ b.frames \in SUBSET Nat
      /\ IsFiniteSet(b.frames) /\ Cardinality(b.frames) \in Nat /\ b.since_drop \in 0 .. Interval
  BY FramesFinite DEF Good, Buffer, Frames
<1> DEFINE all == Depth(b)
           k == Skipped(b, all)
           depth == all - k
           c == [b EXCEPT !.catching_up = TRUE, !.next = b.next + k]
           d == [c EXCEPT !.frames = c.frames \ {c.next}, !.next = c.next + 1, !.since_drop = 0]
           j == Skipped(d, depth - 1)
           t == CatchUp(b)
<1>1. t = IF MayDrop(c, depth) THEN [d EXCEPT !.next = d.next + j] ELSE c
  BY DEF CatchUp
<1>2. all \in Nat /\ \A f \in b.frames : f >= b.next /\ f < b.next + all
  BY DepthSpans
<1>3. all > Target
  BY <1>2 DEF CatchingUp
<1>4. /\ k \in 0 .. all /\ \A f \in b.frames : f >= b.next + k
      /\ k <= all - Target
      /\ depth > Target => b.next + k \in b.frames
  BY <1>0, <1>2, <1>3, SkippedAreEmpty, SkippedStops
<1> HIDE DEF all, k, t
<1>5. /\ c.frames = b.frames /\ c.next = b.next + k /\ c.next \in Nat
      /\ c.since_drop = b.since_drop /\ c \in Buffer
  <2>1. b.next + k \in Nat
    BY <1>0, <1>2, <1>4
  <2>. QED
    BY <1>0, <2>1 DEF Buffer
<1>6. depth \in Nat /\ depth >= Target /\ c.next + depth = b.next + all
  BY <1>0, <1>2, <1>3, <1>4, <1>5
<1>7. \A f \in b.frames : f \in Nat /\ f >= c.next /\ f < c.next + depth
  BY <1>0, <1>2, <1>4, <1>5, <1>6
<1> HIDE DEF c, depth
<1>8. Cardinality(b.frames) <= depth
  BY <1>5, <1>6, <1>7, AtMostSlots
<1>9. CASE ~MayDrop(c, depth)
  <2>1. t = c
    BY <1>1, <1>9
  <2>2. t.next \in t.frames \/ Reserve(t) < Target
    <3>1. CASE depth > Target
      BY <1>4, <1>5, <2>1, <3>1 DEF depth
    <3>2. CASE depth = Target /\ ~(c.next \in c.frames)
      <4>1. \A f \in b.frames : f \in Nat /\ f > c.next /\ f < c.next + depth
        BY <1>5, <1>7, <3>2
      <4>2. Cardinality(b.frames) < depth
        BY <1>5, <1>6, <3>2, <4>1, FewerThanSlots
      <4>. QED
        BY <1>5, <2>1, <3>2, <4>2 DEF Reserve
    <3>. QED
      BY <1>6, <2>1, <3>1, <3>2
  <2>3. b.since_drop < Interval \/ Cardinality(b.frames) <= Target
    BY <1>0, <1>5, <1>6, <1>8, <1>9 DEF MayDrop
  <2>4. b.next <= c.next /\ c.next + 1 <= b.next + all
    BY <1>0, <1>2, <1>4, <1>5, <1>6
  <2>. QED
    BY <1>0, <1>5, <2>1, <2>2, <2>3, <2>4 DEF Reserve, t, all
<1>10. CASE MayDrop(c, depth)
  <2>1. /\ depth > Target /\ Cardinality(b.frames) > Target /\ b.since_drop = Interval
        /\ c.next \in b.frames
    <3>1. depth > Target /\ b.since_drop = Interval
      BY <1>0, <1>5, <1>10 DEF MayDrop
    <3>2. Cardinality(b.frames) > Target
      BY <1>0, <1>5, <1>6, <1>10 DEF MayDrop
    <3>. QED
      BY <1>4, <1>5, <3>1, <3>2 DEF depth
  <2>2. d.frames = b.frames \ {c.next} /\ d.next = c.next + 1 /\ d.since_drop = 0 /\ d \in Buffer
    <3>1. b.frames \ {c.next} \in SUBSET Frames /\ c.next + 1 \in Nat /\ 0 \in 0 .. Interval
      BY <1>0, <1>5
    <3>. QED
      BY <1>5, <3>1 DEF Buffer
  <2> HIDE DEF d
  <2>3. /\ d.frames \in SUBSET Nat /\ d.next \in Nat /\ depth - 1 \in Nat
        /\ \A f \in d.frames : f \in Nat /\ f >= d.next /\ f < d.next + (depth - 1)
    BY <1>0, <1>5, <1>6, <1>7, <2>1, <2>2
  <2>4. /\ j \in 0 .. depth - 1
        /\ depth - 1 <= Target => j = 0
        /\ depth - 1 > Target => j <= depth - 1 - Target
        /\ depth - 1 - j > Target => d.next + j \in d.frames
        /\ \A f \in d.frames : f >= d.next + j
    <3> DEFINE e == depth - 1
    <3>1. e \in Nat /\ \A f \in d.frames : f >= d.next /\ f < d.next + e
      BY <2>3
    <3>2. j = Skipped(d, e)
      OBVIOUS
    <3> HIDE DEF e, j
    <3>3. /\ j \in 0 .. e
          /\ e <= Target => j = 0
          /\ e > Target => j <= e - Target
          /\ e - j > Target => d.next + j \in d.frames
          /\ \A f \in d.frames : f >= d.next + j
      BY <2>3, <3>1, <3>2, SkippedAreEmpty, SkippedStops
    <3>. QED
      BY <3>3 DEF e
  <2> HIDE DEF j
  <2>5. t = [d EXCEPT !.next = d.next + j]
    BY <1>1, <1>10
  <2>6. /\ t.frames = b.frames \ {c.next} /\ t.next = c.next + 1 + j /\ t.since_drop = 0
    BY <2>2, <2>5 DEF Buffer
  <2>7. Cardinality(t.frames) = Cardinality(b.frames) - 1
    <3>1. Cardinality(b.frames \ {c.next}) = Cardinality(b.frames) - 1
      <4> DEFINE S == b.frames
                 x == c.next
      <4>1. IsFiniteSet(S) /\ x \in S
        BY <1>0, <2>1
      <4> HIDE DEF S, x
      <4>2. Cardinality(S \ {x}) = Cardinality(S) - 1
        BY <4>1, FS_RemoveElement
      <4>. QED
        BY <4>2 DEF S, x
    <3>. QED
      BY <2>6, <3>1
  <2>8. t.next \in t.frames \/ Cardinality(t.frames) < Target
    <3>1. CASE depth - 1 - j > Target
      BY <2>2, <2>4, <2>6, <3>1
    <3>2. CASE ~(depth - 1 - j > Target) /\ ~(t.next \in t.frames)
      <4> DEFINE r == depth - 1 - j
      <4>1. r \in Nat /\ r = Target /\ t.next \in Nat
        BY <1>5, <1>6, <2>1, <2>4, <2>6, <3>2
      <4>2. \A f \in t.frames : f \in Nat /\ f > t.next /\ f < t.next + r
        <5>1. \A f \in t.frames : f \in d.frames /\ f # t.next
          BY <2>2, <2>6, <3>2
        <5>2. t.next = d.next + j /\ t.next + r = d.next + (depth - 1)
          BY <1>5, <1>6, <2>2, <2>3, <2>4, <2>6
        <5> HIDE DEF r
        <5>. QED
          BY <2>3, <2>4, <4>1, <5>1, <5>2
      <4> HIDE DEF r
      <4>. QED
        BY <4>1, <4>2, FewerThanSlots
    <3>. QED
      BY <3>1, <3>2
  <2>9. b.next <= t.next /\ t.next + 1 <= b.next + all
    <3>1. j + 2 <= depth
      BY <1>6, <2>1, <2>4
    <3>. QED
      BY <1>0, <1>2, <1>4, <1>5, <1>6, <2>4, <2>6, <3>1
  <2>10. \A f \in b.frames : f >= t.next => f \in t.frames
    BY <1>0, <1>5, <2>4, <2>6
  <2>. QED
    BY <2>1, <2>6, <2>7, <2>8, <2>9, <2>10 DEF Reserve, t, all
<1>. QED
  BY <1>9, <1>10

\* A pop of a buffer with frames enough takes from it as soon as it plays.
LEMMA PopTakes ==
    ASSUME NEW b, ~Underrun(b), ~Filling(b)
    PROVE  Pop(b) = Take(CatchUp(Playing(b)))
BY DEF Pop, Take, AtTurn

\* Playback starts at the oldest frame, and changes nothing else.
LEMMA PlayingStarts ==
    ASSUME NEW b, Good(b), ~Underrun(b), ~Filling(b)
    PROVE  LET p == Playing(b) IN
           /\ Good(p) /\ p.playing /\ p.frames = b.frames /\ p.frames # {}
           /\ p.catching_up = b.catching_up /\ p.since_drop = b.since_drop
           /\ b.playing => p = b
           /\ ~b.playing => p.next = Min(b.frames) /\ p.next \in b.frames
<1> USE SizeAssumption
<1>0. /\ b \in Buffer /\ b.frames \in SUBSET Frames /\ b.frames \in SUBSET Nat
      /\ Cardinality(b.frames) \in Nat
  BY FramesFinite, BoundAssumption DEF Good, Buffer, Frames
<1>1. CASE b.playing
  BY <1>1 DEF Playing, Underrun
<1>2. CASE ~b.playing
  <2>1. b.frames # {}
    BY <1>0, <1>2, FS_EmptySet DEF Filling
  <2>2. Min(b.frames) \in b.frames /\ \A f \in b.frames : Min(b.frames) <= f
    BY <1>0, <2>1, MinIsLeast
  <2> DEFINE p == Playing(b)
  <2>3. p = [b EXCEPT !.playing = TRUE, !.next = Min(b.frames)]
    BY <1>2 DEF Playing
  <2>4. /\ p \in Buffer /\ p.frames = b.frames /\ p.playing = TRUE /\ p.next = Min(b.frames)
        /\ p.catching_up = b.catching_up /\ p.since_drop = b.since_drop
    BY <1>0, <2>2, <2>3 DEF Buffer
  <2> HIDE DEF p
  <2>5. Good(p)
    BY <1>0, <2>2, <2>4 DEF Good, Ahead
  <2>. QED
    BY <1>2, <2>1, <2>2, <2>4, <2>5 DEF p
<1>. QED
  BY <1>1, <1>2

\* One pop that does not catch up.
LEMMA TakeKeeps ==
    ASSUME NEW b, Good(b), b.playing, ~CatchingUp(b)
    PROVE  LET u == Take(CatchUp(b)) IN
           /\ u.frames = b.frames \ {b.next} /\ u.next = b.next + 1
           /\ u.playing /\ ~u.catching_up
           /\ u.since_drop = IF b.since_drop < Interval THEN b.since_drop + 1 ELSE b.since_drop
<1> DEFINE t == CatchUp(b)
<1>1. t = [b EXCEPT !.catching_up = FALSE]
  BY DEF CatchUp
<1>2. /\ t \in Buffer /\ t.frames = b.frames /\ t.next = b.next /\ t.playing
      /\ ~t.catching_up /\ t.since_drop = b.since_drop
  BY <1>1 DEF Good, Buffer
<1> HIDE DEF t
<1>3. LET u == Take(t) IN
      /\ u.frames = b.frames \ {b.next} /\ u.next = b.next + 1
      /\ u.playing /\ ~u.catching_up
      /\ u.since_drop = IF b.since_drop < Interval THEN b.since_drop + 1 ELSE b.since_drop
  BY <1>2, TakeFields
<1>. QED
  BY <1>3 DEF t

\* One pop that catches up: a frame is played and another is dropped when that
\* is due, or fewer than the target are left.
LEMMA TakeMelts ==
    ASSUME NEW b, Good(b), b.playing, CatchingUp(b), b.since_drop >= 1
    PROVE  LET u == Take(CatchUp(b)) IN
           /\ u.playing /\ u.frames \subseteq b.frames
           /\ u.next > b.next /\ u.next <= b.next + Depth(b)
           /\ \A f \in b.frames : f >= u.next => f \in u.frames
           /\ \/ Reserve(u) < Target
              \/ /\ Reserve(u) = Reserve(b) - 1
                 /\ b.since_drop < Interval /\ u.since_drop = b.since_drop + 1
              \/ /\ Reserve(u) = Reserve(b) - 2
                 /\ b.since_drop = Interval /\ u.since_drop = 1
<1> USE SizeAssumption, BoundAssumption
<1> DEFINE t == CatchUp(b)
           u == Take(t)
<1>1. Good(t) /\ t.playing
  BY CatchUpGood
<1>2. /\ t.frames \subseteq b.frames /\ b.next <= t.next
      /\ t.next + 1 <= b.next + Depth(b)
      /\ \A f \in b.frames : f >= t.next => f \in t.frames
      /\ t.next \in t.frames \/ Reserve(t) < Target
      /\ \/ /\ t.since_drop = b.since_drop /\ Reserve(t) = Reserve(b)
            /\ b.since_drop < Interval \/ Reserve(t) <= Target
         \/ /\ t.since_drop = 0 /\ Reserve(t) = Reserve(b) - 1
            /\ b.since_drop = Interval
  BY CatchUpDrops
<1> HIDE DEF t
<1>3. /\ t \in Buffer /\ t.frames \in SUBSET Frames /\ t.next \in Nat
      /\ IsFiniteSet(t.frames) /\ Cardinality(t.frames) \in Nat
      /\ b.next \in Nat /\ b.frames \in SUBSET Nat /\ Cardinality(b.frames) \in Nat
      /\ b.since_drop \in 0 .. Interval /\ Depth(b) \in Nat
  BY <1>1, FramesFinite, DepthSpans DEF Good, Buffer, Frames
<1>4. /\ u.frames = t.frames \ {t.next} /\ u.next = t.next + 1 /\ u.playing = t.playing
      /\ u.since_drop = IF t.since_drop < Interval THEN t.since_drop + 1 ELSE t.since_drop
  BY <1>3, TakeFields
<1> HIDE DEF u
<1>5. /\ Cardinality(u.frames) \in Nat /\ Cardinality(u.frames) <= Cardinality(t.frames)
      /\ t.next \in t.frames => Cardinality(u.frames) = Cardinality(t.frames) - 1
  <2>1. /\ Cardinality(t.frames \ {t.next}) \in Nat
        /\ Cardinality(t.frames \ {t.next}) <= Cardinality(t.frames)
    BY <1>3, OneLess
  <2>2. t.next \in t.frames => Cardinality(t.frames \ {t.next}) = Cardinality(t.frames) - 1
    BY <1>3, FS_RemoveElement
  <2>. QED
    BY <1>4, <2>1, <2>2
<1>6. \A f \in b.frames : f >= u.next => f \in u.frames
  BY <1>2, <1>3, <1>4
<1>7. CASE ~(t.next \in t.frames) \/ Reserve(t) <= Target
  <2>1. Reserve(u) < Target
    BY <1>2, <1>3, <1>5, <1>7 DEF Reserve
  <2>. QED
    BY <1>1, <1>2, <1>3, <1>4, <1>6, <2>1 DEF u, t
<1>8. CASE t.next \in t.frames /\ ~(Reserve(t) <= Target)
  <2>1. Reserve(u) = Reserve(t) - 1
    BY <1>5, <1>8 DEF Reserve
  <2>2. \/ /\ Reserve(u) = Reserve(b) - 1
           /\ b.since_drop < Interval /\ u.since_drop = b.since_drop + 1
        \/ /\ Reserve(u) = Reserve(b) - 2
           /\ b.since_drop = Interval /\ u.since_drop = 1
    <3> HIDE DEF Reserve
    <3>1. Reserve(b) \in Nat
      BY <1>3 DEF Reserve
    <3>. QED
      BY <1>2, <1>3, <1>4, <1>8, <2>1, <3>1
  <2>. QED
    BY <1>1, <1>2, <1>3, <1>4, <1>6, <2>2 DEF u, t
<1>. QED
  BY <1>7, <1>8

\* The depth of a buffer that plays reaches to its newest frame.
LEMMA DepthReaches ==
    ASSUME NEW b, Good(b), b.playing, b.frames # {}, NEW m \in Nat, \A f \in b.frames : f < m
    PROVE  /\ b.next + Depth(b) <= m
           /\ m - 1 \in b.frames => b.next + Depth(b) = m
<1> DEFINE x == Max(b.frames)
<1>1. b.frames \in SUBSET Frames /\ b.next \in Nat
  BY DEF Good, Buffer
<1>2. x \in b.frames /\ \A f \in b.frames : f <= x
  BY <1>1, MaxIsGreatest
<1>3. Depth(b) = x + 1 - b.next
  BY DEF Depth
<1>4. x \in Nat
  BY <1>1, <1>2, BoundAssumption DEF Frames
<1> HIDE DEF x
<1>. QED
  BY <1>1, <1>2, <1>3, <1>4

-------------------------------------------------------------------------------
(* What a calm melts *)

\* The periods by which the last frame to drop is dropped, or the last empty slot
\* of the storm has come to the head.
Most == Max({Interval * (Capacity - Target), Capacity})

\* MeltTime is one period later.
LEMMA MostIs ==
    ASSUME Capacity > Target
    PROVE  /\ Most \in Nat /\ Most >= Capacity /\ Most >= Interval * (Capacity - Target)
           /\ MeltTime = Most + 1
<1> USE SizeAssumption
<1> DEFINE x == Interval * (Capacity - Target)
<1>1. x \in Nat /\ Capacity \in Nat
  OBVIOUS
<1> HIDE DEF x
<1>2. \E m \in {x, Capacity} : \A j \in {x, Capacity} : m >= j
  BY <1>1
<1>3. Max({x, Capacity}) \in {x, Capacity} /\ \A j \in {x, Capacity} : Max({x, Capacity}) >= j
  BY <1>2 DEF Max
<1>4. Most = Max({x, Capacity}) /\ MeltTime = Max({x, Capacity}) + 1
  BY DEF Most, MeltTime, x
<1>. QED
  BY <1>1, <1>3, <1>4 DEF x

\* How many pops it takes at most until, of n frames, fewer than the target are
\* left, when the last drop is sd pops ago.
Due(n, sd) == (Interval - sd) + Interval * (n - Target)

\* A full buffer can melt in time.
LEMMA DueInTime ==
    ASSUME Capacity > Target, NEW n \in Nat, n <= Capacity, n > Target
    PROVE  /\ \A sd \in 1 .. Interval : 1 + Due(n - 1, sd) <= Most
           /\ \A sd \in 1 .. Interval : sd > 1 \/ Interval = 1 => 2 + Due(n - 1, sd) <= Most
<1> USE SizeAssumption
<1> DEFINE x == Interval * (n - 1 - Target)
           y == Interval * (Capacity - Target)
<1>1. x \in Int /\ y \in Int /\ x + Interval <= y
  <2> DEFINE a == n - Target
             b == Capacity - Target
  <2>1. a \in Nat /\ b \in Nat /\ a <= b /\ n - 1 - Target = a - 1
    OBVIOUS
  <2> HIDE DEF a, b
  <2>2. Interval * (a - 1) + Interval <= Interval * b /\ Interval * (a - 1) \in Int /\ Interval * b \in Int
    BY <2>1
  <2>. QED
    BY <2>1, <2>2 DEF x, y, b
<1>2. \A sd \in 1 .. Interval : Due(n - 1, sd) = Interval - sd + x
  BY DEF Due
<1>3. Most >= y /\ Most >= Capacity /\ Most \in Nat
  BY MostIs
<1>4. Interval = 1 => x = n - 1 - Target
  OBVIOUS
<1> HIDE DEF x, y
<1>. QED
  BY <1>1, <1>2, <1>3, <1>4

-------------------------------------------------------------------------------
\* What a buffer of frames below m is between two calls.
Numbered(b, m) ==
    /\ \A f \in b.frames : f < m
    /\ b.playing => b.next <= m
    /\ b.since_drop >= 1

\* What it is after k calm periods, when m frames were sent.  It waits for the
\* target, with what the storm left or with an uninterrupted stream; or plays
\* with the delay it should have; or so far behind that it will start anew; or
\* it catches up: the slots sent in the calm are all filled, and what it has
\* above the target will be dropped in time.
Lag(b, m) == m - b.next
Gathering(b, m) == ~b.playing /\ Reserve(b) < Target /\ Storm .. m - 1 \subseteq b.frames
Anew(b, m) == /\ ~b.playing /\ ~b.catching_up /\ Reserve(b) < Target
              /\ b.frames = m - Reserve(b) .. m - 1
Even(b, m) == b.playing /\ ~b.catching_up /\ Lag(b, m) < Target + Slack
Far(b, m, k) == b.playing /\ Lag(b, m) > Capacity /\ k <= Target
Melting(b, m, k) ==
    /\ b.playing /\ Lag(b, m) <= Capacity /\ Reserve(b) < Capacity
    /\ \A f \in Storm + 1 .. m - 1 : f >= b.next => f \in b.frames
    /\ Reserve(b) >= Target => k + 1 + Due(Reserve(b), b.since_drop) <= Most
    /\ k <= Most
Calmed(b, m, k) == Gathering(b, m) \/ Anew(b, m) \/ Even(b, m) \/ Far(b, m, k) \/ Melting(b, m, k)

\* A pop leaves no number behind.
LEMMA NumberedPop ==
    ASSUME NEW b, Good(b), NEW m \in Nat, Numbered(b, m)
    PROVE  Numbered(Pop(b), m)
<1> USE SizeAssumption
<1>0. b \in Buffer /\ b.frames \in SUBSET Nat /\ b.next \in Nat /\ b.since_drop \in 1 .. Interval
  BY BoundAssumption DEF Good, Buffer, Frames, Numbered
<1>1. CASE Underrun(b)
  <2>1. Pop(b) = [b EXCEPT !.playing = FALSE]
    BY <1>1 DEF Pop
  <2>2. Pop(b).frames = b.frames /\ Pop(b).playing = FALSE /\ Pop(b).since_drop = b.since_drop
    BY <1>0, <2>1 DEF Buffer
  <2>. QED
    BY <2>2 DEF Numbered
<1>2. CASE ~Underrun(b) /\ Filling(b)
  BY <1>2 DEF Pop
<1>3. CASE ~Underrun(b) /\ ~Filling(b)
  <2> DEFINE p == Playing(b)
             u == Take(CatchUp(p))
  <2>1. Pop(b) = u
    BY <1>3, PopTakes
  <2>2. /\ Good(p) /\ p.playing /\ p.frames = b.frames /\ p.frames # {}
        /\ p.since_drop = b.since_drop
    BY <1>3, PlayingStarts
  <2> HIDE DEF p
  <2>3. p.next \in Nat /\ p.next + Depth(p) <= m /\ Depth(p) \in Nat
    <3>1. \A f \in p.frames : f < m
      BY <2>2 DEF Numbered
    <3>. QED
      BY <2>2, <3>1, DepthReaches, DepthSpans DEF Good, Buffer
  <2>4. CASE ~CatchingUp(p)
    <3>1. /\ u.frames = p.frames \ {p.next} /\ u.next = p.next + 1
          /\ u.since_drop = IF p.since_drop < Interval THEN p.since_drop + 1 ELSE p.since_drop
      BY <2>2, <2>4, TakeKeeps
    <3>2. p.next < m
      BY <2>2, <2>3, <1>0, DepthSpans DEF Numbered
    <3>. QED
      BY <1>0, <2>1, <2>2, <2>3, <3>1, <3>2 DEF Numbered
  <2>5. CASE CatchingUp(p)
    <3>1. u.next <= p.next + Depth(p) /\ u.frames \subseteq p.frames
      BY <1>0, <2>2, <2>5, TakeMelts
    <3>2. u.since_drop >= 1 /\ u.next \in Nat
      <4>1. u.since_drop \in 1 .. Interval /\ u.next \in Nat
        <5> DEFINE t == CatchUp(p)
        <5>1. t \in Buffer
          BY <2>2, CatchUpGood DEF Good
        <5>2. t.since_drop \in 0 .. Interval /\ t.next \in Nat
          BY <5>1 DEF Buffer
        <5> HIDE DEF t
        <5>3. Take(t).since_drop \in 1 .. Interval /\ Take(t).next \in Nat
          BY <5>1, <5>2, TakeFields
        <5>. QED
          BY <5>3 DEF t
      <4>. QED
        BY <4>1
    <3>. QED
      BY <1>0, <2>1, <2>2, <2>3, <3>1, <3>2 DEF Numbered
  <2>. QED
    BY <2>4, <2>5
<1>. QED
  BY <1>1, <1>2, <1>3

\* A push of a number below m leaves no number behind.
LEMMA NumberedPush ==
    ASSUME NEW b, Good(b), NEW m \in Nat, NEW n \in Nat, n <= m, Numbered(b, n),
           NEW s \in Frames, s < m
    PROVE  Numbered(Push(b, s), m)
<1>0. /\ b \in Buffer /\ b.frames \in SUBSET Nat /\ b.next \in Nat /\ b.since_drop >= 1
      /\ b.since_drop \in Int /\ s \in Nat
  BY BoundAssumption, SizeAssumption DEF Good, Buffer, Frames, Numbered
<1>1. CASE FarFrom(b, s)
  <2>1. Push(b, s) = Restarted(b, s)
    BY <1>1 DEF Push
  <2>2. /\ Push(b, s).frames = {s} /\ Push(b, s).playing = FALSE
        /\ Push(b, s).since_drop = b.since_drop
    BY <1>0, <2>1 DEF Restarted, Buffer
  <2>. QED
    BY <1>0, <2>2 DEF Numbered
<1>2. CASE ~FarFrom(b, s) /\ (Late(b, s) \/ s \in b.frames \/ Full(b))
  <2>1. Push(b, s) = b
    BY <1>2 DEF Push
  <2>. QED
    BY <1>0, <2>1 DEF Numbered
<1>3. CASE ~FarFrom(b, s) /\ ~(Late(b, s) \/ s \in b.frames \/ Full(b))
  <2>1. Push(b, s) = [b EXCEPT !.frames = b.frames \cup {s}]
    BY <1>3 DEF Push
  <2>2. /\ Push(b, s).frames = b.frames \cup {s} /\ Push(b, s).playing = b.playing
        /\ Push(b, s).next = b.next /\ Push(b, s).since_drop = b.since_drop
    BY <1>0, <2>1 DEF Buffer
  <2>. QED
    BY <1>0, <2>2 DEF Numbered
<1>. QED
  BY <1>1, <1>2, <1>3

\* An uninterrupted stream goes on waiting, or starts without delay.
LEMMA AnewPops ==
    ASSUME NEW c, Good(c), ~c.playing, ~c.catching_up, NEW m \in Nat,
           NEW n \in Nat \ {0}, n <= Target, Reserve(c) = n, c.frames = m - n .. m - 1, n <= m
    PROVE  Anew(Pop(c), m) \/ Even(Pop(c), m)
<1> USE SizeAssumption
<1>1. CASE n < Target
  <2>1. Pop(c) = c
    BY <1>1 DEF Pop, Underrun, Filling, Reserve
  <2>. QED
    BY <1>1, <2>1 DEF Anew
<1>2. CASE n = Target
  <2> DEFINE p == Playing(c)
             u == Take(CatchUp(p))
  <2>1. ~Underrun(c) /\ ~Filling(c)
    BY <1>2 DEF Underrun, Filling, Reserve
  <2>2. Pop(c) = u
    BY <2>1, PopTakes
  <2>3. /\ Good(p) /\ p.playing /\ p.frames = c.frames /\ p.frames # {}
        /\ p.catching_up = c.catching_up /\ p.next \in c.frames
    BY <2>1, PlayingStarts
  <2> HIDE DEF p
  <2>4. m - n <= p.next /\ p.next \in Nat /\ Depth(p) \in Nat /\ p.next + Depth(p) <= m
    <3>1. \A f \in p.frames : f < m
      BY <2>3
    <3>2. p.next + Depth(p) <= m /\ Depth(p) \in Nat /\ p.next \in Nat
      BY <2>3, <3>1, DepthReaches, DepthSpans DEF Good, Buffer
    <3>. QED
      BY <2>3, <3>2
  <2>5. ~CatchingUp(p)
    BY <1>2, <2>3, <2>4 DEF CatchingUp
  <2>6. u.next = p.next + 1 /\ u.playing /\ ~u.catching_up
    BY <2>3, <2>5, TakeKeeps
  <2>. QED
    BY <1>2, <2>2, <2>4, <2>6 DEF Even, Lag
<1>. QED
  BY <1>1, <1>2

\* A pop in the calm, k periods of which have passed: the frame m was sent last
\* and is there, unless the storm left the buffer full.
LEMMA TurnCalms ==
    ASSUME Capacity > Target, NEW k \in Nat, NEW m \in Nat, m = Storm + k,
           NEW c, Good(c), Numbered(c, m + 1), ~Underrun(c), ~Filling(c),
           Playing(c).next <= m,
           \A f \in Storm + 1 .. m : f >= Playing(c).next => f \in c.frames,
           Reserve(c) > Target => k + 1 + Due(Reserve(c) - 1, c.since_drop) <= Most,
           CatchingUp(Playing(c)) => k + 1 <= Most,
           m - Playing(c).next <= Capacity \/ k + 1 <= Target,
           \/ m \in c.frames
           \/ k = 0 /\ Reserve(c) = Capacity /\ Playing(c).next \in c.frames
    PROVE  Calmed(Pop(c), m + 1, k + 1)
<1> USE SizeAssumption, BoundAssumption
<1> DEFINE p == Playing(c)
           u == Take(CatchUp(p))
           n == Reserve(c)
<1>1. Pop(c) = u
  BY PopTakes
<1>2. /\ Good(p) /\ p.playing /\ p.frames = c.frames /\ p.frames # {}
      /\ p.catching_up = c.catching_up /\ p.since_drop = c.since_drop
  BY PlayingStarts
<1>3. /\ p.next <= m
      /\ CatchingUp(p) => k + 1 <= Most
      /\ m - p.next <= Capacity \/ k + 1 <= Target
      /\ \A f \in Storm + 1 .. m : f >= p.next => f \in p.frames
      /\ \/ m \in p.frames
         \/ k = 0 /\ n = Capacity /\ p.next \in p.frames
  BY <1>2
<1> HIDE DEF p, u
<1>4. /\ p.next \in Nat /\ p.frames \in SUBSET Nat /\ IsFiniteSet(p.frames)
      /\ n \in Nat /\ n <= Capacity /\ Reserve(p) = n /\ Cardinality(p.frames) = n
      /\ p.since_drop \in 1 .. Interval /\ Depth(p) \in Nat
  BY <1>2, FramesFinite, DepthSpans DEF Good, Buffer, Frames, Numbered, Reserve
<1>5. Good(Pop(c)) /\ Good(u)
  BY <1>1, PopGood
<1>6. u.next \in Nat /\ Reserve(u) \in Nat /\ u.since_drop \in 0 .. Interval
  BY <1>5, FramesFinite DEF Good, Buffer, Reserve
<1>7. Most \in Nat /\ Most >= Capacity
  BY MostIs
<1>8. /\ p.next + Depth(p) <= m + 1
      /\ m \in p.frames => p.next + Depth(p) = m + 1
  <2>1. \A f \in p.frames : f < m + 1
    BY <1>2 DEF Numbered
  <2>2. m + 1 \in Nat /\ (m + 1) - 1 = m
    OBVIOUS
  <2>. QED
    BY <1>2, <2>1, <2>2, DepthReaches
<1> HIDE DEF n
<1>9. CASE ~CatchingUp(p)
  <2>1. /\ u.frames = p.frames \ {p.next} /\ u.next = p.next + 1
        /\ u.playing /\ ~u.catching_up
        /\ u.since_drop = IF p.since_drop < Interval THEN p.since_drop + 1 ELSE p.since_drop
    BY <1>2, <1>9, TakeKeeps DEF u
  <2>2. CASE m \in p.frames
    <3>1. Depth(p) <= Target + Slack
      BY <1>4, <1>9 DEF CatchingUp
    <3>2. (m + 1) - u.next < Target + Slack
      BY <1>4, <1>8, <2>1, <2>2, <3>1
    <3>. QED
      BY <1>1, <2>1, <3>2 DEF Calmed, Even, Lag
  <2>3. CASE k = 0 /\ n = Capacity /\ p.next \in p.frames
    <3>1. CASE m - p.next > Capacity
      <4>1. (m + 1) - u.next > Capacity /\ k + 1 <= Target
        BY <1>3, <1>4, <2>1, <3>1
      <4>8. Far(u, m + 1, k + 1)
        BY <2>1, <4>1 DEF Far, Lag
      <4>. QED
        BY <1>1, <4>8 DEF Calmed
    <3>2. CASE m - p.next <= Capacity
      <4>1. Reserve(u) = n - 1
        <5>1. Cardinality(p.frames \ {p.next}) = Cardinality(p.frames) - 1
          <6> DEFINE S == p.frames
                     x == p.next
          <6>1. IsFiniteSet(S) /\ x \in S
            BY <1>4, <2>3
          <6> HIDE DEF S, x
          <6>2. Cardinality(S \ {x}) = Cardinality(S) - 1
            BY <6>1, FS_RemoveElement
          <6>. QED
            BY <6>2 DEF S, x
        <5>. QED
          BY <1>4, <2>1, <5>1 DEF Reserve
      <4>2. 2 + Due(n - 1, u.since_drop) <= Most
        <5>1. u.since_drop \in 1 .. Interval /\ (u.since_drop > 1 \/ Interval = 1)
          BY <1>4, <2>1
        <5>. QED
          BY <1>4, <2>3, <5>1, DueInTime
      <4>3. (m + 1) - u.next <= Capacity /\ (m + 1) - 1 = Storm
        BY <1>4, <2>1, <2>3, <3>2
      <4>4. \A f \in Storm + 1 .. (m + 1) - 1 : f >= u.next => f \in u.frames
        BY <4>3
      <4>5. Reserve(u) < Capacity /\ k + 1 <= Most
        BY <1>4, <1>7, <2>3, <4>1
      <4>6. (k + 1) + 1 + Due(Reserve(u), u.since_drop) <= Most
        <5>1. (k + 1) + 1 = 2
          BY <2>3
        <5>. QED
          BY <4>1, <4>2, <5>1
      <4>8. Melting(u, m + 1, k + 1)
        BY <2>1, <4>3, <4>4, <4>5, <4>6 DEF Melting, Lag
      <4>. QED
        BY <1>1, <4>8 DEF Calmed
    <3>. QED
      BY <1>4, <3>1, <3>2
  <2>. QED
    BY <1>3, <2>2, <2>3
<1>10. CASE CatchingUp(p)
  <2>1. /\ u.playing /\ u.frames \subseteq p.frames
        /\ u.next > p.next /\ u.next <= p.next + Depth(p)
        /\ \A f \in p.frames : f >= u.next => f \in u.frames
        /\ \/ Reserve(u) < Target
           \/ /\ Reserve(u) = Reserve(p) - 1
              /\ p.since_drop < Interval /\ u.since_drop = p.since_drop + 1
           \/ /\ Reserve(u) = Reserve(p) - 2
              /\ p.since_drop = Interval /\ u.since_drop = 1
    BY <1>2, <1>4, <1>10, TakeMelts DEF u
  <2>2. CASE (m + 1) - u.next > Capacity
    <3>1. k + 1 <= Target
      BY <1>3, <1>4, <1>6, <2>1, <2>2
    <3>8. Far(u, m + 1, k + 1)
      BY <2>1, <2>2, <3>1 DEF Far, Lag
    <3>. QED
      BY <1>1, <3>8 DEF Calmed
  <2>3. CASE (m + 1) - u.next <= Capacity
    <3>1. \A f \in Storm + 1 .. (m + 1) - 1 : f >= u.next => f \in u.frames
      BY <1>3, <1>4, <1>6, <2>1
    <3>2. Reserve(u) < Capacity
      BY <1>4, <1>6, <2>1
    <3>3. ASSUME Reserve(u) >= Target
          PROVE  k + 1 + 1 + Due(Reserve(u), u.since_drop) <= Most
      <4>1. n > Target /\ n - 1 \in Nat /\ p.since_drop \in Nat
        BY <1>4, <1>6, <2>1, <3>3
      <4>2. k + 1 + Due(n - 1, p.since_drop) <= Most
        BY <1>2, <4>1 DEF n
      <4>3. CASE /\ Reserve(u) = n - 1 /\ u.since_drop = p.since_drop + 1
        <5> DEFINE w == Interval * (n - 1 - Target)
        <5>1. w \in Int
          BY <4>1
        <5>2. Due(n - 1, p.since_drop) = (Interval - p.since_drop) + w
          BY DEF Due
        <5>3. Due(n - 1, u.since_drop) = (Interval - u.since_drop) + w
          BY DEF Due
        <5> HIDE DEF w
        <5>. QED
          BY <1>4, <1>7, <4>1, <4>2, <4>3, <5>1, <5>2, <5>3
      <4>4. CASE /\ Reserve(u) = n - 2
                 /\ p.since_drop = Interval /\ u.since_drop = 1
        <5> DEFINE w == Interval * (n - 2 - Target)
                   v == Interval * (n - 1 - Target)
        <5>1. w \in Int /\ v \in Int /\ v = w + Interval
          <6> DEFINE x == n - 2 - Target
          <6>1. x \in Int /\ n - 1 - Target = x + 1
            BY <1>4
          <6> HIDE DEF x
          <6>2. Interval * x \in Int /\ Interval * (x + 1) = Interval * x + Interval
            BY <6>1
          <6>. QED
            BY <6>1, <6>2 DEF x
        <5>2. Due(n - 1, p.since_drop) = (Interval - p.since_drop) + v
          BY DEF Due
        <5>3. Due(n - 2, u.since_drop) = (Interval - u.since_drop) + w
          BY DEF Due
        <5> HIDE DEF w, v
        <5>. QED
          BY <1>4, <1>7, <4>1, <4>2, <4>4, <5>1, <5>2, <5>3
      <4>. QED
        BY <1>4, <1>6, <2>1, <3>3, <4>3, <4>4
    <3>8. Melting(u, m + 1, k + 1)
      BY <1>3, <1>10, <2>1, <2>3, <3>1, <3>2, <3>3 DEF Melting, Lag
    <3>. QED
      BY <1>1, <3>8 DEF Calmed
  <2>. QED
    BY <1>6, <2>2, <2>3
<1>. QED
  BY <1>9, <1>10

\* Slots that are all filled hold as many frames.
LEMMA IntervalFits ==
    ASSUME NEW S, IsFiniteSet(S), NEW a \in Nat, NEW m \in Nat, a .. m - 1 \subseteq S
    PROVE  m - a <= Cardinality(S) /\ Cardinality(S) \in Nat
<1>1. a \in Int /\ m - 1 \in Int
  OBVIOUS
<1>2. /\ Cardinality(a .. m - 1) = IF a > m - 1 THEN 0 ELSE (m - 1) - a + 1
      /\ Cardinality(a .. m - 1) <= Cardinality(S) /\ Cardinality(S) \in Nat
  BY <1>1, FS_Interval, FS_Subset, FS_CardinalityType
<1>. QED
  BY <1>2

\* With the delay it should have, a buffer stays as it is, frame by frame.
LEMMA EvenStays ==
    ASSUME NEW c, Good(c), NEW m \in Nat, c.frames # {}, \A f \in c.frames : f < m + 1,
           Even(c, m)
    PROVE  Even(Pop(c), m + 1)
<1> USE SizeAssumption
<1> DEFINE u == Take(CatchUp(c))
<1>1. c.playing /\ ~c.catching_up /\ m - c.next < Target + Slack /\ c.next \in Nat
  BY DEF Even, Lag, Good, Buffer
<1>2. Playing(c) = c /\ ~Underrun(c) /\ ~Filling(c)
  BY <1>1 DEF Playing, Underrun, Filling
<1>3. Pop(c) = u
  BY <1>2, PopTakes
<1>4. c.next + Depth(c) <= m + 1 /\ Depth(c) \in Nat
  BY <1>1, DepthReaches, DepthSpans
<1>5. ~CatchingUp(c)
  BY <1>1, <1>4 DEF CatchingUp
<1>6. u.next = c.next + 1 /\ u.playing /\ ~u.catching_up
  BY <1>1, <1>5, TakeKeeps
<1> HIDE DEF u
<1>. QED
  BY <1>1, <1>3, <1>6 DEF Even, Lag

\* While a buffer catches up, the time to do so is not over: there are frames to
\* drop, and that is due in time, or there is an empty slot of the storm still.
LEMMA MeltingIsInTime ==
    ASSUME Capacity > Target, NEW k \in Nat, NEW m \in Nat, m = Storm + k,
           NEW b, Good(b), b.next <= m, Melting(b, m, k), Lag(b, m) >= Target
    PROVE  k + 1 <= Most
<1> USE SizeAssumption, BoundAssumption
<1> DEFINE n == Cardinality(b.frames)
<1>1. /\ b.next \in Nat /\ IsFiniteSet(b.frames) /\ n \in Nat /\ b.since_drop \in 0 .. Interval
      /\ Most \in Nat /\ Most >= Capacity
  BY FramesFinite, MostIs DEF Good, Buffer
<1>2. /\ m - b.next <= Capacity /\ m - b.next >= Target
      /\ \A f \in Storm + 1 .. m - 1 : f >= b.next => f \in b.frames
      /\ n >= Target => k + 1 + Due(n, b.since_drop) <= Most
  BY DEF Melting, Lag, Reserve
<1> HIDE DEF n
<1>3. CASE n >= Target
  <2> DEFINE x == Interval * (n - Target)
  <2>1. x \in Nat
    <3>1. n - Target \in Nat
      BY <1>1, <1>3
    <3>. QED
      BY <3>1
  <2>2. Due(n, b.since_drop) = (Interval - b.since_drop) + x
    BY DEF Due
  <2> HIDE DEF x
  <2>. QED
    BY <1>1, <1>2, <1>3, <2>1, <2>2
<1>4. CASE n < Target /\ b.next < Storm
  BY <1>1, <1>2, <1>4
<1>5. CASE n < Target /\ b.next = Storm
  <2>1. Storm + 1 .. m - 1 \subseteq b.frames
    BY <1>2, <1>5
  <2>2. m - (Storm + 1) <= n
    <3> DEFINE a == Storm + 1
    <3>1. a \in Nat /\ a .. m - 1 \subseteq b.frames
      BY <2>1
    <3> HIDE DEF a
    <3>2. m - a <= n
      BY <1>1, <3>1, IntervalFits DEF n
    <3>. QED
      BY <3>2 DEF a
  <2>. QED
    BY <1>1, <1>5, <2>2
<1>6. CASE n < Target /\ b.next > Storm
  <2>1. b.next .. m - 1 \subseteq b.frames
    BY <1>1, <1>2, <1>6
  <2>2. m - b.next <= n
    BY <1>1, <2>1, IntervalFits DEF n
  <2>. QED
    BY <1>1, <1>2, <1>6, <2>2
<1>. QED
  BY <1>1, <1>3, <1>4, <1>5, <1>6

\* As long as it waits with what the storm left, it has a frame for every period.
LEMMA GatheringIsShort ==
    ASSUME NEW k \in Nat, NEW m \in Nat, m = Storm + k, NEW b, Good(b), Gathering(b, m)
    PROVE  k < Target /\ k <= Reserve(b)
<1> USE SizeAssumption, BoundAssumption
<1>1. IsFiniteSet(b.frames) /\ Storm .. m - 1 \subseteq b.frames /\ Cardinality(b.frames) < Target
  BY FramesFinite DEF Good, Buffer, Gathering, Reserve
<1>2. m - Storm <= Cardinality(b.frames) /\ Cardinality(b.frames) \in Nat
  BY <1>1, IntervalFits
<1>. QED
  BY <1>1, <1>2 DEF Reserve

\* A buffer so far behind, or ahead, starts anew, whatever it holds.
LEMMA FarCalms ==
    ASSUME NEW k \in Nat, NEW m \in Frames, NEW b, Sized(b), b.since_drop >= 1, FarFrom(b, m)
    PROVE  /\ Good(Push(b, m)) /\ Numbered(Push(b, m), m + 1)
           /\ Calmed(Pop(Push(b, m)), m + 1, k + 1)
<1> USE SizeAssumption, BoundAssumption
<1> DEFINE c == Push(b, m)
<1>0. b \in Buffer /\ m \in Nat /\ m + 1 \in Nat /\ m < m + 1
  BY FieldsOf DEF Frames
<1>1. c = Restarted(b, m)
  BY DEF Push
<1>2. /\ c.frames = {m} /\ ~c.playing /\ ~c.catching_up /\ Sized(c)
      /\ c.since_drop = b.since_drop
  <2>1. /\ Restarted(b, m).frames = {m} /\ Restarted(b, m).playing = FALSE
        /\ Restarted(b, m).catching_up = FALSE /\ Sized(Restarted(b, m))
        /\ Restarted(b, m).since_drop = b.since_drop
    BY <1>0, RestartedFields
  <2> HIDE DEF c
  <2>. QED
    BY <1>1, <2>1
<1> HIDE DEF c
<1>3. Reserve(c) = 1
  BY <1>2, FS_Singleton DEF Reserve
<1>4. Good(c) /\ Numbered(c, m + 1)
  BY <1>0, <1>2 DEF Good, Sized, Ahead, Numbered
<1>5. c.frames = (m + 1) - 1 .. (m + 1) - 1
  BY <1>0, <1>2
<1>6. 1 \in Nat \ {0} /\ 1 <= Target /\ 1 <= m + 1
  BY <1>0
<1>7. Anew(Pop(c), m + 1) \/ Even(Pop(c), m + 1)
  BY <1>0, <1>2, <1>3, <1>4, <1>5, <1>6, AnewPops
<1>. QED
  BY <1>4, <1>7 DEF Calmed, c

\* One calm period.
LEMMA PeriodCalms ==
    ASSUME Capacity > Target, NEW k \in Nat, NEW m \in Frames, m = Storm + k,
           NEW b, Good(b), Numbered(b, m), k > 0 => Calmed(b, m, k)
    PROVE  Calmed(Pop(Push(b, m)), m + 1, k + 1)
<1> USE SizeAssumption, BoundAssumption
<1> DEFINE c == Push(b, m)
           n == Reserve(b)
<1>0. /\ b \in Buffer /\ b.frames \in SUBSET Nat /\ b.next \in Nat
      /\ IsFiniteSet(b.frames) /\ n = Cardinality(b.frames) /\ n \in Nat /\ n <= Capacity
      /\ b.since_drop \in 1 .. Interval /\ b.playing \in BOOLEAN
      /\ m \in Nat /\ m + 1 \in Nat /\ ~(m \in b.frames)
  BY FramesFinite DEF Good, Buffer, Frames, Numbered, Reserve
<1>1. Good(c) /\ Numbered(c, m + 1) /\ Most \in Nat /\ Most >= Capacity
  <2>1. m <= m + 1 /\ m < m + 1
    BY <1>0
  <2>. QED
    BY <1>0, <2>1, PushGood, NumberedPush, MostIs
<1>2. \A sd \in 1 .. Interval, x \in Nat : x > Target /\ x <= Capacity => 1 + Due(x - 1, sd) <= Most
  BY DueInTime
<1> HIDE DEF n
<1>3. CASE FarFrom(b, m)
  BY <1>0, <1>3, FarCalms DEF Good, Sized
<1>4. CASE ~FarFrom(b, m) /\ Full(b)
  <2>1. c = b
    BY <1>4 DEF Push
  <2>2. n = Capacity /\ b.frames # {}
    BY <1>0, <1>4, FS_EmptySet DEF Full
  <2>3. CASE k = 0
    <3> DEFINE p == Playing(b)
    <3>1. ~Underrun(b) /\ ~Filling(b)
      BY <1>0, <2>2 DEF Underrun, Filling
    <3>2. /\ p.playing /\ p.frames = b.frames /\ Good(p)
          /\ b.playing => p = b
          /\ ~b.playing => p.next \in b.frames
      BY <3>1, PlayingStarts
    <3> HIDE DEF p
    <3>3. p.next <= m /\ p.next \in Nat
      BY <1>0, <3>2 DEF Numbered, Good, Buffer
    <3>4. p.next \in b.frames
      <4>1. SUFFICES ASSUME b.playing, ~(b.next \in b.frames) PROVE FALSE
        BY <1>0, <3>2
      <4> DEFINE d == m - b.next
      <4>2. d \in Nat /\ d <= Capacity
        BY <1>0, <1>4, <3>2, <3>3, <4>1 DEF FarFrom
      <4>3. \A f \in b.frames : f \in Nat /\ f > b.next /\ f < b.next + d
        BY <1>0, <4>1 DEF Good, Ahead, Numbered
      <4> HIDE DEF d
      <4>4. d > 0
        BY <1>0, <2>2, <4>2, <4>3
      <4>5. Cardinality(b.frames) < d
        BY <1>0, <4>2, <4>3, <4>4, FewerThanSlots
      <4>. QED
        BY <1>0, <2>2, <4>2, <4>5
    <3>5. \A f \in Storm + 1 .. m : f >= p.next => f \in b.frames
      BY <2>3
    <3>6. n > Target => k + 1 + Due(n - 1, b.since_drop) <= Most
      BY <1>0, <1>2, <2>3
    <3>7. k + 1 <= Most /\ k + 1 <= Target
      BY <1>1, <2>3
    <3>. QED
      BY <1>0, <1>1, <2>1, <2>2, <2>3, <3>1, <3>3, <3>4, <3>5, <3>6, <3>7, TurnCalms DEF p, n
  <2>4. CASE k > 0
    <3>1. Even(b, m)
      <4>1. ~Gathering(b, m) /\ ~Anew(b, m) /\ ~Melting(b, m, k)
        BY <1>0, <2>2 DEF Gathering, Anew, Melting, n
      <4>2. ~Far(b, m, k)
        BY <1>0, <1>4 DEF Far, FarFrom, Lag
      <4>. QED
        BY <2>4, <4>1, <4>2 DEF Calmed
    <3>2. \A f \in b.frames : f < m + 1
      BY <1>0 DEF Numbered
    <3>3. Even(Pop(b), m + 1)
      BY <1>0, <2>2, <3>1, <3>2, EvenStays
    <3>. QED
      BY <2>1, <3>3 DEF Calmed
  <2>. QED
    BY <2>3, <2>4
<1>5. CASE ~FarFrom(b, m) /\ ~Full(b)
  <2>1. c = [b EXCEPT !.frames = b.frames \cup {m}]
    BY <1>0, <1>5 DEF Push, Late, Numbered
  <2>2. /\ c.frames = b.frames \cup {m} /\ c.playing = b.playing /\ c.next = b.next
        /\ c.catching_up = b.catching_up /\ c.since_drop = b.since_drop
    BY <1>0, <2>1 DEF Buffer
  <2>3. Reserve(c) = n + 1 /\ n < Capacity /\ c.frames # {} /\ m \in c.frames
    <3>1. Cardinality(b.frames \cup {m}) = Cardinality(b.frames) + 1
      BY <1>0, FS_AddElement
    <3>. QED
      BY <1>0, <1>5, <2>2, <3>1 DEF Full, Reserve
  <2>4. Calmed(Pop(c), m + 1, k + 1)
    <3> HIDE DEF c
    <3>1. \A f \in c.frames : f < m + 1
      BY <1>1 DEF Numbered
    <3>2. CASE k > 0 /\ Even(b, m)
      <4>1. Even(c, m)
        BY <2>2, <3>2 DEF Even, Lag
      <4>2. Even(Pop(c), m + 1)
        BY <1>0, <1>1, <2>3, <3>1, <4>1, EvenStays
      <4>. QED
        BY <4>2 DEF Calmed
    <3>3. CASE k > 0 /\ Anew(b, m)
      <4>1. n < Target /\ b.frames = m - n .. m - 1 /\ ~b.playing /\ ~b.catching_up
        BY <3>3 DEF Anew, n
      <4>2. n <= m
        <5>1. CASE n > 0 /\ n > m
          <6>1. m - n \in m - n .. m - 1
            BY <1>0, <5>1
          <6>2. m - n \in b.frames
            BY <4>1, <6>1
          <6>. QED
            BY <1>0, <5>1, <6>2
        <5>. QED
          BY <1>0, <5>1
      <4>3. c.frames = (m + 1) - (n + 1) .. (m + 1) - 1
        <5>1. (m - n .. m - 1) \cup {m} = m - n .. m
          BY <1>0, <4>2
        <5>2. (m + 1) - (n + 1) = m - n /\ (m + 1) - 1 = m
          BY <1>0
        <5>. QED
          BY <2>2, <4>1, <5>1, <5>2
      <4>4. n + 1 \in Nat \ {0} /\ n + 1 <= Target /\ n + 1 <= m + 1
        BY <1>0, <4>1, <4>2
      <4>5. Anew(Pop(c), m + 1) \/ Even(Pop(c), m + 1)
        BY <1>0, <1>1, <2>2, <2>3, <4>1, <4>3, <4>4, AnewPops
      <4>. QED
        BY <4>5 DEF Calmed
    <3>4. CASE k > 0 /\ Far(b, m, k)
      BY <1>0, <1>5, <3>4 DEF Far, FarFrom, Lag
    <3>5. CASE (k = 0 \/ Gathering(b, m)) /\ ~b.playing
      <4>1. k + 1 <= Target /\ k <= n
        BY <1>0, <3>5, GatheringIsShort DEF n
      <4>2. Storm .. m \subseteq c.frames
        BY <1>0, <2>2, <2>3, <3>5 DEF Gathering
      <4>3. CASE n + 1 < Target
        <5>1. Pop(c) = c
          BY <2>2, <2>3, <3>5, <4>3 DEF Pop, Underrun, Filling, Reserve
        <5>2. Gathering(c, m + 1)
          BY <1>0, <2>2, <2>3, <3>5, <4>2, <4>3 DEF Gathering
        <5>. QED
          BY <5>1, <5>2 DEF Calmed
      <4>4. CASE ~(n + 1 < Target)
        <5> DEFINE p == Playing(c)
        <5>1. ~Underrun(c) /\ ~Filling(c)
          BY <1>0, <2>2, <2>3, <3>5, <4>4 DEF Underrun, Filling, Reserve
        <5>2. p.next \in c.frames
          BY <1>1, <2>2, <3>5, <5>1, PlayingStarts
        <5>3. p.next <= m
          <6>1. p.next \in b.frames \/ p.next = m
            BY <2>2, <5>2
          <6> HIDE DEF p
          <6>. QED
            BY <1>0, <6>1 DEF Numbered
        <5>4. \A f \in Storm + 1 .. m : f >= p.next => f \in c.frames
          BY <4>2
        <5>5. Reserve(c) > Target => k + 1 + Due(Reserve(c) - 1, c.since_drop) <= Most
          <6>1. CASE k = 0
            <7>1. 1 + Due((n + 1) - 1, b.since_drop) <= Most \/ n + 1 <= Target
              BY <1>0, <1>2, <2>3
            <7>. QED
              BY <1>0, <2>2, <2>3, <6>1, <7>1
          <6>2. CASE Gathering(b, m)
            BY <1>0, <2>3, <6>2 DEF Gathering, n
          <6>. QED
            BY <3>5, <6>1, <6>2
        <5>6. k + 1 <= Most
          BY <1>1, <4>1
        <5> HIDE DEF p
        <5>. QED
          BY <1>0, <1>1, <2>3, <4>1, <5>1, <5>3, <5>4, <5>5, <5>6, TurnCalms DEF p
      <4>. QED
        BY <4>3, <4>4
    <3>6. CASE (k = 0 \/ Melting(b, m, k)) /\ b.playing
      <4>1. Playing(c) = c /\ ~Underrun(c) /\ ~Filling(c)
        BY <2>2, <2>3, <3>6 DEF Playing, Underrun, Filling
      <4>2. c.next <= m /\ m - c.next <= Capacity
        BY <1>0, <1>5, <2>2, <3>6 DEF Numbered, FarFrom
      <4>3. \A f \in Storm + 1 .. m : f >= c.next => f \in c.frames
        <5>1. CASE k = 0
          BY <5>1
        <5>2. CASE Melting(b, m, k)
          <6>1. \A f \in Storm + 1 .. m - 1 : f >= b.next => f \in b.frames
            BY <5>2 DEF Melting
          <6>. QED
            BY <1>0, <2>2, <6>1
        <5>. QED
          BY <3>6, <5>1, <5>2
      <4>4. Reserve(c) > Target => k + 1 + Due(Reserve(c) - 1, c.since_drop) <= Most
        <5>0. Reserve(c) - 1 = n
          BY <1>0, <2>3
        <5>1. CASE k = 0
          <6>1. 1 + Due((n + 1) - 1, b.since_drop) <= Most \/ n + 1 <= Target
            BY <1>0, <1>2, <2>3
          <6>. QED
            BY <1>0, <2>2, <2>3, <5>1, <6>1
        <5>2. CASE Melting(b, m, k)
          <6>1. n >= Target => k + 1 + Due(n, b.since_drop) <= Most
            BY <5>2 DEF Melting, n
          <6>. QED
            BY <1>0, <2>2, <2>3, <5>0, <6>1
        <5>. QED
          BY <3>6, <5>1, <5>2
      <4>5. ASSUME CatchingUp(c) PROVE k + 1 <= Most
        <5>1. CASE k = 0
          BY <1>1, <5>1
        <5>2. CASE Melting(b, m, k)
          <6>1. Depth(c) \in Nat /\ c.next + Depth(c) <= m + 1
            BY <1>0, <1>1, <2>2, <2>3, <3>1, <3>6, DepthReaches, DepthSpans
          <6>2. Depth(c) > Target
            BY <4>5, <6>1 DEF CatchingUp
          <6>3. Lag(b, m) >= Target
            BY <1>0, <2>2, <6>1, <6>2 DEF Lag
          <6>4. b.next <= m
            BY <2>2, <4>2
          <6>. QED
            BY <1>0, <5>2, <6>3, <6>4, MeltingIsInTime
        <5>. QED
          BY <3>6, <5>1, <5>2
      <4>. QED
        BY <1>0, <1>1, <2>3, <4>1, <4>2, <4>3, <4>4, <4>5, TurnCalms
    <3>. QED
      BY <1>0, <3>2, <3>3, <3>4, <3>5, <3>6 DEF Calmed, Gathering, Melting
  <2>. QED
    BY <2>4
<1>. QED
  BY <1>3, <1>4, <1>5

\* The numbers of all frames, wherever they are, are below the next one.  Unless
\* a frame was overtaken, so is the slot whose turn it is; and in the calm, when
\* nothing is on its way, the buffer is as the last period left it.
MeltInv ==
    /\ \A f \in buf.frames \cup flight : f < sent
    /\ \A p \in pushing : p.frame < sent
    /\ popping # "take" => buf.since_drop >= 1
    /\ Aligned /\ overtaken = {} => buf.next <= sent /\ (popping = "take" => buf.next < sent)
    /\ calm > 0 => flight = {} /\ pushing = {} /\ popping = "no" /\ sent = Storm + calm
    /\ calm > 0 /\ overtaken = {} => Calmed(buf, sent, calm)

\* Between two calls that is what the lemmas above are about.
LEMMA BetweenCalls ==
    ASSUME Inv, MeltInv, popping = "no", overtaken = {}
    PROVE  Good(buf) /\ Numbered(buf, sent)
BY DEF Inv, MeltInv, Good, Sized, Ahead, AheadBut, Numbered, Aligned

\* A turn comes to a slot below the frames that are there.
LEMMA TurnIsBelow ==
    ASSUME NEW b, Good(b), b.playing, b.frames # {}, NEW m \in Nat, \A f \in b.frames : f < m
    PROVE  CatchUp(b).next < m
<1> USE SizeAssumption
<1>0. b.next \in Nat /\ b.frames \in SUBSET Nat
  BY FieldsOf DEF Good, Sized
<1>1. b.next + Depth(b) <= m /\ Depth(b) \in Nat
  BY DepthReaches, DepthSpans
<1>2. CASE ~CatchingUp(b)
  <2>1. CatchUp(b) = [b EXCEPT !.catching_up = FALSE]
    BY <1>2 DEF CatchUp
  <2>2. CatchUp(b).next = b.next
    BY <2>1 DEF Good, Buffer
  <2>3. PICK f \in b.frames : TRUE
    OBVIOUS
  <2>. QED
    BY <1>0, <2>2, <2>3 DEF Good, Ahead
<1>3. CASE CatchingUp(b)
  <2>1. CatchUp(b).next + 1 <= b.next + Depth(b)
    BY <1>3, CatchUpDrops
  <2>2. CatchUp(b).next \in Nat
    BY CatchUpGood, FieldsOf DEF Good, Sized
  <2>. QED
    BY <1>0, <1>1, <2>1, <2>2
<1>. QED
  BY <1>2, <1>3

\* One calm period, in which whole calls follow one another.
LEMMA PeriodMelts ==
    ASSUME Capacity > Target, Inv, MeltInv, Period
    PROVE  MeltInv'
<1> USE BoundAssumption DEF Inv, MeltInv
<1>1. /\ buf' = Pop(Push(buf, sent)) /\ sent' = sent + 1 /\ calm' = calm + 1 /\ flight' = {}
      /\ pushing' = {} /\ popping = "no" /\ popping' = "no"
      /\ overtaken' = IF FarFrom(buf, sent) THEN {} ELSE overtaken
      /\ sent \in Frames /\ sent \in Nat /\ sent = Storm + calm /\ calm \in Nat
      /\ sent + 1 = Storm + (calm + 1) /\ sent <= sent + 1 /\ sent < sent + 1 /\ sent + 1 \in Nat
  BY DEF Period, Frames
<1>2. GoodBut(buf, overtaken) /\ buf.since_drop >= 1
  BY <1>1 DEF GoodBut
<1>3. buf'.since_drop >= 1 /\ \A f \in buf'.frames : f < sent'
  <2> DEFINE c == Push(buf, sent)
  <2>1. GoodBut(c, overtaken) /\ c.since_drop >= 1 /\ c.frames \subseteq buf.frames \cup {sent}
    BY <1>1, <1>2, PushGoodBut
  <2>2. buf' = Pop(c)
    BY <1>1
  <2> HIDE DEF c
  <2>3. buf'.since_drop >= 1 /\ buf'.frames \subseteq c.frames
    BY <2>1, <2>2, PopGoodBut
  <2>4. buf.frames \in SUBSET Nat
    BY FieldsOf
  <2>. QED
    BY <1>1, <2>1, <2>3, <2>4
<1>4. overtaken' = {} => Numbered(buf', sent + 1) /\ Calmed(buf', sent + 1, calm + 1)
  <2>1. CASE FarFrom(buf, sent)
    <3>1. /\ Good(Push(buf, sent)) /\ Numbered(Push(buf, sent), sent + 1)
          /\ Calmed(Pop(Push(buf, sent)), sent + 1, calm + 1)
      BY <1>1, <1>2, <2>1, FarCalms
    <3>. QED
      BY <1>1, <3>1, NumberedPop
  <2>2. CASE ~FarFrom(buf, sent) /\ overtaken = {}
    <3>1. Good(buf) /\ Numbered(buf, sent)
      BY <1>1, <2>2, BetweenCalls
    <3>2. Good(Push(buf, sent)) /\ Numbered(Push(buf, sent), sent + 1)
      BY <1>1, <3>1, PushGood, NumberedPush
    <3>3. Numbered(Pop(Push(buf, sent)), sent + 1)
      BY <1>1, <3>2, NumberedPop
    <3>4. Calmed(Pop(Push(buf, sent)), sent + 1, calm + 1)
      BY <1>1, <2>2, <3>1, PeriodCalms
    <3>. QED
      BY <1>1, <3>3, <3>4
  <2>. QED
    BY <1>1, <2>1, <2>2
<1>5. Aligned' /\ overtaken' = {} => buf'.next <= sent'
  BY <1>1, <1>4 DEF Aligned, Numbered
<1>. QED
  BY <1>1, <1>3, <1>4, <1>5

\* The steps of push and of the network.
LEMMA PushMelts ==
    ASSUME Inv, MeltInv, Send \/ Store \/ \E s \in flight : Arrive(s) \/ Lose(s)
    PROVE  MeltInv'
<1>r. ASSUME NEW s \in Frames, buf \in Buffer
      PROVE  /\ Restarted(buf, s).frames = {s} /\ ~Restarted(buf, s).playing
             /\ Restarted(buf, s).since_drop = buf.since_drop
  BY <1>r, RestartedFields
<1> USE BoundAssumption DEF Inv, MeltInv
<1>0. /\ buf \in Buffer /\ buf.frames \in SUBSET Nat /\ buf.next \in Nat
      /\ \A f \in flight : f \in Nat
      /\ \A p \in pushing : p.frame \in Nat /\ p.frame \in Frames
  BY FieldsOf DEF Frames, Judged
<1>1. CASE Send
  <2>1. /\ sent' = sent + 1 /\ flight' = flight \cup {sent} /\ calm = 0
        /\ UNCHANGED <<buf, pushing, popping, overtaken, calm>>
    BY <1>1 DEF Send
  <2>2. \A f \in buf'.frames \cup flight' : f < sent'
    BY <1>0, <2>1
  <2>3. \A p \in pushing' : p.frame < sent'
    BY <1>0, <2>1
  <2>4. Aligned' /\ overtaken' = {} => buf'.next <= sent' /\ (popping' = "take" => buf'.next < sent')
    BY <1>0, <2>1 DEF Aligned
  <2>. QED
    BY <2>1, <2>2, <2>3, <2>4
<1>2. ASSUME NEW s \in flight, Arrive(s)
      PROVE  MeltInv'
  <2>1. /\ flight' = flight \ {s} /\ calm' = calm /\ calm = 0 /\ UNCHANGED <<sent, popping>>
        /\ s \in Frames /\ s < sent
    BY <1>2 DEF Arrive
  <2>2. CASE UNCHANGED <<buf, overtaken>> /\ \A p \in pushing' : p \in pushing \/ p.frame = s
    BY <2>1, <2>2 DEF Aligned
  <2>3. CASE buf' = Restarted(buf, s) /\ UNCHANGED pushing
    <3>1. /\ Restarted(buf, s).frames = {s} /\ ~Restarted(buf, s).playing
          /\ Restarted(buf, s).since_drop = buf.since_drop
      BY <1>0, <1>r, <2>1
    <3>2. buf'.frames = {s} /\ ~buf'.playing /\ buf'.since_drop = buf.since_drop
      BY <2>3, <3>1
    <3>. QED
      BY <2>1, <2>3, <3>2 DEF Aligned
  <2>. QED
    BY <1>2, <2>2, <2>3 DEF Arrive
<1>3. ASSUME NEW s \in flight, Lose(s)
      PROVE  MeltInv'
  BY <1>3 DEF Lose, Aligned
<1>4. CASE Store
  <2>1. PICK p \in pushing :
          /\ pushing' = {} /\ overtaken \subseteq overtaken'
          /\ \/ UNCHANGED buf
             \/ /\ ~(p.frame \in buf.frames) /\ ~Full(buf)
                /\ buf' = [buf EXCEPT !.frames = @ \cup {p.frame}]
          /\ UNCHANGED <<sent, flight, popping, calm>>
    BY <1>4 DEF Store, network
  <2>2. /\ buf'.frames \subseteq buf.frames \cup {p.frame} /\ buf'.next = buf.next
        /\ buf'.playing = buf.playing /\ buf'.since_drop = buf.since_drop
    <3>1. CASE UNCHANGED buf
      BY <3>1
    <3>2. CASE buf' = [buf EXCEPT !.frames = @ \cup {p.frame}]
      BY <1>0, <3>2 DEF Buffer
    <3>. QED
      BY <2>1, <3>1, <3>2
  <2>3. calm = 0 /\ calm' = 0
    BY <2>1
  <2>. QED
    BY <2>1, <2>2, <2>3 DEF Aligned
<1>. QED
  BY <1>1, <1>2, <1>3, <1>4

\* The steps of pop: in a turn the slot comes no further than to the newest frame.
LEMMA PopMelts ==
    ASSUME Inv, MeltInv, Listen \/ Align \/ Turn \/ TakeOne
    PROVE  MeltInv'
<1> USE BoundAssumption DEF Inv, MeltInv
<1>0. /\ buf \in Buffer /\ buf.frames \in SUBSET Nat /\ buf.next \in Nat /\ calm = 0
      /\ buf.since_drop \in Nat /\ buf.playing \in BOOLEAN
  BY FieldsOf, SizeAssumption DEF Listen, Align, Turn, TakeOne
<1>1. UNCHANGED <<sent, flight, pushing, overtaken, calm>>
  BY DEF Listen, Align, Turn, TakeOne, network
<1>2. CASE Listen
  <2>1. /\ buf'.frames = buf.frames /\ buf'.since_drop = buf.since_drop /\ popping = "no"
        /\ \/ buf'.playing = FALSE /\ popping' = "no"
           \/ UNCHANGED buf /\ popping' \in {"no", "turn"}
           \/ popping' = "start"
    BY <1>0, <1>2 DEF Listen, Buffer
  <2>. QED
    BY <1>0, <1>1, <2>1 DEF Aligned
<1>3. CASE Align
  <2>1. popping = "start" /\ popping' = "turn" /\ buf.frames # {}
        /\ buf' = [buf EXCEPT !.playing = buf.playing, !.next = Min(buf.frames)]
    BY <1>0, <1>3 DEF Align, Buffer
  <2>2. /\ buf'.frames = buf.frames /\ buf'.next \in buf.frames
        /\ buf'.since_drop = buf.since_drop
    BY <1>0, <2>1, AlignsGood
  <2>. QED
    BY <1>0, <1>1, <2>1, <2>2 DEF Aligned
<1>4. CASE Turn
  <2>1. popping = "turn" /\ popping' = "take" /\ buf.frames # {} /\ buf' = CatchUp(buf)
    BY <1>4 DEF Turn
  <2>2. GoodBut(buf, overtaken)
    BY <2>1 DEF GoodBut
  <2>3. buf'.frames \subseteq buf.frames /\ buf'.playing = buf.playing /\ Sized(buf')
    BY <2>1, <2>2, CatchUpGoodBut DEF GoodBut
  <2>4. Aligned' /\ overtaken' = {} => buf'.next <= sent' /\ buf'.next < sent'
    <3>1. SUFFICES ASSUME buf.playing, overtaken = {}
                   PROVE  buf'.next < sent
      BY <1>1, <2>3, FieldsOf DEF Aligned
    <3>2. Good(buf) /\ \A f \in buf.frames : f < sent
      BY <2>2, <3>1, GoodIs
    <3>. QED
      BY <2>1, <3>1, <3>2, TurnIsBelow
  <2>. QED
    BY <1>0, <1>1, <2>1, <2>3, <2>4
<1>5. CASE TakeOne
  <2>1. popping = "take" /\ popping' = "no" /\ buf' = Take(buf)
    BY <1>5 DEF TakeOne
  <2>2. /\ buf'.frames \subseteq buf.frames /\ buf'.next = buf.next + 1
        /\ buf'.playing = buf.playing
    BY <1>0, <2>1, TakeFields
  <2>3. buf'.since_drop >= 1
    BY <2>1, TakeGoodBut DEF GoodBut
  <2>. QED
    BY <1>0, <1>1, <2>1, <2>2, <2>3 DEF Aligned
<1>. QED
  BY <1>2, <1>3, <1>4, <1>5

\* Every step keeps the invariant.
LEMMA MeltStep ==
    ASSUME Capacity > Target, Inv, MeltInv, [Next]_vars
    PROVE  MeltInv'
<1>1. CASE Period
  BY <1>1, PeriodMelts
<1>2. CASE Send \/ Store \/ \E s \in flight : Arrive(s) \/ Lose(s)
  BY <1>2, PushMelts
<1>3. CASE Listen \/ Align \/ Turn \/ TakeOne
  BY <1>3, PopMelts
<1>4. CASE UNCHANGED vars
  BY <1>4 DEF vars, network, MeltInv, Aligned
<1>. QED
  BY <1>1, <1>2, <1>3, <1>4 DEF Next

\* A buffer that waits for the target holds less delay than the target.
LEMMA AnewIsShallow ==
    ASSUME NEW b, Good(b), NEW m \in Nat, Anew(b, m)
    PROVE  Depth(b) < Target
<1> USE SizeAssumption
<1> DEFINE n == Reserve(b)
<1>1. /\ b.frames \in SUBSET Frames /\ b.frames \in SUBSET Nat /\ n \in Nat /\ n < Target
      /\ b.frames = m - n .. m - 1 /\ ~b.playing
  BY FramesFinite, BoundAssumption DEF Good, Buffer, Frames, Anew, Reserve
<1> HIDE DEF n
<1>2. CASE b.frames = {}
  BY <1>2 DEF Depth
<1>3. CASE b.frames # {}
  <2> DEFINE x == Max(b.frames)
             y == Min(b.frames)
  <2>1. x \in b.frames /\ y \in b.frames
    BY <1>1, <1>3, MaxIsGreatest, MinIsLeast
  <2>2. Depth(b) = x + 1 - y
    BY <1>1, <1>3 DEF Depth
  <2> HIDE DEF x, y
  <2>3. x \in Nat /\ y \in Nat /\ x <= m - 1 /\ y >= m - n
    BY <1>1, <2>1
  <2>. QED
    BY <1>1, <2>2, <2>3
<1>. QED
  BY <1>2, <1>3

\* What accumulated in a storm does not stay: in a calm the delay is within the
\* slack after MeltTime, and nothing is dropped any more, if no frame of the
\* stream was overtaken.  The room above the target is needed: without it, and
\* without slack, it takes a period more.
THEOREM SpikesMelt ==
    ASSUME Capacity > Target
    PROVE  Spec => [](overtaken = {} => SpikeMelts)
<1>1. Init => MeltInv
  BY SizeAssumption, BoundAssumption DEF Init, New, MeltInv, Aligned
<1>2. Inv /\ MeltInv => (overtaken = {} => SpikeMelts)
  <2> SUFFICES ASSUME Inv, MeltInv, calm >= MeltTime, overtaken = {}
               PROVE  Depth(buf) < Target + Slack /\ ~buf.catching_up
    BY DEF SpikeMelts
  <2> USE SizeAssumption, BoundAssumption
  <2>1. /\ Good(buf) /\ Numbered(buf, sent) /\ calm \in Nat /\ calm > Most /\ Most \in Nat /\ Most >= Capacity
        /\ sent \in Nat /\ sent = Storm + calm /\ Calmed(buf, sent, calm)
    <3>1. calm \in Nat /\ calm > Most /\ Most \in Nat /\ Most >= Capacity
      BY MostIs DEF Inv
    <3>2. popping = "no" /\ sent = Storm + calm /\ Calmed(buf, sent, calm) /\ sent \in Nat
      BY <3>1 DEF Inv, MeltInv
    <3>. QED
      BY <3>1, <3>2, BetweenCalls
  <2>2. ~Gathering(buf, sent)
    BY <2>1, GatheringIsShort
  <2>3. ~Far(buf, sent, calm) /\ ~Melting(buf, sent, calm)
    BY <2>1 DEF Far, Melting
  <2>4. CASE Anew(buf, sent)
    <3>1. Depth(buf) < Target /\ ~buf.catching_up
      BY <2>1, <2>4, AnewIsShallow DEF Anew
    <3>2. Depth(buf) \in Int
      <4>1. CASE buf.frames = {}
        BY <4>1 DEF Depth
      <4>2. CASE buf.frames # {}
        <5>1. Max(buf.frames) \in Nat /\ Min(buf.frames) \in Nat /\ buf.next \in Nat
          BY <2>1, <4>2, MaxIsGreatest, MinIsLeast DEF Good, Buffer, Frames
        <5>. QED
          BY <4>2, <5>1 DEF Depth
      <4>. QED
        BY <4>1, <4>2
    <3>. QED
      BY <3>1, <3>2
  <2>5. CASE Even(buf, sent)
    <3>1. buf.playing /\ ~buf.catching_up /\ sent - buf.next < Target + Slack /\ buf.next \in Nat
      BY <2>1, <2>5 DEF Even, Lag, Good, Buffer
    <3>2. CASE buf.frames = {}
      BY <3>1, <3>2 DEF Depth
    <3>3. CASE buf.frames # {}
      <4>1. buf.next + Depth(buf) <= sent /\ Depth(buf) \in Nat
        BY <2>1, <3>1, <3>3, DepthReaches, DepthSpans DEF Numbered
      <4>. QED
        BY <2>1, <3>1, <4>1
    <3>. QED
      BY <3>2, <3>3
  <2>. QED
    BY <2>1, <2>2, <2>3, <2>4, <2>5 DEF Calmed
<1>3. Inv /\ MeltInv /\ [Next]_vars => MeltInv'
  BY MeltStep
<1>. QED
  BY <1>1, <1>2, <1>3, Invariant, PTL DEF Spec
===============================================================================
