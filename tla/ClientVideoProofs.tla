-------------------------- MODULE ClientVideoProofs --------------------------
(***************************************************************************)
(* The client's video path, for any displays, formats and queue sizes:     *)
(* frames and their queue messages stay in step, the reports to the peer   *)
(* are complete, and a frame is decoded only after its predecessor as long *)
(* as the queue of its display has not overflowed.                         *)
(***************************************************************************)
EXTENDS ClientVideo, FiniteSetTheorems, SequenceTheorems, TLAPS

\* What the code fixes: the queue has room, frames have numbers, and the peer's
\* fallback is a format.
Sizes == QueueSize \in Nat \ {0} /\ Ids \in Nat \ {0} /\ MaxFail \in Nat /\ VP9 \in Codec

\* Only key frames travel in the channel.
Message == {m \in [t : {"frame", "queue", "reset"}, f : Frame] : m.t = "frame" => m.f.key}
Handler == [fmt : Codec, valid : BOOLEAN, fail : Nat, first : BOOLEAN, last : 0..Ids+2]

Types ==
  /\ chan \in [Display -> Seq(Message)]
  /\ queue \in [Display -> Seq(Frame)]
  /\ discard \in [Display -> BOOLEAN]
  /\ pc \in [Display -> {"none", "recv", "pop", "check", "mark", "report", "exited"}]
  /\ cur \in [Display -> Frame]
  /\ handler \in [Display -> Handler]
  /\ peer \in [Display -> [fmt : Codec, id : 0..Ids-1, asked : BOOLEAN, on : BOOLEAN]]
  /\ marks \subseteq Codec /\ known \subseteq Codec /\ reports \in Seq(SUBSET Codec)

-----------------------------------------------------------------------------
(* The order of the frames of a channel c and a queue q, o frames of which *)
(* belong to messages that have left the channel.                          *)

TokensUpTo(c, i) == {j \in 1..i : c[j].t = "queue"}
Contents(c, q, o) ==
  [i \in 1..Len(c) |->
     IF c[i].t = "frame" THEN c[i].f ELSE q[o + Cardinality(TokensUpTo(c, i))]]

\* The queue holds these frames and one per queue message of the channel.
InStep(c, q, o) == Len(q) = o + Cardinality(TokensUpTo(c, Len(c)))

\* A frame can follow the frames of which P holds formats and numbers.
Follows(P, f) == f.key \/ <<f.fmt, Before(f.id)>> \in P
Itself(f) == {<<f.fmt, f.id>>}

\* Between messages i and j of c there are only resets.
ResetsBetween(c, i, j) == \A k \in i+1..j-1 : c[k].t = "reset"

\* The frames of the channel follow each other, the first one follows P, and the
\* stream may go on after frame p (a format and a number).
InOrder(c, K, P, p) ==
  /\ \A i, j \in 1..Len(c) :
       i < j /\ c[i].t # "reset" /\ c[j].t # "reset" /\ ResetsBetween(c, i, j) =>
         Follows(Itself(K[i]), K[j])
  /\ \A j \in 1..Len(c) :
       c[j].t # "reset" /\ ResetsBetween(c, 0, j) => Follows(P, K[j])
  /\ \A i \in 1..Len(c) :
       c[i].t # "reset" /\ ResetsBetween(c, i, Len(c) + 1) => p \in Itself(K[i])
  /\ ResetsBetween(c, 0, Len(c) + 1) => p \in P

\* What the decoder of d may be given next: anything while frames are discarded or
\* after a reset, the successor of its last frame otherwise.
Decoded(d) ==
  IF discard[d] THEN Codec \X Nat
  ELSE IF handler[d].last = AfterReset THEN {handler[d].fmt} \X Nat
  ELSE {<<handler[d].fmt, handler[d].last>>}

\* The frame that has left the channel and is not decoded yet.
Held(d) ==
  IF pc[d] = "pop" THEN Itself(queue[d][1])
  ELSE IF pc[d] = "check" THEN Itself(cur[d])
  ELSE Decoded(d)

Popped(d) == IF pc[d] = "pop" THEN 1 ELSE 0

OrderKept(d) ==
  pc[d] # "none" /\ d \notin evicted =>
    /\ pc[d] = "pop" => Follows(Decoded(d), queue[d][1])
    /\ pc[d] = "check" => Follows(Decoded(d), cur[d])
    /\ InOrder(chan[d], Contents(chan[d], queue[d], Popped(d)), Held(d), <<peer[d].fmt, peer[d].id>>)

\* The inductive invariant of a display; one without a thread has no messages.
Kept(d) ==
  /\ pc[d] = "none" => chan[d] = <<>> /\ queue[d] = <<>>
  /\ InStep(chan[d], queue[d], Popped(d))
  /\ OrderKept(d)
  /\ d \in broken => d \in evicted

VideoInv == Types /\ \A d \in Display : Kept(d)

-----------------------------------------------------------------------------
(* Counting queue messages.                                                *)

\* There are finitely many, at most one per message, and more in longer prefixes.
LEMMA TokensFinite ==
  ASSUME NEW c \in Seq(Message), NEW i \in 0..Len(c)
  PROVE  /\ IsFiniteSet(TokensUpTo(c, i)) /\ Cardinality(TokensUpTo(c, i)) \in Nat
         /\ \A j \in 0..i : Cardinality(TokensUpTo(c, j)) <= Cardinality(TokensUpTo(c, i))
  <1>1. IsFiniteSet(1..i)
    BY FS_Interval
  <1>2. TokensUpTo(c, i) \in SUBSET (1..i)
    BY DEF TokensUpTo
  <1>3. IsFiniteSet(TokensUpTo(c, i))
    BY <1>1, <1>2, FS_Subset
  <1>4. ASSUME NEW j \in 0..i
        PROVE  Cardinality(TokensUpTo(c, j)) <= Cardinality(TokensUpTo(c, i))
    <2>1. TokensUpTo(c, j) \in SUBSET TokensUpTo(c, i)
      BY DEF TokensUpTo
    <2> QED BY <1>3, <2>1, FS_Subset
  <1> QED BY <1>3, <1>4, FS_CardinalityType

\* A message at the end counts if it is a queue message, and changes no earlier count.
LEMMA TokensAppend ==
  ASSUME NEW c \in Seq(Message), NEW m \in Message
  PROVE  /\ \A i \in 0..Len(c) : TokensUpTo(Append(c, m), i) = TokensUpTo(c, i)
         /\ Cardinality(TokensUpTo(Append(c, m), Len(c) + 1)) =
              Cardinality(TokensUpTo(c, Len(c))) + (IF m.t = "queue" THEN 1 ELSE 0)
  <1>1. \A i \in 0..Len(c) : TokensUpTo(Append(c, m), i) = TokensUpTo(c, i)
    BY DEF TokensUpTo
  <1>2. TokensUpTo(Append(c, m), Len(c) + 1) =
          TokensUpTo(c, Len(c)) \cup (IF m.t = "queue" THEN {Len(c) + 1} ELSE {})
    BY DEF TokensUpTo
  <1>3. Len(c) + 1 \notin TokensUpTo(c, Len(c))
    BY DEF TokensUpTo
  <1>4. IsFiniteSet(TokensUpTo(c, Len(c))) /\ Cardinality(TokensUpTo(c, Len(c))) \in Nat
    BY TokensFinite
  <1>5. CASE m.t = "queue"
    BY <1>1, <1>2, <1>3, <1>4, <1>5, FS_AddElement
  <1>6. CASE m.t # "queue"
    <2>1. TokensUpTo(Append(c, m), Len(c) + 1) = TokensUpTo(c, Len(c))
      BY <1>2, <1>6
    <2> QED BY <1>1, <1>4, <1>6, <2>1
  <1> QED BY <1>5, <1>6

\* Without the first message, every count is less by that message.
LEMMA TokensTail ==
  ASSUME NEW c \in Seq(Message), c # <<>>, NEW i \in 0..Len(c)-1
  PROVE  Cardinality(TokensUpTo(c, i + 1)) =
           Cardinality(TokensUpTo(Tail(c), i)) + (IF Head(c).t = "queue" THEN 1 ELSE 0)
  <1> DEFINE S == TokensUpTo(Tail(c), i)
             T == TokensUpTo(c, i + 1) \ {1}
             g == [j \in S |-> j + 1]
  <1>1. Tail(c) \in Seq(Message) /\ Len(Tail(c)) = Len(c) - 1 /\ \A j \in 1..Len(c)-1 : Tail(c)[j] = c[j+1]
    BY HeadTailProperties
  <1>2. IsFiniteSet(S) /\ Cardinality(S) \in Nat
    BY <1>1, TokensFinite
  <1>3. IsFiniteSet(TokensUpTo(c, i + 1)) /\ Cardinality(TokensUpTo(c, i + 1)) \in Nat
    BY TokensFinite
  <1>4. g \in Bijection(S, T)
    <2>1. \A j \in S : j \in 1..i /\ j + 1 \in T
      BY <1>1 DEF TokensUpTo
    <2>2. \A k \in T : k - 1 \in S /\ k = (k - 1) + 1
      BY <1>1 DEF TokensUpTo
    <2>3. g \in [S -> T]
      BY <2>1
    <2>4. \A a, b \in S : g[a] = g[b] => a = b
      BY <2>1
    <2>5. \A k \in T : \E j \in S : g[j] = k
      BY <2>2
    <2> QED BY <2>3, <2>4, <2>5 DEF Bijection, Injection, Surjection, IsInjective
  <1>5. Cardinality(T) = Cardinality(S)
    BY <1>2, <1>4, FS_Bijection DEF ExistsBijection
  <1>6. 1 \in TokensUpTo(c, i + 1) <=> Head(c).t = "queue"
    BY DEF TokensUpTo
  <1>7. Cardinality(T) = IF 1 \in TokensUpTo(c, i + 1) THEN Cardinality(TokensUpTo(c, i + 1)) - 1
                         ELSE Cardinality(TokensUpTo(c, i + 1))
    BY <1>3, FS_RemoveElement
  <1> QED BY <1>2, <1>3, <1>5, <1>6, <1>7

-----------------------------------------------------------------------------
(* Which frame a message stands for.                                       *)

\* The frame of a queue message is in the queue, after the o frames already claimed.
LEMMA ContentInQueue ==
  ASSUME NEW c \in Seq(Message), NEW q \in Seq(Frame), NEW o \in 0..1, InStep(c, q, o),
         NEW i \in 1..Len(c), c[i].t = "queue"
  PROVE  o + Cardinality(TokensUpTo(c, i)) \in o+1..Len(q)
  <1>1. Cardinality(TokensUpTo(c, i)) \in Nat /\ Cardinality(TokensUpTo(c, Len(c))) \in Nat
    BY TokensFinite
  <1>2. Cardinality(TokensUpTo(c, i)) <= Cardinality(TokensUpTo(c, Len(c)))
    BY TokensFinite
  <1>3. Cardinality(TokensUpTo(c, i)) # 0
    <2>1. i \in TokensUpTo(c, i) /\ IsFiniteSet(TokensUpTo(c, i))
      BY TokensFinite DEF TokensUpTo
    <2> QED BY <2>1, FS_EmptySet
  <1> QED BY <1>1, <1>2, <1>3 DEF InStep

\* A key frame or a reset at the end: the frames of the other messages stay the same.
Appended(c, q, o, m) ==
  /\ InStep(Append(c, m), q, o)
  /\ \A i \in 1..Len(c) : Contents(Append(c, m), q, o)[i] = Contents(c, q, o)[i]
  /\ m.t = "frame" => Contents(Append(c, m), q, o)[Len(c) + 1] = m.f

\* What is in the queue does not depend on it.
LEMMA ContentsAppend ==
  ASSUME NEW c \in Seq(Message), NEW q \in Seq(Frame), NEW o \in 0..1, InStep(c, q, o),
         NEW m \in Message, m.t # "queue"
  PROVE  Appended(c, q, o, m)
  <1>1. Len(Append(c, m)) = Len(c) + 1 /\ Append(c, m)[Len(c) + 1] = m
        /\ \A i \in 1..Len(c) : Append(c, m)[i] = c[i]
    OBVIOUS
  <1>2. InStep(Append(c, m), q, o)
    BY <1>1, TokensAppend, TokensFinite DEF InStep
  <1>3. \A i \in 1..Len(c) : TokensUpTo(Append(c, m), i) = TokensUpTo(c, i)
    BY TokensAppend
  <1> QED BY <1>1, <1>2, <1>3 DEF Appended, Contents

\* A frame at the end of the queue and a queue message at the end of the channel.
Queued(c, q, o, m, f) ==
  /\ InStep(Append(c, m), Append(q, f), o)
  /\ \A i \in 1..Len(c) : c[i].t # "reset" =>
       Contents(Append(c, m), Append(q, f), o)[i] = Contents(c, q, o)[i]
  /\ Contents(Append(c, m), Append(q, f), o)[Len(c) + 1] = f

\* The new message stands for the new frame.
LEMMA ContentsQueued ==
  ASSUME NEW c \in Seq(Message), NEW q \in Seq(Frame), NEW o \in 0..1, InStep(c, q, o),
         NEW m \in Message, m.t = "queue", NEW f \in Frame
  PROVE  Queued(c, q, o, m, f)
  <1>1. Len(Append(c, m)) = Len(c) + 1 /\ Append(c, m)[Len(c) + 1] = m
        /\ \A i \in 1..Len(c) : Append(c, m)[i] = c[i]
    OBVIOUS
  <1>2. Len(Append(q, f)) = Len(q) + 1 /\ Append(q, f)[Len(q) + 1] = f
        /\ \A i \in 1..Len(q) : Append(q, f)[i] = q[i]
    OBVIOUS
  <1>3. Cardinality(TokensUpTo(Append(c, m), Len(c) + 1)) = Cardinality(TokensUpTo(c, Len(c))) + 1
    BY TokensAppend
  <1>4. Cardinality(TokensUpTo(c, Len(c))) \in Nat
    BY TokensFinite
  <1>5. InStep(Append(c, m), Append(q, f), o)
    BY <1>1, <1>2, <1>3, <1>4 DEF InStep
  <1>6. ASSUME NEW i \in 1..Len(c), c[i].t # "reset"
        PROVE  Contents(Append(c, m), Append(q, f), o)[i] = Contents(c, q, o)[i]
    <2>1. TokensUpTo(Append(c, m), i) = TokensUpTo(c, i)
      BY TokensAppend
    <2>2. CASE c[i].t = "frame"
      BY <1>1, <2>2 DEF Contents
    <2>3. CASE c[i].t = "queue"
      <3>1. o + Cardinality(TokensUpTo(c, i)) \in 1..Len(q)
        BY <2>3, ContentInQueue
      <3> QED BY <1>1, <1>2, <2>1, <2>3, <3>1 DEF Contents
    <2>4. c[i].t \in {"frame", "queue", "reset"}
      <3>1. c[i] \in Message
        BY ElementOfSeq
      <3> QED BY <3>1 DEF Message
    <2> QED BY <1>6, <2>2, <2>3, <2>4
  <1>7. Contents(Append(c, m), Append(q, f), o)[Len(c) + 1] = f
    BY <1>1, <1>2, <1>3, <1>4 DEF Contents, InStep
  <1> QED BY <1>5, <1>6, <1>7 DEF Queued

\* The first message leaves the channel; a queue message claims a frame.
Left(c, q, o) ==
  /\ InStep(Tail(c), q, o)
  /\ \A i \in 1..Len(c)-1 : Contents(Tail(c), q, o)[i] = Contents(c, q, 0)[i + 1]
  /\ Head(c).t = "queue" => Contents(c, q, 0)[1] = q[1]
  /\ Head(c).t = "frame" => Contents(c, q, 0)[1] = Head(c).f

\* The frames of the other messages stay the same.
LEMMA ContentsTail ==
  ASSUME NEW c \in Seq(Message), c # <<>>, NEW q \in Seq(Frame), InStep(c, q, 0),
         NEW o, o = IF Head(c).t = "queue" THEN 1 ELSE 0
  PROVE  Left(c, q, o)
  <1>1. Tail(c) \in Seq(Message) /\ Len(Tail(c)) = Len(c) - 1 /\ \A j \in 1..Len(c)-1 : Tail(c)[j] = c[j+1]
    BY HeadTailProperties
  <1>2. Head(c) = c[1] /\ Len(c) \in Nat \ {0}
    OBVIOUS
  <1>3. \A i \in 0..Len(c)-1 : Cardinality(TokensUpTo(c, i + 1)) = Cardinality(TokensUpTo(Tail(c), i)) + o
    BY TokensTail
  <1>4. \A i \in 0..Len(c)-1 : Cardinality(TokensUpTo(Tail(c), i)) \in Nat
    BY <1>1, TokensFinite
  <1>5. InStep(Tail(c), q, o)
    BY <1>1, <1>2, <1>3, <1>4 DEF InStep
  <1>6. ASSUME NEW i \in 1..Len(c)-1
        PROVE  Contents(Tail(c), q, o)[i] = Contents(c, q, 0)[i + 1]
    <2>1. o + Cardinality(TokensUpTo(Tail(c), i)) = 0 + Cardinality(TokensUpTo(c, i + 1))
      BY <1>3, <1>4
    <2> QED BY <1>1, <1>2, <2>1 DEF Contents
  <1>7. Head(c).t = "queue" => Contents(c, q, 0)[1] = q[1]
    <2>1. TokensUpTo(Tail(c), 0) = {}
      BY DEF TokensUpTo
    <2>2. Head(c).t = "queue" => Cardinality(TokensUpTo(c, 0 + 1)) = 1
      <3>1. 0 \in 0..Len(c)-1
        BY <1>2
      <3>2. Cardinality(TokensUpTo(c, 0 + 1)) = Cardinality(TokensUpTo(Tail(c), 0)) + o
        BY <1>3, <3>1
      <3>3. Cardinality(TokensUpTo(Tail(c), 0)) = 0
        BY <2>1, FS_EmptySet
      <3> QED BY <3>2, <3>3
    <2> QED BY <1>2, <2>2 DEF Contents
  <1>8. Head(c).t = "frame" => Contents(c, q, 0)[1] = Head(c).f
    BY <1>2 DEF Contents
  <1> QED BY <1>5, <1>6, <1>7, <1>8 DEF Left

\* The claimed frame leaves the queue.
LEMMA ContentsPop ==
  ASSUME NEW c \in Seq(Message), NEW q \in Seq(Frame), q # <<>>, InStep(c, q, 1)
  PROVE  /\ InStep(c, Tail(q), 0)
         /\ \A i \in 1..Len(c) : c[i].t # "reset" => Contents(c, Tail(q), 0)[i] = Contents(c, q, 1)[i]
  <1>1. Tail(q) \in Seq(Frame) /\ Len(Tail(q)) = Len(q) - 1 /\ \A j \in 1..Len(q)-1 : Tail(q)[j] = q[j+1]
    BY HeadTailProperties
  <1>2. \A i \in 0..Len(c) : Cardinality(TokensUpTo(c, i)) \in Nat
    BY TokensFinite
  <1>3. InStep(c, Tail(q), 0)
    BY <1>1, <1>2 DEF InStep
  <1>4. ASSUME NEW i \in 1..Len(c), c[i].t # "reset"
        PROVE  Contents(c, Tail(q), 0)[i] = Contents(c, q, 1)[i]
    <2>1. CASE c[i].t = "frame"
      BY <2>1 DEF Contents
    <2>2. CASE c[i].t = "queue"
      <3>1. 1 + Cardinality(TokensUpTo(c, i)) \in 2..Len(q)
        BY <2>2, ContentInQueue
      <3> QED BY <1>1, <1>2, <2>2, <3>1 DEF Contents
    <2>3. c[i].t \in {"frame", "queue", "reset"}
      <3>1. c[i] \in Message
        BY ElementOfSeq
      <3> QED BY <3>1 DEF Message
    <2> QED BY <1>4, <2>1, <2>2, <2>3
  <1> QED BY <1>3, <1>4

-----------------------------------------------------------------------------
(* The order of the frames.                                                *)

\* Only the frames matter, not what stands beside a reset.
LEMMA OrderSame ==
  ASSUME NEW c \in Seq(Message), NEW K, NEW L, NEW P, NEW p, InOrder(c, K, P, p),
         \A i \in 1..Len(c) : c[i].t # "reset" => L[i] = K[i]
  PROVE  InOrder(c, L, P, p)
  BY DEF InOrder

\* More may come first.
LEMMA OrderWeaker ==
  ASSUME NEW c \in Seq(Message), NEW K, NEW P, NEW Q, NEW p, InOrder(c, K, P, p), P \subseteq Q
  PROVE  InOrder(c, K, Q, p)
  BY DEF InOrder, Follows

\* A reset at the end changes nothing.
LEMMA OrderReset ==
  ASSUME NEW c \in Seq(Message), NEW m \in Message, m.t = "reset", NEW K, NEW L, NEW P, NEW p,
         InOrder(c, K, P, p), \A i \in 1..Len(c) : L[i] = K[i]
  PROVE  InOrder(Append(c, m), L, P, p)
  <1> DEFINE a == Append(c, m)
  <1>1. Len(a) = Len(c) + 1 /\ a[Len(c) + 1] = m /\ (\A i \in 1..Len(c) : a[i] = c[i]) /\ Len(c) \in Nat
    OBVIOUS
  <1> HIDE DEF a
  <1>2. \A i \in 0..Len(c), j \in 1..Len(c)+1 : ResetsBetween(a, i, j) => ResetsBetween(c, i, j)
    BY <1>1 DEF ResetsBetween
  <1>3. \A i \in 0..Len(c) : ResetsBetween(a, i, Len(a) + 1) => ResetsBetween(c, i, Len(c) + 1)
    BY <1>1 DEF ResetsBetween
  <1>4. \A i \in 1..Len(a) : a[i].t # "reset" => i \in 1..Len(c) /\ c[i].t # "reset" /\ L[i] = K[i]
    BY <1>1
  <1>5. ASSUME NEW i \in 1..Len(a), NEW j \in 1..Len(a), i < j, a[i].t # "reset", a[j].t # "reset",
               ResetsBetween(a, i, j)
        PROVE  Follows(Itself(L[i]), L[j])
    <2>1. i \in 0..Len(c) /\ j \in 1..Len(c)+1 /\ i \in 1..Len(c) /\ j \in 1..Len(c)
      BY <1>1, <1>4, <1>5
    <2>2. ResetsBetween(c, i, j) /\ c[i].t # "reset" /\ c[j].t # "reset" /\ L[i] = K[i] /\ L[j] = K[j]
      BY <1>2, <1>4, <1>5, <2>1
    <2> QED BY <1>5, <2>1, <2>2 DEF InOrder
  <1>6. ASSUME NEW j \in 1..Len(a), a[j].t # "reset", ResetsBetween(a, 0, j)
        PROVE  Follows(P, L[j])
    <2>1. j \in 1..Len(c)+1 /\ j \in 1..Len(c) /\ 0 \in 0..Len(c)
      BY <1>1, <1>4, <1>6
    <2>2. ResetsBetween(c, 0, j) /\ c[j].t # "reset" /\ L[j] = K[j]
      BY <1>2, <1>4, <1>6, <2>1
    <2> QED BY <2>1, <2>2 DEF InOrder
  <1>7. ASSUME NEW i \in 1..Len(a), a[i].t # "reset", ResetsBetween(a, i, Len(a) + 1)
        PROVE  p \in Itself(L[i])
    <2>1. i \in 0..Len(c) /\ i \in 1..Len(c)
      BY <1>1, <1>4, <1>7
    <2>2. ResetsBetween(c, i, Len(c) + 1) /\ c[i].t # "reset" /\ L[i] = K[i]
      BY <1>3, <1>4, <1>7, <2>1
    <2> QED BY <2>1, <2>2 DEF InOrder
  <1>8. ResetsBetween(a, 0, Len(a) + 1) => p \in P
    BY <1>1, <1>3 DEF InOrder
  <1>9. InOrder(a, L, P, p)
    BY <1>5, <1>6, <1>7, <1>8, Zenon DEF InOrder
  <1> QED BY <1>9 DEF a

\* A frame at the end follows the last one.
LEMMA OrderAppend ==
  ASSUME NEW c \in Seq(Message), NEW m \in Message, m.t # "reset", NEW K, NEW L, NEW P, NEW p, NEW f,
         InOrder(c, K, P, p), \A i \in 1..Len(c) : c[i].t # "reset" => L[i] = K[i],
         L[Len(c) + 1] = f, Follows({p}, f)
  PROVE  InOrder(Append(c, m), L, P, <<f.fmt, f.id>>)
  <1> DEFINE a == Append(c, m)
  <1>1. Len(a) = Len(c) + 1 /\ a[Len(c) + 1] = m /\ (\A i \in 1..Len(c) : a[i] = c[i]) /\ Len(c) \in Nat
    OBVIOUS
  <1> HIDE DEF a
  <1>2. \A i \in 0..Len(c), j \in 1..Len(c)+1 : ResetsBetween(a, i, j) => ResetsBetween(c, i, j)
    BY <1>1 DEF ResetsBetween
  <1>3. \A i \in 0..Len(c) : ~ResetsBetween(a, i, Len(a) + 1)
    BY <1>1 DEF ResetsBetween
  <1>4. ASSUME NEW i \in 1..Len(a), NEW j \in 1..Len(a), i < j, a[i].t # "reset", a[j].t # "reset",
               ResetsBetween(a, i, j)
        PROVE  Follows(Itself(L[i]), L[j])
    <2>1. i \in 1..Len(c) /\ c[i].t # "reset" /\ L[i] = K[i] /\ ResetsBetween(c, i, j)
      BY <1>1, <1>2, <1>4
    <2>2. CASE j \in 1..Len(c)
      BY <1>1, <1>4, <2>1, <2>2 DEF InOrder
    <2>3. CASE j = Len(c) + 1
      <3>1. p \in Itself(K[i])
        BY <2>1, <2>3 DEF InOrder
      <3> QED BY <2>1, <2>3, <3>1 DEF Follows
    <2> QED BY <1>1, <2>2, <2>3
  <1>5. ASSUME NEW j \in 1..Len(a), a[j].t # "reset", ResetsBetween(a, 0, j)
        PROVE  Follows(P, L[j])
    <2>1. ResetsBetween(c, 0, j)
      BY <1>1, <1>2, <1>5
    <2>2. CASE j \in 1..Len(c)
      BY <1>1, <1>5, <2>1, <2>2 DEF InOrder
    <2>3. CASE j = Len(c) + 1
      <3>1. p \in P
        BY <2>1, <2>3 DEF InOrder
      <3> QED BY <2>3, <3>1 DEF Follows
    <2> QED BY <1>1, <2>2, <2>3
  <1>6. ASSUME NEW i \in 1..Len(a), a[i].t # "reset", ResetsBetween(a, i, Len(a) + 1)
        PROVE  <<f.fmt, f.id>> \in Itself(L[i])
    <2>1. i = Len(c) + 1
      BY <1>1, <1>3, <1>6
    <2> QED BY <2>1 DEF Itself
  <1>7. ~ResetsBetween(a, 0, Len(a) + 1)
    BY <1>1, <1>3
  <1>8. InOrder(a, L, P, <<f.fmt, f.id>>)
    BY <1>4, <1>5, <1>6, <1>7, Zenon DEF InOrder
  <1> QED BY <1>8 DEF a

\* The first message leaves the channel: what follows a frame then comes first.
LEMMA OrderTail ==
  ASSUME NEW c \in Seq(Message), c # <<>>, NEW K, NEW L, NEW P, NEW p, InOrder(c, K, P, p),
         \A i \in 1..Len(c)-1 : L[i] = K[i + 1]
  PROVE  InOrder(Tail(c), L, IF Head(c).t = "reset" THEN P ELSE Itself(K[1]), p)
  <1> DEFINE b == Tail(c)
  <1>1. Len(b) = Len(c) - 1 /\ (\A i \in 1..Len(b) : b[i] = c[i + 1] /\ L[i] = K[i + 1])
        /\ Len(c) \in Nat \ {0} /\ Head(c) = c[1]
    BY HeadTailProperties
  <1> HIDE DEF b
  <1>2. \A i \in 0..Len(b), j \in 1..Len(b)+1 : ResetsBetween(b, i, j) => ResetsBetween(c, i + 1, j + 1)
    <2> SUFFICES ASSUME NEW i \in 0..Len(b), NEW j \in 1..Len(b)+1, ResetsBetween(b, i, j),
                        NEW k \in i+2..j
                 PROVE  c[k].t = "reset"
      BY DEF ResetsBetween
    <2>1. k - 1 \in i+1..j-1 /\ k - 1 \in 1..Len(b) /\ k = (k - 1) + 1
      BY <1>1
    <2>2. b[k - 1].t = "reset"
      BY <2>1 DEF ResetsBetween
    <2>3. b[k - 1] = c[(k - 1) + 1]
      BY <1>1, <2>1
    <2> QED BY <2>1, <2>2, <2>3
  <1>3. \A j \in 1..Len(c)+1 : c[1].t = "reset" /\ ResetsBetween(c, 1, j) => ResetsBetween(c, 0, j)
    BY <1>1 DEF ResetsBetween
  <1>4. ASSUME NEW i \in 1..Len(b), NEW j \in 1..Len(b), i < j, b[i].t # "reset", b[j].t # "reset",
               ResetsBetween(b, i, j)
        PROVE  Follows(Itself(L[i]), L[j])
    <2>1. i + 1 \in 1..Len(c) /\ j + 1 \in 1..Len(c) /\ i + 1 < j + 1
      BY <1>1, <1>4
    <2>2. ResetsBetween(c, i + 1, j + 1)
      <3>1. i \in 0..Len(b) /\ j \in 1..Len(b)+1
        BY <1>1
      <3> QED BY <1>2, <1>4, <3>1
    <2> QED BY <1>1, <1>4, <2>1, <2>2 DEF InOrder
  <1>5. ASSUME NEW j \in 1..Len(b), b[j].t # "reset", ResetsBetween(b, 0, j)
        PROVE  Follows(IF Head(c).t = "reset" THEN P ELSE Itself(K[1]), L[j])
    <2>1. ResetsBetween(c, 1, j + 1) /\ j + 1 \in 1..Len(c) /\ 1 < j + 1 /\ c[j + 1].t # "reset" /\ L[j] = K[j + 1]
      BY <1>1, <1>2, <1>5
    <2>2. CASE c[1].t = "reset"
      BY <1>1, <1>3, <2>1, <2>2 DEF InOrder
    <2>3. CASE c[1].t # "reset"
      BY <1>1, <2>1, <2>3 DEF InOrder
    <2> QED BY <2>2, <2>3
  <1>6. ASSUME NEW i \in 1..Len(b), b[i].t # "reset", ResetsBetween(b, i, Len(b) + 1)
        PROVE  p \in Itself(L[i])
    <2>1. ResetsBetween(c, i + 1, Len(c) + 1) /\ i + 1 \in 1..Len(c) /\ c[i + 1].t # "reset" /\ L[i] = K[i + 1]
      BY <1>1, <1>2, <1>6
    <2> QED BY <2>1 DEF InOrder
  <1>7. ASSUME ResetsBetween(b, 0, Len(b) + 1)
        PROVE  p \in IF Head(c).t = "reset" THEN P ELSE Itself(K[1])
    <2>1. ResetsBetween(c, 1, Len(c) + 1)
      BY <1>1, <1>2, <1>7
    <2> QED BY <1>1, <1>3, <2>1 DEF InOrder
  <1> QED BY <1>4, <1>5, <1>6, <1>7 DEF InOrder, b

-----------------------------------------------------------------------------
(* Steps that leave the frames of a display alone.                         *)

Between == {"recv", "mark", "report", "exited"}
Same(d) ==
  /\ chan'[d] = chan[d] /\ queue'[d] = queue[d] /\ cur'[d] = cur[d] /\ handler'[d] = handler[d]
  /\ peer'[d].fmt = peer[d].fmt /\ peer'[d].id = peer[d].id
  /\ pc'[d] = pc[d] \/ (pc[d] \in Between /\ pc'[d] \in Between)
  /\ discard[d] => discard'[d]
  /\ d \in evicted => d \in evicted'
  /\ d \in broken' => d \in broken

\* Discarding lets the decoder be given anything; nothing else of the order changes.
LEMMA SameKept ==
  ASSUME NEW d \in Display, Types, Types', Same(d), Kept(d)
  PROVE  Kept(d)'
  <1>1. Popped(d)' = Popped(d)
    BY DEF Same, Popped, Between
  <1>2. Decoded(d) \subseteq Decoded(d)'
    <2>1. handler[d].fmt \in Codec /\ handler[d].last \in 0..Ids+2
      BY DEF Types, Handler
    <2>2. CASE discard'[d] /\ ~discard[d]
      <3>1. CASE handler[d].last = AfterReset
        BY <2>1, <2>2, <3>1 DEF Decoded
      <3>2. CASE handler[d].last # AfterReset
        BY <2>1, <2>2, <3>2 DEF Decoded
      <3> QED BY <3>1, <3>2
    <2>3. CASE discard'[d] = discard[d]
      BY <2>3 DEF Decoded, Same
    <2> QED BY <2>2, <2>3 DEF Same, Types
  <1>3. Held(d) \subseteq Held(d)'
    BY <1>2 DEF Held, Same, Between
  <1>4. OrderKept(d)'
    <2> SUFFICES ASSUME pc'[d] # "none", d \notin evicted'
                 PROVE  /\ pc'[d] = "pop" => Follows(Decoded(d)', queue'[d][1])
                        /\ pc'[d] = "check" => Follows(Decoded(d)', cur'[d])
                        /\ InOrder(chan'[d], Contents(chan'[d], queue'[d], Popped(d)'), Held(d)',
                                   <<peer'[d].fmt, peer'[d].id>>)
      BY DEF OrderKept
    <2>1. pc[d] # "none" /\ d \notin evicted
      BY DEF Same, Between
    <2>2. InOrder(chan[d], Contents(chan[d], queue[d], Popped(d)), Held(d), <<peer[d].fmt, peer[d].id>>)
      BY <2>1 DEF Kept, OrderKept
    <2>3. InOrder(chan[d], Contents(chan[d], queue[d], Popped(d)), Held(d)', <<peer[d].fmt, peer[d].id>>)
      BY <1>3, <2>2, OrderWeaker DEF Types
    <2>4. InOrder(chan'[d], Contents(chan'[d], queue'[d], Popped(d)'), Held(d)', <<peer'[d].fmt, peer'[d].id>>)
      BY <1>1, <2>3 DEF Same
    <2>5. pc'[d] = "pop" => Follows(Decoded(d)', queue'[d][1])
      BY <1>2, <2>1 DEF Kept, OrderKept, Same, Between, Follows
    <2>6. pc'[d] = "check" => Follows(Decoded(d)', cur'[d])
      BY <1>2, <2>1 DEF Kept, OrderKept, Same, Between, Follows
    <2> QED BY <2>4, <2>5, <2>6
  <1>5. InStep(chan[d], queue[d], Popped(d))'
    BY <1>1 DEF Kept, Same, InStep
  <1> QED BY <1>4, <1>5 DEF Kept, Same, Between

-----------------------------------------------------------------------------
(* Frames that arrive.                                                     *)

\* The number of a frame follows that of its predecessor, around Ids.
LEMMA Numbered ==
  ASSUME Sizes, NEW n \in 0..Ids-1
  PROVE  (n + 1) % Ids \in 0..Ids-1 /\ Before((n + 1) % Ids) = n
  <1>1. CASE n + 1 = Ids
    <2>1. (n + 1) % Ids = 0
      BY <1>1 DEF Sizes
    <2>2. (Ids - 1) % Ids = Ids - 1
      BY DEF Sizes
    <2>3. Before(0) = (Ids - 1) % Ids
      BY DEF Before, Sizes
    <2> QED BY <1>1, <2>1, <2>2, <2>3 DEF Sizes
  <1>2. CASE n + 1 < Ids
    <2>1. (n + 1) % Ids = n + 1
      BY <1>2 DEF Sizes
    <2>2. (n + Ids) % Ids = n
      BY <1>2 DEF Sizes
    <2>3. Before(n + 1) = (n + Ids) % Ids
      BY DEF Before, Sizes
    <2> QED BY <1>2, <2>1, <2>2, <2>3 DEF Sizes
  <1> QED BY <1>1, <1>2 DEF Sizes

\* What PeerSends does to the stream of d, and the frame it sends.
LEMMA Sent ==
  ASSUME Sizes, Types, NEW d \in Display, NEW key \in BOOLEAN, NEW fmt \in Codec, PeerSends(d, key, fmt)
  PROVE  LET f == NextFrame(d, key, fmt) IN
         /\ f \in Frame /\ (key => MKey(f) \in Message) /\ MQueue \in Message
         /\ f.key = key /\ f.fmt = peer'[d].fmt /\ f.id = peer'[d].id
         /\ peer' \in [Display -> [fmt : Codec, id : 0..Ids-1, asked : BOOLEAN, on : BOOLEAN]]
         /\ \A e \in Display \ {d} : peer'[e] = peer[e]
         /\ Follows({<<peer[d].fmt, peer[d].id>>}, f)
  <1> DEFINE n == (peer[d].id + 1) % Ids
  <1>1. peer[d].id \in 0..Ids-1 /\ peer[d].fmt \in Codec /\ peer[d].asked \in BOOLEAN
    BY DEF Types
  <1>2. n \in 0..Ids-1 /\ Before(n) = peer[d].id
    BY <1>1, Numbered
  <1> HIDE DEF n
  <1>3. peer' = [peer EXCEPT ![d] = [fmt |-> fmt, id |-> n, asked |-> peer[d].asked /\ ~key, on |-> TRUE]]
    BY DEF PeerSends, n, Types
  <1>4. NextFrame(d, key, fmt) = [key |-> key, fmt |-> fmt, id |-> n, post |-> d \in stale]
    BY DEF NextFrame, n
  <1>5. (peer[d].asked /\ ~key) \in BOOLEAN /\ (d \in stale) \in BOOLEAN
    OBVIOUS
  <1>6. NextFrame(d, key, fmt) \in Frame
    BY <1>2, <1>4, <1>5 DEF Frame
  <1>7. NoFrame \in Frame
    BY DEF NoFrame, Frame, Sizes
  <1>8. peer' \in [Display -> [fmt : Codec, id : 0..Ids-1, asked : BOOLEAN, on : BOOLEAN]]
    BY <1>2, <1>3, <1>5 DEF Types
  <1>9. key \/ fmt = peer[d].fmt
    BY DEF PeerSends
  <1>10. peer'[d].fmt = fmt /\ peer'[d].id = n /\ \A e \in Display \ {d} : peer'[e] = peer[e]
    BY <1>3 DEF Types
  <1>11. Follows({<<peer[d].fmt, peer[d].id>>}, NextFrame(d, key, fmt))
    BY <1>2, <1>4, <1>9 DEF Follows
  <1>12. MQueue \in Message
    BY <1>7 DEF MQueue, Message
  <1>13. NextFrame(d, key, fmt).key = key /\ NextFrame(d, key, fmt).fmt = fmt /\ NextFrame(d, key, fmt).id = n
    BY <1>4
  <1>14. key => MKey(NextFrame(d, key, fmt)) \in Message
    BY <1>6, <1>13 DEF MKey, Message
  <1> QED BY <1>6, <1>8, <1>10, <1>11, <1>12, <1>13, <1>14

\* A key frame goes into the channel.
LEMMA KeyFrameKept ==
  ASSUME Sizes, VideoInv, NEW d \in Display, NEW fmt \in Codec, VideoFrame(d, TRUE, fmt)
  PROVE  VideoInv'
  <1> DEFINE f == NextFrame(d, TRUE, fmt)
             p == <<peer[d].fmt, peer[d].id>>
             K == Contents(chan[d], queue[d], Popped(d))
             L == Contents(Append(chan[d], MKey(f)), queue[d], Popped(d))
  <1>1. /\ Types /\ Kept(d) /\ pc[d] # "none" /\ PeerSends(d, TRUE, fmt)
        /\ chan' = [chan EXCEPT ![d] = Append(@, MKey(f))]
        /\ UNCHANGED <<queue, discard, pc, cur, handler, marks, reports, known, evicted, broken>>
    BY DEF VideoInv, VideoFrame, handle_key_frame
  <1>2. /\ f \in Frame /\ MKey(f) \in Message /\ f.key
        /\ <<f.fmt, f.id>> = <<peer'[d].fmt, peer'[d].id>> /\ Follows({p}, f)
        /\ peer' \in [Display -> [fmt : Codec, id : 0..Ids-1, asked : BOOLEAN, on : BOOLEAN]]
        /\ \A e \in Display \ {d} : peer'[e] = peer[e]
    BY <1>1, Sent
  <1>3. MKey(f).t = "frame" /\ MKey(f).f = f
    BY DEF MKey
  <1> HIDE DEF f
  <1>4. chan[d] \in Seq(Message) /\ queue[d] \in Seq(Frame) /\ Popped(d) \in 0..1
    BY <1>1 DEF Types, Popped
  <1>5. chan'[d] = Append(chan[d], MKey(f)) /\ \A e \in Display \ {d} : chan'[e] = chan[e]
    BY <1>1 DEF Types
  <1>6. Types'
    <2>1. chan' \in [Display -> Seq(Message)]
      BY <1>1, <1>2, <1>4 DEF Types
    <2> QED BY <1>1, <1>2, <2>1 DEF Types
  <1>7. InStep(Append(chan[d], MKey(f)), queue[d], Popped(d)) /\ (\A i \in 1..Len(chan[d]) : L[i] = K[i])
        /\ L[Len(chan[d]) + 1] = f
    <2>1. InStep(chan[d], queue[d], Popped(d)) /\ MKey(f).t # "queue"
      BY <1>1, <1>3 DEF Kept
    <2>2. Appended(chan[d], queue[d], Popped(d), MKey(f))
      BY <1>2, <1>4, <2>1, ContentsAppend
    <2> QED BY <1>3, <2>2 DEF Appended
  <1>8. d \notin evicted => InOrder(chan[d], K, Held(d), p)
    BY <1>1 DEF Kept, OrderKept
  <1> HIDE DEF K, L, p
  <1>9. d \notin evicted => InOrder(Append(chan[d], MKey(f)), L, Held(d), <<f.fmt, f.id>>)
    <2> SUFFICES ASSUME d \notin evicted PROVE InOrder(Append(chan[d], MKey(f)), L, Held(d), <<f.fmt, f.id>>)
      OBVIOUS
    <2>1. InOrder(chan[d], K, Held(d), p) /\ Follows({p}, f) /\ MKey(f).t # "reset"
      BY <1>2, <1>3, <1>8
    <2>2. \A i \in 1..Len(chan[d]) : chan[d][i].t # "reset" => L[i] = K[i]
      BY <1>7
    <2> QED BY <1>2, <1>4, <1>7, <2>1, <2>2, OrderAppend, Zenon
  <1>10. Popped(d)' = Popped(d) /\ Held(d)' = Held(d) /\ Decoded(d)' = Decoded(d)
    BY <1>1 DEF Popped, Held, Decoded
  <1>11. Kept(d)'
    BY <1>1, <1>2, <1>5, <1>7, <1>9, <1>10 DEF Kept, OrderKept, L
  <1>12. ASSUME NEW e \in Display \ {d} PROVE Kept(e)'
    <2>1. Same(e)
      BY <1>1, <1>2, <1>5 DEF Same
    <2> QED BY <1>1, <1>6, <2>1, SameKept DEF VideoInv
  <1> QED BY <1>6, <1>11, <1>12 DEF VideoInv

\* Another frame goes into the queue and its message into the channel; a full queue
\* loses its oldest frame and gets no message.
LEMMA DeltaFrameKept ==
  ASSUME Sizes, VideoInv, NEW d \in Display, NEW fmt \in Codec, VideoFrame(d, FALSE, fmt)
  PROVE  VideoInv'
  <1> DEFINE f == NextFrame(d, FALSE, fmt)
             p == <<peer[d].fmt, peer[d].id>>
             K == Contents(chan[d], queue[d], Popped(d))
             L == Contents(Append(chan[d], MQueue), Append(queue[d], f), Popped(d))
  <1>1. /\ Types /\ Kept(d) /\ pc[d] # "none" /\ PeerSends(d, FALSE, fmt) /\ handle_delta_frame(d, f)
        /\ UNCHANGED <<discard, pc, cur, handler, marks, reports, known, broken>>
    BY DEF VideoInv, VideoFrame
  <1>2. /\ f \in Frame /\ MQueue \in Message
        /\ <<f.fmt, f.id>> = <<peer'[d].fmt, peer'[d].id>> /\ Follows({p}, f)
        /\ peer' \in [Display -> [fmt : Codec, id : 0..Ids-1, asked : BOOLEAN, on : BOOLEAN]]
        /\ \A e \in Display \ {d} : peer'[e] = peer[e]
    BY <1>1, Sent
  <1>3. MQueue.t = "queue"
    BY DEF MQueue
  <1> HIDE DEF f
  <1>4. chan[d] \in Seq(Message) /\ queue[d] \in Seq(Frame) /\ Popped(d) \in 0..1
    BY <1>1 DEF Types, Popped
  <1>5. Popped(d)' = Popped(d)
    BY <1>1 DEF Popped
  <1>6. CASE Len(queue[d]) = QueueSize
    <2>1. /\ queue' = [queue EXCEPT ![d] = Append(Tail(queue[d]), f)]
          /\ evicted' = evicted \cup {d} /\ UNCHANGED chan
      BY <1>1, <1>6 DEF handle_delta_frame
    <2>2. queue[d] # <<>>
      BY <1>4, <1>6 DEF Sizes
    <2>3. Append(Tail(queue[d]), f) \in Seq(Frame) /\ Len(Append(Tail(queue[d]), f)) = Len(queue[d])
      <3>1. Tail(queue[d]) \in Seq(Frame) /\ Len(Tail(queue[d])) = Len(queue[d]) - 1
        BY <1>4, <2>2, HeadTailProperties
      <3> QED BY <1>2, <1>4, <3>1, AppendProperties
    <2>4. queue'[d] = Append(Tail(queue[d]), f) /\ \A e \in Display \ {d} : queue'[e] = queue[e]
      BY <1>1, <2>1 DEF Types
    <2>5. Types'
      <3>1. queue' \in [Display -> Seq(Frame)]
        BY <1>1, <2>1, <2>3 DEF Types
      <3> QED BY <1>1, <1>2, <2>1, <3>1 DEF Types
    <2>6. Kept(d)'
      BY <1>1, <1>5, <2>1, <2>3, <2>4 DEF Kept, OrderKept, InStep
    <2>7. ASSUME NEW e \in Display \ {d} PROVE Kept(e)'
      <3>1. Same(e)
        BY <1>1, <1>2, <2>1, <2>4 DEF Same
      <3> QED BY <1>1, <2>5, <3>1, SameKept DEF VideoInv
    <2> QED BY <2>5, <2>6, <2>7 DEF VideoInv
  <1>7. CASE Len(queue[d]) # QueueSize
    <2>1. /\ queue' = [queue EXCEPT ![d] = Append(queue[d], f)]
          /\ chan' = [chan EXCEPT ![d] = Append(chan[d], MQueue)] /\ UNCHANGED evicted
      BY <1>1, <1>7 DEF handle_delta_frame
    <2>2. chan'[d] = Append(chan[d], MQueue) /\ queue'[d] = Append(queue[d], f)
          /\ \A e \in Display \ {d} : queue'[e] = queue[e] /\ chan'[e] = chan[e]
      BY <1>1, <2>1 DEF Types
    <2>3. Types'
      <3>1. queue' \in [Display -> Seq(Frame)] /\ chan' \in [Display -> Seq(Message)]
        BY <1>1, <1>2, <1>4, <2>1 DEF Types
      <3> QED BY <1>1, <1>2, <2>1, <3>1 DEF Types
    <2>4. /\ InStep(Append(chan[d], MQueue), Append(queue[d], f), Popped(d))
          /\ \A i \in 1..Len(chan[d]) : chan[d][i].t # "reset" => L[i] = K[i]
          /\ L[Len(chan[d]) + 1] = f
      <3>1. InStep(chan[d], queue[d], Popped(d))
        BY <1>1 DEF Kept
      <3>2. Queued(chan[d], queue[d], Popped(d), MQueue, f)
        BY <1>2, <1>3, <1>4, <3>1, ContentsQueued
      <3> QED BY <3>2, Zenon DEF Queued
    <2>5. pc[d] = "pop" => queue'[d][1] = queue[d][1]
      <3>1. pc[d] = "pop" => Len(queue[d]) >= 1
        <4>1. Cardinality(TokensUpTo(chan[d], Len(chan[d]))) \in Nat
          BY <1>4, TokensFinite
        <4>2. pc[d] = "pop" => Len(queue[d]) = 1 + Cardinality(TokensUpTo(chan[d], Len(chan[d])))
          BY <1>1 DEF Kept, InStep, Popped
        <4> QED BY <4>1, <4>2
      <3>2. queue'[d] = Append(queue[d], f)
        BY <2>2
      <3> QED BY <1>2, <1>4, <3>1, <3>2, AppendProperties
    <2>6. Held(d)' = Held(d) /\ Decoded(d)' = Decoded(d)
      BY <1>1, <2>5 DEF Held, Decoded
    <2>7. d \notin evicted => InOrder(chan[d], K, Held(d), p)
      BY <1>1 DEF Kept, OrderKept
    <2> HIDE DEF K, L, p
    <2>8. d \notin evicted => InOrder(Append(chan[d], MQueue), L, Held(d), <<f.fmt, f.id>>)
      <3> SUFFICES ASSUME d \notin evicted PROVE InOrder(Append(chan[d], MQueue), L, Held(d), <<f.fmt, f.id>>)
        OBVIOUS
      <3>1. InOrder(chan[d], K, Held(d), p) /\ Follows({p}, f) /\ MQueue.t # "reset"
        BY <1>2, <1>3, <2>7
      <3> QED BY <1>2, <1>4, <2>4, <3>1, OrderAppend, Zenon
    <2>9. Kept(d)'
      BY <1>1, <1>2, <1>5, <2>1, <2>2, <2>4, <2>5, <2>6, <2>8 DEF Kept, OrderKept, L
    <2>10. ASSUME NEW e \in Display \ {d} PROVE Kept(e)'
      <3>1. Same(e)
        BY <1>1, <1>2, <2>1, <2>2 DEF Same
      <3> QED BY <1>1, <2>3, <3>1, SameKept DEF VideoInv
    <2> QED BY <2>3, <2>9, <2>10 DEF VideoInv
  <1> QED BY <1>6, <1>7

\* The first frame of a display is a key frame, alone in a new channel.
LEMMA FirstFrameKept ==
  ASSUME Sizes, VideoInv, NEW d \in Display, NEW fmt \in Codec, new_video_thread(d, fmt)
  PROVE  VideoInv'
  <1> DEFINE f == NextFrame(d, TRUE, fmt)
  <1>1. /\ Types /\ Kept(d) /\ pc[d] = "none" /\ PeerSends(d, TRUE, fmt)
        /\ chan' = [chan EXCEPT ![d] = <<MKey(f)>>] /\ pc' = [pc EXCEPT ![d] = "recv"]
        /\ UNCHANGED <<queue, discard, cur, handler, marks, reports, known, evicted, broken>>
    BY DEF VideoInv, new_video_thread
  <1>2. /\ f \in Frame /\ MKey(f) \in Message /\ f.key
        /\ <<f.fmt, f.id>> = <<peer'[d].fmt, peer'[d].id>>
        /\ peer' \in [Display -> [fmt : Codec, id : 0..Ids-1, asked : BOOLEAN, on : BOOLEAN]]
        /\ \A e \in Display \ {d} : peer'[e] = peer[e]
    BY <1>1, Sent
  <1>3. MKey(f).t = "frame" /\ MKey(f).f = f
    BY DEF MKey
  <1> HIDE DEF f
  <1>4. chan'[d] = <<MKey(f)>> /\ pc'[d] = "recv" /\ queue'[d] = <<>>
        /\ \A e \in Display \ {d} : chan'[e] = chan[e] /\ pc'[e] = pc[e]
    BY <1>1 DEF Types, Kept
  <1>5. Types'
    <2>1. chan' \in [Display -> Seq(Message)] /\ pc' \in [Display -> {"none", "recv", "pop", "check", "mark", "report", "exited"}]
      BY <1>1, <1>2 DEF Types
    <2> QED BY <1>1, <1>2, <2>1 DEF Types
  <1>6. Kept(d)'
    <2> DEFINE c == <<MKey(f)>>
    <2>1. Len(c) = 1 /\ c[1] = MKey(f) /\ Popped(d)' = 0
      BY <1>4 DEF Popped
    <2>2. InStep(c, <<>>, 0)
      <3>1. TokensUpTo(c, Len(c)) = {}
        BY <1>3, <2>1 DEF TokensUpTo
      <3> QED BY <3>1, FS_EmptySet DEF InStep
    <2>3. Contents(c, <<>>, 0)[1] = f
      BY <1>3, <2>1 DEF Contents
    <2>4. InOrder(c, Contents(c, <<>>, 0), Held(d)', <<f.fmt, f.id>>)
      <3>1. Follows(Held(d)', f)
        BY <1>2 DEF Follows
      <3>2. ~ResetsBetween(c, 0, Len(c) + 1)
        BY <1>3, <2>1 DEF ResetsBetween
      <3> QED BY <2>1, <2>3, <3>1, <3>2 DEF InOrder, Itself
    <2> QED BY <1>1, <1>2, <1>4, <2>1, <2>2, <2>4 DEF Kept, OrderKept
  <1>7. ASSUME NEW e \in Display \ {d} PROVE Kept(e)'
    <2>1. Same(e)
      BY <1>1, <1>2, <1>4 DEF Same
    <2> QED BY <1>1, <1>5, <2>1, SameKept DEF VideoInv
  <1> QED BY <1>5, <1>6, <1>7 DEF VideoInv

\* A reset goes into the channel.
LEMMA ResetKept ==
  ASSUME Sizes, VideoInv, NEW d \in Display, ResetDecoder(d)
  PROVE  VideoInv'
  <1> DEFINE K == Contents(chan[d], queue[d], Popped(d))
             L == Contents(Append(chan[d], MReset), queue[d], Popped(d))
             p == <<peer[d].fmt, peer[d].id>>
  <1>1. /\ Types /\ Kept(d) /\ pc[d] # "none" /\ chan' = [chan EXCEPT ![d] = Append(chan[d], MReset)]
        /\ UNCHANGED <<queue, discard, pc, cur, handler, marks, reports, known, peer, evicted, broken>>
    BY DEF VideoInv, ResetDecoder
  <1>2. MReset \in Message /\ MReset.t = "reset"
    BY DEF MReset, Message, NoFrame, Frame, Sizes
  <1>3. chan[d] \in Seq(Message) /\ queue[d] \in Seq(Frame) /\ Popped(d) \in 0..1
    BY <1>1 DEF Types, Popped
  <1>4. chan'[d] = Append(chan[d], MReset) /\ \A e \in Display \ {d} : chan'[e] = chan[e]
    BY <1>1 DEF Types
  <1>5. Types'
    <2>1. chan' \in [Display -> Seq(Message)]
      BY <1>1, <1>2, <1>3 DEF Types
    <2> QED BY <1>1, <2>1 DEF Types
  <1>6. InStep(Append(chan[d], MReset), queue[d], Popped(d)) /\ \A i \in 1..Len(chan[d]) : L[i] = K[i]
    <2>1. InStep(chan[d], queue[d], Popped(d))
      BY <1>1 DEF Kept
    <2>2. Appended(chan[d], queue[d], Popped(d), MReset)
      BY <1>2, <1>3, <2>1, ContentsAppend
    <2> QED BY <2>2 DEF Appended
  <1>7. d \notin evicted => InOrder(chan[d], K, Held(d), p)
    BY <1>1 DEF Kept, OrderKept
  <1> HIDE DEF K, L, p
  <1>8. d \notin evicted => InOrder(Append(chan[d], MReset), L, Held(d), p)
    BY <1>2, <1>3, <1>6, <1>7, OrderReset, Zenon
  <1>9. Popped(d)' = Popped(d) /\ Held(d)' = Held(d) /\ Decoded(d)' = Decoded(d)
    BY <1>1 DEF Popped, Held, Decoded
  <1>10. Kept(d)'
    BY <1>1, <1>4, <1>6, <1>8, <1>9 DEF Kept, OrderKept, L, p
  <1>11. ASSUME NEW e \in Display \ {d} PROVE Kept(e)'
    <2>1. Same(e)
      BY <1>1, <1>4 DEF Same
    <2> QED BY <1>1, <1>5, <2>1, SameKept DEF VideoInv
  <1> QED BY <1>5, <1>10, <1>11 DEF VideoInv

-----------------------------------------------------------------------------
(* The video thread.                                                       *)

\* The first message of the channel leaves it.  P is what may come before the next one.
LEMMA Received ==
  ASSUME VideoInv, NEW d \in Display, pc[d] = "recv", chan[d] # <<>>, chan' = [chan EXCEPT ![d] = Tail(@)]
  PROVE  LET o == IF Head(chan[d]).t = "queue" THEN 1 ELSE 0
             f == Contents(chan[d], queue[d], 0)[1]
             P == IF Head(chan[d]).t = "reset" THEN Decoded(d) ELSE Itself(f) IN
         /\ chan' \in [Display -> Seq(Message)] /\ chan'[d] = Tail(chan[d])
         /\ \A e \in Display \ {d} : chan'[e] = chan[e]
         /\ InStep(Tail(chan[d]), queue[d], o)
         /\ Head(chan[d]).t = "queue" => f = queue[d][1]
         /\ Head(chan[d]).t = "frame" => f = Head(chan[d]).f
         /\ d \notin evicted =>
              /\ Head(chan[d]).t # "reset" => Follows(Decoded(d), f)
              /\ InOrder(Tail(chan[d]), Contents(Tail(chan[d]), queue[d], o), P, <<peer[d].fmt, peer[d].id>>)
  <1> DEFINE o == IF Head(chan[d]).t = "queue" THEN 1 ELSE 0
             K == Contents(chan[d], queue[d], 0)
             L == Contents(Tail(chan[d]), queue[d], o)
             p == <<peer[d].fmt, peer[d].id>>
  <1>1. Types /\ Kept(d) /\ chan[d] \in Seq(Message) /\ queue[d] \in Seq(Frame) /\ Popped(d) = 0 /\ Held(d) = Decoded(d)
    BY DEF VideoInv, Types, Popped, Held
  <1>2. chan' \in [Display -> Seq(Message)] /\ chan'[d] = Tail(chan[d]) /\ \A e \in Display \ {d} : chan'[e] = chan[e]
    <2>1. Tail(chan[d]) \in Seq(Message)
      BY <1>1, HeadTailProperties
    <2> QED BY <1>1, <2>1 DEF Types
  <1>3. InStep(chan[d], queue[d], 0)
    BY <1>1 DEF Kept
  <1>4. /\ InStep(Tail(chan[d]), queue[d], o)
        /\ \A i \in 1..Len(chan[d])-1 : L[i] = K[i + 1]
        /\ Head(chan[d]).t = "queue" => K[1] = queue[d][1]
        /\ Head(chan[d]).t = "frame" => K[1] = Head(chan[d]).f
    <2>1. o = IF Head(chan[d]).t = "queue" THEN 1 ELSE 0
      OBVIOUS
    <2> HIDE DEF o
    <2>2. Left(chan[d], queue[d], o)
      BY <1>1, <1>3, <2>1, ContentsTail
    <2> QED BY <2>2, Zenon DEF Left
  <1>5. d \notin evicted => InOrder(chan[d], K, Decoded(d), p)
    BY <1>1 DEF Kept, OrderKept
  <1> HIDE DEF K, L, p, o
  <1>6. d \notin evicted => InOrder(Tail(chan[d]), L, IF Head(chan[d]).t = "reset" THEN Decoded(d) ELSE Itself(K[1]), p)
    BY <1>1, <1>4, <1>5, OrderTail, Zenon
  <1>7. d \notin evicted /\ Head(chan[d]).t # "reset" => Follows(Decoded(d), K[1])
    <2>1. 1 \in 1..Len(chan[d]) /\ Head(chan[d]) = chan[d][1]
      <3>1. chan[d] \in Seq(Message) /\ chan[d] # <<>>
        BY <1>1
      <3> QED BY <3>1
    <2>2. ResetsBetween(chan[d], 0, 1)
      BY DEF ResetsBetween
    <2> QED BY <1>5, <2>1, <2>2 DEF InOrder
  <1> QED BY <1>2, <1>4, <1>6, <1>7 DEF K, L, p, o

\* A new decoder is one for its format.
LEMMA NewHandler ==
  ASSUME Sizes, NEW fmt \in Codec, NEW last \in 0..Ids+2, NEW h \in NewHandlers(fmt, last)
  PROVE  h \in Handler /\ h.fmt = fmt /\ h.last = last
  <1>1. (IF fmt \in Decodable THEN {TRUE} ELSE BOOLEAN) \subseteq BOOLEAN
    OBVIOUS
  <1>2. PICK valid \in BOOLEAN : h = [fmt |-> fmt, valid |-> valid, fail |-> 0, first |-> TRUE, last |-> last]
    BY <1>1 DEF NewHandlers
  <1> QED BY <1>2 DEF Handler

\* A queue message makes the thread pop a frame; a reset lets any frame of the format
\* come next.
LEMMA RecvKept ==
  ASSUME Sizes, VideoInv, NEW d \in Display, Recv(d)
  PROVE  VideoInv'
  <1> DEFINE P == IF Head(chan[d]).t = "reset" THEN Decoded(d) ELSE Itself(queue[d][1])
  <1>1. /\ Types /\ Kept(d) /\ pc[d] = "recv" /\ chan[d] # <<>> /\ Head(chan[d]).t # "frame"
        /\ chan' = [chan EXCEPT ![d] = Tail(@)]
        /\ UNCHANGED <<queue, discard, cur, marks, reports, known, peer, evicted, broken>>
    BY DEF VideoInv, Recv
  <1>2. Head(chan[d]).t \in {"queue", "reset"}
    <2>1. Head(chan[d]) \in Message
      BY <1>1, HeadTailProperties DEF Types
    <2> QED BY <1>1, <2>1 DEF Message
  <1>3. /\ chan' \in [Display -> Seq(Message)] /\ chan'[d] = Tail(chan[d])
        /\ \A e \in Display \ {d} : chan'[e] = chan[e]
    BY <1>1, Received
  <1>4. CASE Head(chan[d]).t = "queue"
    <2>1. pc' = [pc EXCEPT ![d] = "pop"] /\ UNCHANGED handler
      BY <1>4 DEF Recv
    <2>2. pc'[d] = "pop" /\ \A e \in Display \ {d} : pc'[e] = pc[e]
      BY <1>1, <2>1 DEF Types
    <2>3. Types'
      BY <1>1, <1>3, <2>1 DEF Types
    <2>4. /\ InStep(Tail(chan[d]), queue[d], 1)
          /\ d \notin evicted =>
               /\ Follows(Decoded(d), queue[d][1])
               /\ InOrder(Tail(chan[d]), Contents(Tail(chan[d]), queue[d], 1), Itself(queue[d][1]),
                          <<peer[d].fmt, peer[d].id>>)
      BY <1>1, <1>4, Received
    <2>5. Popped(d)' = 1 /\ Held(d)' = Itself(queue[d][1]) /\ Decoded(d)' = Decoded(d)
      BY <1>1, <2>1, <2>2 DEF Popped, Held, Decoded
    <2>6. Kept(d)'
      BY <1>1, <1>3, <2>2, <2>4, <2>5 DEF Kept, OrderKept
    <2>7. ASSUME NEW e \in Display \ {d} PROVE Kept(e)'
      <3>1. Same(e)
        BY <1>1, <1>3, <2>1, <2>2 DEF Same
      <3> QED BY <1>1, <2>3, <3>1, SameKept DEF VideoInv
    <2> QED BY <2>3, <2>6, <2>7 DEF VideoInv
  <1>5. CASE Head(chan[d]).t = "reset"
    <2>1. /\ UNCHANGED pc
          /\ \/ \E h \in NewHandlers(handler[d].fmt, AfterReset) : handler' = [handler EXCEPT ![d] = h]
             \/ UNCHANGED handler
      BY <1>5 DEF Recv
    <2>2. handler[d].fmt \in Codec /\ handler[d].last \in 0..Ids+2 /\ discard[d] \in BOOLEAN
      BY <1>1 DEF Types, Handler
    <2>3. \A h \in NewHandlers(handler[d].fmt, AfterReset) :
             h \in Handler /\ h.fmt = handler[d].fmt /\ h.last = AfterReset
      <3>1. AfterReset \in 0..Ids+2
        BY DEF AfterReset, Sizes
      <3> QED BY <2>2, <3>1, NewHandler
    <2>4. /\ handler' \in [Display -> Handler] /\ \A e \in Display \ {d} : handler'[e] = handler[e]
          /\ handler'[d] = handler[d] \/ (handler'[d].fmt = handler[d].fmt /\ handler'[d].last = AfterReset)
      BY <1>1, <2>1, <2>3 DEF Types
    <2>5. Types'
      BY <1>1, <1>3, <2>1, <2>4 DEF Types
    <2>6. Decoded(d) \subseteq Decoded(d)'
      <3>1. CASE handler'[d] = handler[d] \/ discard[d]
        BY <1>1, <3>1 DEF Decoded
      <3>2. CASE handler'[d].fmt = handler[d].fmt /\ handler'[d].last = AfterReset /\ ~discard[d]
        <4>1. Decoded(d)' = {handler[d].fmt} \X Nat
          BY <1>1, <3>2 DEF Decoded
        <4>2. handler[d].last \in Nat
          BY <2>2 DEF Sizes
        <4> QED BY <3>2, <4>1, <4>2 DEF Decoded
      <3> QED BY <2>2, <2>4, <3>1, <3>2
    <2>7. /\ InStep(Tail(chan[d]), queue[d], 0)
          /\ d \notin evicted =>
               InOrder(Tail(chan[d]), Contents(Tail(chan[d]), queue[d], 0), Decoded(d), <<peer[d].fmt, peer[d].id>>)
      BY <1>1, <1>5, Received
    <2>8. Tail(chan[d]) \in Seq(Message)
      BY <1>1, HeadTailProperties DEF Types
    <2>9. d \notin evicted =>
            InOrder(Tail(chan[d]), Contents(Tail(chan[d]), queue[d], 0), Decoded(d)', <<peer[d].fmt, peer[d].id>>)
      BY <2>6, <2>7, <2>8, OrderWeaker, Zenon
    <2>10. Popped(d)' = 0 /\ Held(d)' = Decoded(d)' /\ pc'[d] = "recv"
      BY <1>1, <2>1 DEF Popped, Held
    <2>11. Kept(d)'
      BY <1>1, <1>3, <2>7, <2>9, <2>10 DEF Kept, OrderKept
    <2>12. ASSUME NEW e \in Display \ {d} PROVE Kept(e)'
      <3>1. Same(e)
        BY <1>1, <1>3, <2>1, <2>4 DEF Same
      <3> QED BY <1>1, <2>5, <3>1, SameKept DEF VideoInv
    <2> QED BY <2>5, <2>11, <2>12 DEF VideoInv
  <1> QED BY <1>2, <1>4, <1>5

\* The queue is never empty when a frame is popped.
LEMMA PopKept ==
  ASSUME Sizes, VideoInv, NEW d \in Display, Pop(d)
  PROVE  VideoInv'
  <1>1. /\ Types /\ Kept(d) /\ pc[d] = "pop" /\ chan[d] \in Seq(Message) /\ queue[d] \in Seq(Frame) /\ Popped(d) = 1
        /\ UNCHANGED <<chan, discard, handler, marks, reports, known, peer, evicted, broken>>
    BY DEF VideoInv, Pop, Types, Popped
  <1>2. InStep(chan[d], queue[d], 1)
    BY <1>1 DEF Kept
  <1>3. queue[d] # <<>>
    <2>1. Cardinality(TokensUpTo(chan[d], Len(chan[d]))) \in Nat
      BY <1>1, TokensFinite
    <2>2. Len(queue[d]) # 0
      BY <1>2, <2>1 DEF InStep
    <2> QED BY <2>2
  <1>4. /\ cur' = [cur EXCEPT ![d] = Head(queue[d])] /\ queue' = [queue EXCEPT ![d] = Tail(queue[d])]
        /\ pc' = [pc EXCEPT ![d] = "check"]
    BY <1>3 DEF Pop
  <1>5. Head(queue[d]) \in Frame /\ Tail(queue[d]) \in Seq(Frame) /\ Head(queue[d]) = queue[d][1]
    BY <1>1, <1>3, HeadTailProperties
  <1>6. /\ cur'[d] = queue[d][1] /\ queue'[d] = Tail(queue[d]) /\ pc'[d] = "check"
        /\ \A e \in Display \ {d} : cur'[e] = cur[e] /\ queue'[e] = queue[e] /\ pc'[e] = pc[e]
    BY <1>1, <1>4, <1>5 DEF Types
  <1>7. Types'
    BY <1>1, <1>4, <1>5 DEF Types
  <1>8. /\ InStep(chan[d], Tail(queue[d]), 0)
        /\ \A i \in 1..Len(chan[d]) : chan[d][i].t # "reset" =>
              Contents(chan[d], Tail(queue[d]), 0)[i] = Contents(chan[d], queue[d], 1)[i]
    BY <1>1, <1>2, <1>3, ContentsPop
  <1>9. d \notin evicted =>
          /\ Follows(Decoded(d), queue[d][1])
          /\ InOrder(chan[d], Contents(chan[d], queue[d], 1), Itself(queue[d][1]), <<peer[d].fmt, peer[d].id>>)
    BY <1>1 DEF Kept, OrderKept, Held
  <1>10. d \notin evicted =>
           InOrder(chan[d], Contents(chan[d], Tail(queue[d]), 0), Itself(queue[d][1]), <<peer[d].fmt, peer[d].id>>)
    BY <1>1, <1>8, <1>9, OrderSame, Zenon
  <1>11. Popped(d)' = 0 /\ Held(d)' = Itself(queue[d][1]) /\ Decoded(d)' = Decoded(d)
    BY <1>1, <1>6 DEF Popped, Held, Decoded
  <1>12. Kept(d)'
    BY <1>1, <1>6, <1>8, <1>9, <1>10, <1>11 DEF Kept, OrderKept
  <1>13. ASSUME NEW e \in Display \ {d} PROVE Kept(e)'
    <2>1. Same(e)
      BY <1>1, <1>6 DEF Same
    <2> QED BY <1>1, <1>7, <2>1, SameKept DEF VideoInv
  <1> QED BY <1>7, <1>12, <1>13 DEF VideoInv

\* A decoder stays one when its counters change.
LEMMA Updated ==
  ASSUME NEW h \in Handler, NEW n \in Nat, NEW i \in 0..Ids+2
  PROVE  [h EXCEPT !.fail = n, !.first = FALSE, !.last = i] \in Handler
  BY DEF Handler

\* A frame that follows what the decoder was given keeps the order, and is what the
\* decoder was given last from then on.
LEMMA HandleFrame ==
  ASSUME Sizes, Types, NEW d \in Display, NEW f \in Frame, handle_frame(d, f)
  PROVE  /\ handler' \in [Display -> Handler] /\ handler'[d].fmt = f.fmt /\ handler'[d].last = f.id
         /\ \A e \in Display \ {d} : handler'[e] = handler[e] /\ pc'[e] = pc[e] /\ (e \in broken' => e \in broken)
         /\ pc' \in [Display -> {"none", "recv", "pop", "check", "mark", "report", "exited"}]
         /\ pc'[d] \in {"recv", "mark"}
         /\ (~discard[d] /\ Follows(Decoded(d), f)) \/ f.key => broken' = broken
  <1>1. handler[d] \in Handler /\ f.fmt \in Codec /\ f.id \in 0..Ids-1
    BY DEF Types, Frame
  <1>2. \A h \in DecodersFor(d, f) : h \in Handler /\ h.fmt = f.fmt
    <2>1. AfterNew \in 0..Ids+2
      BY DEF AfterNew, Sizes
    <2>2. f.fmt \in Codec
      BY <1>1
    <2>3. \A h \in NewHandlers(f.fmt, AfterNew) : h \in Handler /\ h.fmt = f.fmt
      BY <2>1, <2>2, NewHandler
    <2>4. CASE Present(handler[d]) /\ handler[d].fmt = f.fmt
      <3>1. DecodersFor(d, f) = {handler[d]}
        BY <2>4 DEF DecodersFor
      <3> QED BY <1>1, <2>4, <3>1
    <2>5. CASE ~(Present(handler[d]) /\ handler[d].fmt = f.fmt)
      <3>1. DecodersFor(d, f) = NewHandlers(f.fmt, AfterNew)
        BY <2>5 DEF DecodersFor
      <3> QED BY <2>3, <3>1, Zenon
    <2> QED BY <2>4, <2>5, Zenon
  <1>3. PICK h \in DecodersFor(d, f) : \E res \in Outcomes(h, f) :
          /\ handler' = [handler EXCEPT ![d] = [h EXCEPT !.fail = fail_counter(h, res),
                                                         !.first = FALSE, !.last = f.id]]
          /\ broken' = IF f.key \/ h.last \in {AfterReset, Before(f.id)} THEN broken ELSE broken \cup {d}
          /\ pc' = [pc EXCEPT ![d] =
                IF ~h.valid \/ fail_counter(h, res) >= MaxFail THEN "mark" ELSE "recv"]
    BY Zenon DEF handle_frame
  <1>4. PICK res \in Outcomes(h, f) :
          /\ handler' = [handler EXCEPT ![d] = [h EXCEPT !.fail = fail_counter(h, res),
                                                         !.first = FALSE, !.last = f.id]]
          /\ broken' = IF f.key \/ h.last \in {AfterReset, Before(f.id)} THEN broken ELSE broken \cup {d}
          /\ pc' = [pc EXCEPT ![d] =
                IF ~h.valid \/ fail_counter(h, res) >= MaxFail THEN "mark" ELSE "recv"]
    BY <1>3
  <1>5. h \in Handler /\ h.fmt = f.fmt
    BY <1>2
  <1>6. fail_counter(h, res) \in Nat
    BY <1>5 DEF fail_counter, Handler, Sizes
  <1>7. [h EXCEPT !.fail = fail_counter(h, res), !.first = FALSE, !.last = f.id] \in Handler
    <2>1. f.id \in 0..Ids+2
      BY <1>1 DEF Sizes
    <2> QED BY <1>5, <1>6, <2>1, Updated
  <1>8. /\ handler' \in [Display -> Handler] /\ handler'[d].fmt = f.fmt /\ handler'[d].last = f.id
        /\ \A e \in Display \ {d} : handler'[e] = handler[e]
    BY <1>4, <1>5, <1>7 DEF Types, Handler
  <1>9. /\ pc' \in [Display -> {"none", "recv", "pop", "check", "mark", "report", "exited"}]
        /\ pc'[d] \in {"recv", "mark"} /\ \A e \in Display \ {d} : pc'[e] = pc[e]
    BY <1>4 DEF Types
  <1>10. ASSUME ~discard[d], Follows(Decoded(d), f), ~f.key
         PROVE  h.last \in {AfterReset, Before(f.id)}
    <2>1. Before(f.id) \in 0..Ids-1
      BY <1>1 DEF Before, Sizes
    <2>2. <<f.fmt, Before(f.id)>> \in Decoded(d)
      BY <1>10 DEF Follows
    <2>3. handler[d].fmt = f.fmt /\ (handler[d].last = AfterReset \/ handler[d].last = Before(f.id))
      BY <1>10, <2>2 DEF Decoded
    <2>4. Present(handler[d])
      BY <1>1, <2>1, <2>3 DEF Present, Absent, AfterReset, Sizes
    <2> QED BY <2>3, <2>4 DEF DecodersFor
  <1>11. \A e \in Display \ {d} : e \in broken' => e \in broken
    BY <1>4
  <1> QED BY <1>4, <1>8, <1>9, <1>10, <1>11

\* A popped frame is dropped or decoded.
LEMMA CheckKept ==
  ASSUME Sizes, VideoInv, NEW d \in Display, Check(d)
  PROVE  VideoInv'
  <1>1. /\ Types /\ Kept(d) /\ pc[d] = "check" /\ cur' = [cur EXCEPT ![d] = NoFrame]
        /\ UNCHANGED <<chan, queue, discard, marks, reports, known, peer, evicted>>
    BY DEF VideoInv, Check, drop_frame
  <1>2. cur[d] \in Frame /\ NoFrame \in Frame /\ chan[d] \in Seq(Message)
    BY <1>1 DEF Types, NoFrame, Frame, Sizes
  <1>3. cur' \in [Display -> Frame] /\ \A e \in Display \ {d} : cur'[e] = cur[e]
    BY <1>1, <1>2 DEF Types
  <1>4. /\ InStep(chan[d], queue[d], 0)
        /\ d \notin evicted =>
             /\ Follows(Decoded(d), cur[d])
             /\ InOrder(chan[d], Contents(chan[d], queue[d], 0), Itself(cur[d]), <<peer[d].fmt, peer[d].id>>)
    BY <1>1 DEF Kept, OrderKept, Popped, Held
  <1>5. /\ handler' \in [Display -> Handler]
        /\ \A e \in Display \ {d} : handler'[e] = handler[e] /\ pc'[e] = pc[e] /\ (e \in broken' => e \in broken)
        /\ pc' \in [Display -> {"none", "recv", "pop", "check", "mark", "report", "exited"}]
        /\ pc'[d] \in {"recv", "mark"}
        /\ d \notin evicted => broken' = broken /\ Itself(cur[d]) \subseteq Decoded(d)'
    <2>1. CASE discard[d]
      <3>1. pc' = [pc EXCEPT ![d] = "recv"] /\ UNCHANGED <<handler, broken>>
        BY <2>1 DEF Check, drop_frame
      <3>2. Itself(cur[d]) \subseteq Decoded(d)'
        BY <1>1, <1>2, <2>1 DEF Decoded, Itself, Frame
      <3> QED BY <1>1, <3>1, <3>2 DEF Types
    <2>2. CASE ~discard[d]
      <3>1. handle_frame(d, cur[d])
        BY <2>2 DEF Check
      <3>2. /\ handler' \in [Display -> Handler] /\ handler'[d].fmt = cur[d].fmt /\ handler'[d].last = cur[d].id
            /\ \A e \in Display \ {d} : handler'[e] = handler[e] /\ pc'[e] = pc[e] /\ (e \in broken' => e \in broken)
            /\ pc' \in [Display -> {"none", "recv", "pop", "check", "mark", "report", "exited"}]
            /\ pc'[d] \in {"recv", "mark"}
            /\ (~discard[d] /\ Follows(Decoded(d), cur[d])) \/ cur[d].key => broken' = broken
        BY <1>1, <1>2, <3>1, HandleFrame
      <3>3. Itself(cur[d]) \subseteq Decoded(d)'
        <4>1. cur[d].id # AfterReset
          BY <1>2 DEF Frame, AfterReset, Sizes
        <4> QED BY <1>1, <2>2, <3>2, <4>1 DEF Decoded, Itself
      <3> QED BY <1>4, <2>2, <3>2, <3>3
    <2> QED BY <2>1, <2>2
  <1>6. Types'
    BY <1>1, <1>3, <1>5 DEF Types
  <1>7. d \notin evicted =>
          InOrder(chan[d], Contents(chan[d], queue[d], 0), Decoded(d)', <<peer[d].fmt, peer[d].id>>)
    BY <1>2, <1>4, <1>5, OrderWeaker, Zenon
  <1>8. Popped(d)' = 0 /\ Held(d)' = Decoded(d)'
    BY <1>5 DEF Popped, Held
  <1>9. Kept(d)'
    BY <1>1, <1>4, <1>5, <1>7, <1>8 DEF Kept, OrderKept
  <1>10. ASSUME NEW e \in Display \ {d} PROVE Kept(e)'
    <2>1. Same(e)
      BY <1>1, <1>3, <1>5 DEF Same
    <2> QED BY <1>1, <1>6, <2>1, SameKept DEF VideoInv
  <1> QED BY <1>6, <1>9, <1>10 DEF VideoInv

\* A key frame is always decoded and ends the discarding.
LEMMA RecvKeyKept ==
  ASSUME Sizes, VideoInv, NEW d \in Display, RecvKey(d)
  PROVE  VideoInv'
  <1> DEFINE f == Head(chan[d]).f
  <1>1. /\ Types /\ Kept(d) /\ pc[d] = "recv" /\ chan[d] # <<>> /\ Head(chan[d]).t = "frame"
        /\ chan' = [chan EXCEPT ![d] = Tail(@)] /\ discard' = [discard EXCEPT ![d] = FALSE]
        /\ handle_frame(d, f) /\ UNCHANGED <<queue, cur, marks, reports, known, peer, evicted>>
    BY DEF VideoInv, RecvKey
  <1>2. f \in Frame /\ f.key
    <2>1. Head(chan[d]) \in Message
      BY <1>1, HeadTailProperties DEF Types
    <2> QED BY <1>1, <2>1 DEF Message
  <1>3. /\ chan' \in [Display -> Seq(Message)] /\ chan'[d] = Tail(chan[d])
        /\ \A e \in Display \ {d} : chan'[e] = chan[e]
        /\ InStep(Tail(chan[d]), queue[d], 0)
        /\ d \notin evicted =>
             InOrder(Tail(chan[d]), Contents(Tail(chan[d]), queue[d], 0), Itself(f), <<peer[d].fmt, peer[d].id>>)
    BY <1>1, Received
  <1> HIDE DEF f
  <1>4. /\ handler' \in [Display -> Handler] /\ handler'[d].fmt = f.fmt /\ handler'[d].last = f.id
        /\ \A e \in Display \ {d} : handler'[e] = handler[e] /\ pc'[e] = pc[e]
        /\ pc' \in [Display -> {"none", "recv", "pop", "check", "mark", "report", "exited"}]
        /\ pc'[d] \in {"recv", "mark"} /\ broken' = broken
    BY <1>1, <1>2, HandleFrame
  <1>5. discard' \in [Display -> BOOLEAN] /\ ~discard'[d] /\ \A e \in Display \ {d} : discard'[e] = discard[e]
    BY <1>1 DEF Types
  <1>6. Types'
    BY <1>1, <1>3, <1>4, <1>5 DEF Types
  <1>7. Decoded(d)' = Itself(f)
    <2>1. f.id # AfterReset
      BY <1>2 DEF Frame, AfterReset, Sizes
    <2> QED BY <1>4, <1>5, <2>1 DEF Decoded, Itself
  <1>8. Popped(d)' = 0 /\ Held(d)' = Itself(f)
    BY <1>4, <1>7 DEF Popped, Held
  <1>9. Kept(d)'
    BY <1>1, <1>3, <1>4, <1>8 DEF Kept, OrderKept
  <1>10. ASSUME NEW e \in Display \ {d} PROVE Kept(e)'
    <2>1. Same(e)
      BY <1>1, <1>3, <1>4, <1>5 DEF Same
    <2> QED BY <1>1, <1>6, <2>1, SameKept DEF VideoInv
  <1> QED BY <1>6, <1>9, <1>10 DEF VideoInv

\* The other steps move no frame.
Quiet(d) == MarkUnsupported(d) \/ UpdateSupported(d) \/ Exit(d) \/ UserRefresh(d) \/ Refresh(d)

Still ==
  /\ UNCHANGED <<chan, queue, cur, handler, evicted, broken>>
  /\ \A e \in Display : /\ peer'[e].fmt = peer[e].fmt /\ peer'[e].id = peer[e].id
                        /\ pc'[e] = pc[e] \/ (pc[e] \in Between /\ pc'[e] \in Between)
                        /\ discard[e] => discard'[e]

\* So they keep the order.
LEMMA QuietKept ==
  ASSUME Sizes, VideoInv, (\E d \in Display : Quiet(d)) \/ Report \/ Close \/ UNCHANGED vars
  PROVE  VideoInv'
  <1>1. Types
    BY DEF VideoInv
  <1>2. Still /\ Types'
    <2>1. ASSUME NEW d \in Display, MarkUnsupported(d) PROVE Still /\ Types'
      <3>1. handler[d].fmt \in Codec
        BY <1>1 DEF Types, Handler
      <3>2. Still
        BY <1>1, <2>1 DEF MarkUnsupported, Types, Still, Between
      <3>3. Types'
        BY <1>1, <2>1, <3>1 DEF MarkUnsupported, Types
      <3> QED BY <3>2, <3>3
    <2>2. ASSUME NEW d \in Display, UpdateSupported(d) PROVE Still /\ Types'
      <3>1. Still
        BY <1>1, <2>2 DEF UpdateSupported, Types, Still, Between
      <3>2. Types'
        BY <1>1, <2>2 DEF UpdateSupported, reported, Types
      <3> QED BY <3>1, <3>2
    <2>3. ASSUME NEW d \in Display, Exit(d) PROVE Still /\ Types'
      BY <1>1, <2>3 DEF Exit, Types, Still, Between
    <2>4. ASSUME NEW d \in Display, UserRefresh(d) PROVE Still /\ Types'
      <3>1. Still
        BY <1>1, <2>4 DEF UserRefresh, Types, Still
      <3>2. Types'
        BY <1>1, <2>4 DEF UserRefresh, Types
      <3> QED BY <3>1, <3>2
    <2>5. ASSUME NEW d \in Display, Refresh(d) PROVE Still /\ Types'
      <3>1. Still
        BY <1>1, <2>5 DEF Refresh, Types, Still
      <3>2. Types'
        BY <1>1, <2>5 DEF Refresh, Types
      <3> QED BY <3>1, <3>2
    <2>6. CASE Report
      <3>1. Still
        BY <1>1, <2>6 DEF Report, Still
      <3>2. known' \subseteq Codec /\ reports' \in Seq(SUBSET Codec)
        <4>1. reports \in Seq(SUBSET Codec) /\ reports # <<>>
          BY <1>1, <2>6 DEF Report, Types
        <4>2. Head(reports) \in SUBSET Codec /\ Tail(reports) \in Seq(SUBSET Codec)
          BY <4>1, HeadTailProperties
        <4> QED BY <2>6, <4>2 DEF Report
      <3>3. Types'
        BY <1>1, <2>6, <3>2 DEF Report, Types
      <3> QED BY <3>1, <3>3
    <2>7. CASE Close
      BY <1>1, <2>7 DEF Close, Types, Still
    <2>8. CASE UNCHANGED vars
      BY <1>1, <2>8 DEF vars, Types, Still
    <2> QED BY <2>1, <2>2, <2>3, <2>4, <2>5, <2>6, <2>7, <2>8 DEF Quiet
  <1>3. ASSUME NEW e \in Display PROVE Kept(e)'
    <2>1. Same(e)
      BY <1>2 DEF Same, Still
    <2> QED BY <1>1, <1>2, <2>1, SameKept DEF VideoInv
  <1> QED BY <1>2, <1>3 DEF VideoInv

-----------------------------------------------------------------------------
(* The theorems.                                                           *)

\* The invariant holds in every state.
THEOREM VideoInvariant ==
  ASSUME Sizes
  PROVE  Spec => []VideoInv
  <1>1. Init => VideoInv
    <2> SUFFICES ASSUME Init PROVE VideoInv
      OBVIOUS
    <2>1. NoFrame \in Frame
      BY DEF NoFrame, Frame, Sizes
    <2>2. None \in Handler
      BY DEF None, Handler, Absent, Sizes
    <2>3. 0 \in 0..Ids-1
      BY DEF Sizes
    <2>4. Types
      BY <2>1, <2>2, <2>3 DEF Init, Types, Sizes
    <2>5. ASSUME NEW d \in Display PROVE Kept(d)
      <3>1. chan[d] = <<>> /\ queue[d] = <<>> /\ pc[d] = "none" /\ Popped(d) = 0 /\ broken = {}
        BY DEF Init, Popped
      <3>2. TokensUpTo(<<>>, Len(<<>>)) = {}
        BY DEF TokensUpTo
      <3>3. InStep(<<>>, <<>>, 0)
        <4>1. Cardinality(TokensUpTo(<<>>, Len(<<>>))) = 0
          BY <3>2, FS_EmptySet
        <4> QED BY <4>1 DEF InStep
      <3> QED BY <3>1, <3>3 DEF Kept, OrderKept
    <2> QED BY <2>4, <2>5 DEF VideoInv
  <1>2. VideoInv /\ [Next]_vars => VideoInv'
    <2> SUFFICES ASSUME VideoInv, [Next]_vars PROVE VideoInv'
      OBVIOUS
    <2>1. ASSUME NEW d \in Display, KeyFrame(d) PROVE VideoInv'
      BY <2>1, KeyFrameKept, FirstFrameKept DEF KeyFrame
    <2>2. ASSUME NEW d \in Display, DeltaFrame(d) PROVE VideoInv'
      BY <2>2, DeltaFrameKept DEF DeltaFrame
    <2>3. ASSUME NEW d \in Display, Recv(d) \/ RecvKey(d) \/ Pop(d) \/ Check(d) \/ ResetDecoder(d) PROVE VideoInv'
      BY <2>3, RecvKept, RecvKeyKept, PopKept, CheckKept, ResetKept
    <2>4. ASSUME (\E d \in Display : Quiet(d)) \/ Report \/ Close \/ UNCHANGED vars PROVE VideoInv'
      BY <2>4, QuietKept
    <2> QED BY <2>1, <2>2, <2>3, <2>4 DEF Next, Thread, Quiet
  <1> QED BY <1>1, <1>2, PTL DEF Spec

\* Every frame in the queue has a queue message that will pop it and every queue message
\* finds a frame, through overflows, resets and refreshes (handle_video_frame of io_loop.rs
\* and the video thread of client.rs), for every size of the queue.
THEOREM TokensAlwaysMatch ==
  ASSUME Sizes
  PROVE  Spec => []TokensMatchQueue
  <1>1. VideoInv => TokensMatchQueue
    <2> SUFFICES ASSUME VideoInv, NEW d \in Display
                 PROVE  Len(queue[d]) = Tokens(d) + (IF pc[d] = "pop" THEN 1 ELSE 0)
      BY DEF TokensMatchQueue
    <2>1. chan[d] \in Seq(Message) /\ InStep(chan[d], queue[d], Popped(d))
      BY DEF VideoInv, Types, Kept
    <2>2. TokensUpTo(chan[d], Len(chan[d])) = {i \in DOMAIN chan[d] : chan[d][i].t = "queue"}
      <3>1. DOMAIN chan[d] = 1..Len(chan[d])
        BY <2>1, LenProperties
      <3> QED BY <3>1, Zenon DEF TokensUpTo
    <2>3. Cardinality(TokensUpTo(chan[d], Len(chan[d]))) \in Nat
      <3>1. Len(chan[d]) \in Nat
        BY <2>1, LenProperties
      <3>2. Len(chan[d]) \in 0..Len(chan[d])
        BY <3>1
      <3> QED BY <2>1, <3>2, TokensFinite, Zenon
    <2>4. Tokens(d) = Cardinality(TokensUpTo(chan[d], Len(chan[d])))
      BY <2>2 DEF Tokens
    <2>5. Len(queue[d]) = Popped(d) + Tokens(d) /\ Tokens(d) \in Nat
      BY <2>1, <2>3, <2>4, Zenon DEF InStep
    <2> QED BY <2>5 DEF Popped
  <1> QED BY <1>1, VideoInvariant, PTL

\* A display whose queue never overflowed decodes every frame that is not a key frame right
\* after its predecessor or after a reset, although frames, resets, refreshes and the
\* discarding of the video thread interleave freely, for every size of the queue.
THEOREM FramesDecodedInOrder ==
  ASSUME Sizes
  PROVE  Spec => []DecodedInOrder
  <1>1. VideoInv => DecodedInOrder
    BY DEF VideoInv, Kept, DecodedInOrder
  <1> QED BY <1>1, VideoInvariant, PTL

\* When no video thread is about to report, the last report sent or under way names all
\* formats that any thread has given up (mark_unsupported and update_supported_decodings):
\* the report is built under the lock after the mark, so no later one names less.
THEOREM ReportsAreComplete ==
  ASSUME Sizes
  PROVE  Spec => []ReportsComplete
  <1>1. Init => ReportsComplete
    BY DEF Init, ReportsComplete
  <1>2. VideoInv /\ ReportsComplete /\ [Next]_vars => ReportsComplete'
    <2> SUFFICES ASSUME VideoInv, ReportsComplete, [Next]_vars PROVE ReportsComplete'
      OBVIOUS
    <2>1. Types
      BY DEF VideoInv
    <2>2. CASE Report
      <3>1. CASE Len(reports) = 1
        BY <2>1, <2>2, <3>1 DEF Report, ReportsComplete, Types
      <3>2. CASE Len(reports) # 1
        <4>1. Tail(reports) # <<>> /\ Tail(reports)[Len(Tail(reports))] = reports[Len(reports)]
          <5>1. reports \in Seq(SUBSET Codec) /\ reports # <<>>
            BY <2>1, <2>2 DEF Report, Types
          <5>2. Len(reports) \in Nat /\ Len(reports) > 1
            <6>1. Len(reports) \in Nat \ {0}
              BY <5>1, EmptySeq
            <6> QED BY <3>2, <6>1
          <5>3. /\ Tail(reports) \in Seq(SUBSET Codec) /\ Len(Tail(reports)) = Len(reports) - 1
                /\ \A i \in 1..Len(Tail(reports)) : Tail(reports)[i] = reports[i + 1]
            BY <5>1, HeadTailProperties
          <5>4. Len(Tail(reports)) \in 1..Len(Tail(reports)) /\ Len(Tail(reports)) + 1 = Len(reports)
            BY <5>2, <5>3
          <5> QED BY <5>3, <5>4
        <4> QED BY <2>2, <4>1 DEF Report, ReportsComplete
      <3> QED BY <3>1, <3>2
    <2>3. ASSUME NEW d \in Display, UpdateSupported(d) PROVE ReportsComplete'
      BY <2>1, <2>3 DEF UpdateSupported, reported, ReportsComplete, Types
    <2>4. ASSUME NEW d \in Display, MarkUnsupported(d) PROVE ReportsComplete'
      <3>1. CASE handler[d].fmt \in marks
        <4>1. marks' = marks
          BY <2>4, <3>1 DEF MarkUnsupported
        <4>2. (\A e \in Display : pc'[e] # "report") => \A e \in Display : pc[e] # "report"
          BY <2>1, <2>4, <3>1 DEF MarkUnsupported, Types
        <4> QED BY <2>4, <4>1, <4>2 DEF MarkUnsupported, ReportsComplete
      <3>2. CASE handler[d].fmt \notin marks
        <4>1. pc'[d] = "report"
          BY <2>1, <2>4, <3>2 DEF MarkUnsupported, Types
        <4> QED BY <4>1 DEF ReportsComplete
      <3> QED BY <3>1, <3>2
    <2>5. ASSUME UNCHANGED <<marks, reports, known>>, \A e \in Display : pc[e] = "report" => pc'[e] = "report"
          PROVE  ReportsComplete'
      BY <2>5 DEF ReportsComplete
    <2>6. ASSUME NEW d \in Display,
                 \/ KeyFrame(d) \/ DeltaFrame(d) \/ ResetDecoder(d) \/ UserRefresh(d) \/ Refresh(d)
                 \/ Recv(d) \/ Pop(d) \/ Exit(d)
          PROVE  ReportsComplete'
      <3>1. UNCHANGED <<marks, reports, known>>
        BY <2>6 DEF KeyFrame, DeltaFrame, VideoFrame, new_video_thread, ResetDecoder, UserRefresh, Refresh, Recv, Pop, Exit
      <3>2. \A e \in Display : pc[e] = "report" => pc'[e] = "report"
        BY <2>1, <2>6 DEF KeyFrame, DeltaFrame, VideoFrame, new_video_thread, ResetDecoder, UserRefresh, Refresh,
           Recv, Pop, Exit, Types
      <3> QED BY <2>5, <3>1, <3>2
    <2>7. ASSUME NEW d \in Display, RecvKey(d) \/ Check(d) PROVE ReportsComplete'
      <3>1. UNCHANGED <<marks, reports, known>>
        BY <2>7 DEF RecvKey, Check
      <3>2. \A e \in Display : pc[e] = "report" => pc'[e] = "report"
        <4>1. \E x : pc' = [pc EXCEPT ![d] = x]
          BY <2>7, Zenon DEF RecvKey, Check, handle_frame, drop_frame
        <4>2. pc[d] # "report"
          BY <2>7 DEF RecvKey, Check
        <4> QED BY <2>1, <4>1, <4>2 DEF Types
      <3> QED BY <2>5, <3>1, <3>2
    <2>8. CASE Close \/ UNCHANGED vars
      BY <2>5, <2>8 DEF Close, vars
    <2> QED BY <2>2, <2>3, <2>4, <2>6, <2>7, <2>8 DEF Next, Thread
  <1>3. Init /\ [][Next]_vars /\ []VideoInv => []ReportsComplete
    BY <1>1, <1>2, PTL
  <1> QED BY <1>3, VideoInvariant, PTL DEF Spec
=============================================================================
