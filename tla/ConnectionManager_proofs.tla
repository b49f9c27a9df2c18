----------------------- MODULE ConnectionManager_proofs -----------------------
(***************************************************************************)
(* For any nodes, any links between them and any number of pings, the      *)
(* handshake takes place once per link, nothing is kept for a connected    *)
(* peer, no port stalls, and every ping is somewhere: so the network only  *)
(* does what PingService allows.                                           *)
(*                                                                         *)
(* The argument is about one pair of opposite links at a time.  The state  *)
(* of both ends tells what may be underway: a node that is half connected  *)
(* has either its own version underway, which is the first packet on the   *)
(* wire, or the verack that answers it.  A step only moves packets, so it  *)
(* is enough to count them before and after it.                            *)
(***************************************************************************)
EXTENDS ConnectionManager, SequenceTheorems, FiniteSetTheorems, TLAPS

(***************************************************************************)
(* Counting the packets of a kind in a sequence.                           *)
(***************************************************************************)
Places(s, kind) == {i \in DOMAIN s : s[i] = kind}
Count(s, kind) == Cardinality(Places(s, kind))

LEMMA PlacesAreFinite ==
  ASSUME NEW s \in Seq(Kind), NEW kind
  PROVE  IsFiniteSet(Places(s, kind)) /\ Count(s, kind) \in Nat
<1>1. IsFiniteSet(1 .. Len(s))
  BY FS_Interval
<1>2. Places(s, kind) \subseteq 1 .. Len(s)
  BY DEF Places
<1>3. IsFiniteSet(Places(s, kind))
  BY <1>1, <1>2, FS_Subset
<1> QED
  BY <1>3, FS_CardinalityType DEF Count

LEMMA CountEmpty == ASSUME NEW kind PROVE Count(<<>>, kind) = 0
<1>1. Places(<<>>, kind) = {}
  BY DEF Places
<1> QED
  BY <1>1, FS_EmptySet DEF Count

LEMMA CountOne ==
  ASSUME NEW x \in Kind, NEW kind
  PROVE  Count(<<x>>, kind) = IF x = kind THEN 1 ELSE 0
<1>1. CASE x = kind
  <2>1. Places(<<x>>, kind) = {1}
    BY <1>1 DEF Places
  <2> QED
    BY <1>1, <2>1, FS_Singleton DEF Count
<1>2. CASE x # kind
  <2>1. Places(<<x>>, kind) = {}
    BY <1>2 DEF Places
  <2> QED
    BY <1>2, <2>1, FS_EmptySet DEF Count
<1> QED
  BY <1>1, <1>2

LEMMA CountConcat ==
  ASSUME NEW s \in Seq(Kind), NEW t \in Seq(Kind), NEW kind
  PROVE  Count(s \o t, kind) = Count(s, kind) + Count(t, kind)
<1> DEFINE m == Len(s)
           A == Places(s, kind)
           B == Places(t, kind)
           later == {i \in m + 1 .. m + Len(t) : (s \o t)[i] = kind}
<1>1. /\ m \in Nat /\ Len(t) \in Nat
      /\ \A i \in 1 .. m : (s \o t)[i] = s[i]
      /\ \A i \in 1 .. Len(t) : (s \o t)[m + i] = t[i]
      /\ DOMAIN (s \o t) = 1 .. m + Len(t)
  OBVIOUS
<1>2. IsFiniteSet(A) /\ IsFiniteSet(B)
  BY PlacesAreFinite
<1>3. IsFiniteSet(later) /\ Cardinality(later) = Cardinality(B)
  <2> DEFINE f == [i \in B |-> m + i]
  <2>1. B \subseteq 1 .. Len(t)
    BY DEF Places
  <2>2. f \in [B -> later]
    BY <1>1, <2>1 DEF Places
  <2>3. \A i, j \in B : f[i] = f[j] => i = j
    BY <1>1, <2>1
  <2>4. \A k \in later : \E i \in B : f[i] = k
    <3> TAKE k \in later
    <3>1. k - m \in 1 .. Len(t) /\ m + (k - m) = k
      BY <1>1
    <3>2. k - m \in B
      BY <1>1, <3>1 DEF Places
    <3> QED
      BY <3>1, <3>2
  <2>5. f \in Bijection(B, later)
    BY <2>2, <2>3, <2>4 DEF Bijection, Injection, Surjection, IsInjective
  <2>6. ExistsBijection(B, later)
    BY <2>5 DEF ExistsBijection
  <2> QED
    BY <1>2, <2>6, FS_Bijection
<1>4. Places(s \o t, kind) = A \cup later /\ A \cap later = {}
  BY <1>1 DEF Places
<1>5. /\ Cardinality(A \cup later) =
            Cardinality(A) + Cardinality(later) - Cardinality(A \cap later)
      /\ Cardinality(A \cap later) = 0
  BY <1>2, <1>3, <1>4, FS_Union, FS_EmptySet
<1>6. Cardinality(A) \in Nat /\ Cardinality(B) \in Nat
  BY <1>2, FS_CardinalityType
<1>7. /\ Count(s, kind) = Cardinality(A)
      /\ Count(t, kind) = Cardinality(B)
      /\ Count(s \o t, kind) = Cardinality(A \cup later)
  BY <1>4 DEF Count
<1> HIDE DEF A, B, later
<1> QED
  BY <1>3, <1>5, <1>6, <1>7

-----------------------------------------------------------------------------
(* The ports.  Sound: the channel is busy only with a packet on the wire,  *)
(* and the timer will serve the queue (PortNeverStalls, for one port).     *)
Waiting(s) == s.wire \o s.queue
Sound(s) ==
    /\ s \in Port(Kind)
    /\ s.busy => s.wire # <<>>
    /\ s.queue # <<>> => \/ s.timer = AtFinish /\ s.busy
                         \/ s.timer \in 0 .. Len(s.wire)

(* handleMessage() adds the packets behind the first one on the wire. *)
LEMMA SubmitIsSound ==
  ASSUME NEW s, Sound(s), NEW packets \in Seq(Kind)
  PROVE  /\ Sound(Submit(s, packets))
         /\ s.wire # <<>> => /\ Submit(s, packets).wire # <<>>
                             /\ Submit(s, packets).wire[1] = s.wire[1]
         /\ (Waiting(s) = <<>> /\ packets # <<>>) =>
                /\ Submit(s, packets).wire # <<>>
                /\ Submit(s, packets).wire[1] = packets[1]
<1> DEFINE s2 == Submit(s, packets)
<1>0. /\ s.wire \in Seq(Kind) /\ s.queue \in Seq(Kind) /\ s.busy \in BOOLEAN
      /\ s.timer \in Nat \cup {NoTimer, AtFinish}
      /\ s = [queue |-> s.queue, wire |-> s.wire, busy |-> s.busy, timer |-> s.timer]
  BY DEF Sound, Port
<1>1. CASE packets = <<>>
  BY <1>1 DEF Submit
<1>2. CASE packets # <<>> /\ s.busy
  <2>1. s2 = [queue |-> s.queue \o packets, wire |-> s.wire, busy |-> TRUE, timer |-> AtFinish]
    BY <1>2, <1>0 DEF Submit
  <2>2. s.queue \o packets \in Seq(Kind)
    BY <1>0
  <2>3. s2 \in Port(Kind)
    BY <2>1, <2>2, <1>0 DEF Port
  <2>4. Waiting(s) # <<>>
    BY <1>0, <1>2 DEF Sound, Waiting
  <2> QED
    BY <1>2, <2>1, <2>3, <2>4 DEF Sound
<1>3. CASE packets # <<>> /\ ~s.busy
  <2>1. s2 = [queue |-> s.queue \o Tail(packets),
              wire |-> Append(s.wire, Head(packets)), busy |-> TRUE,
              timer |-> IF Len(packets) > 1 THEN AtFinish ELSE s.timer]
    BY <1>3, <1>0 DEF Submit
  <2>2. /\ Tail(packets) \in Seq(Kind) /\ Head(packets) \in Kind
        /\ Head(packets) = packets[1]
        /\ Len(packets) <= 1 => Tail(packets) = <<>>
    BY <1>3
  <2>3. /\ s.queue \o Tail(packets) \in Seq(Kind)
        /\ Append(s.wire, Head(packets)) \in Seq(Kind)
        /\ Len(Append(s.wire, Head(packets))) = Len(s.wire) + 1
        /\ Append(s.wire, Head(packets)) # <<>>
        /\ s.wire # <<>> => Append(s.wire, Head(packets))[1] = s.wire[1]
        /\ s.wire = <<>> => Append(s.wire, Head(packets))[1] = Head(packets)
    BY <1>0, <2>2
  <2>4. s2 \in Port(Kind)
    BY <2>1, <2>3, <1>0 DEF Port
  <2>5. Len(packets) <= 1 => s.queue \o Tail(packets) = s.queue
    BY <1>0, <2>2
  <2>6. Waiting(s) = <<>> => s.wire = <<>>
    BY <1>0 DEF Waiting
  <2>7. Sound(s2)
    <3>1. CASE Len(packets) > 1
      BY <2>1, <2>3, <2>4, <3>1 DEF Sound
    <3>2. CASE ~(Len(packets) > 1)
      <4>1. Len(packets) <= 1
        BY <3>2
      <4>2. s2.queue = s.queue /\ s2.timer = s.timer /\ s2.busy /\ s2.wire # <<>>
            /\ Len(s2.wire) = Len(s.wire) + 1
        BY <2>1, <2>3, <2>5, <3>2, <4>1
      <4>3. s.queue # <<>> => s.timer \in 0 .. Len(s.wire)
        BY <1>3 DEF Sound
      <4>4. s.queue # <<>> => s2.timer \in 0 .. Len(s2.wire)
        BY <4>2, <4>3, <1>0
      <4> QED
        BY <2>4, <4>2, <4>4 DEF Sound
    <3> QED
      BY <3>1, <3>2
  <2> QED
    BY <2>1, <2>2, <2>3, <2>6, <2>7
<1> QED
  BY <1>0, <1>1, <1>2, <1>3

(* Nothing is lost in a port: what waits is what waited, and the packets. *)
LEMMA SubmitAdds ==
  ASSUME NEW s, Sound(s), NEW packets \in Seq(Kind), NEW kind
  PROVE  Count(Waiting(Submit(s, packets)), kind) =
            Count(Waiting(s), kind) + Count(packets, kind)
<1>0. /\ s.wire \in Seq(Kind) /\ s.queue \in Seq(Kind) /\ s.busy \in BOOLEAN
      /\ s = [queue |-> s.queue, wire |-> s.wire, busy |-> s.busy, timer |-> s.timer]
  BY DEF Sound, Port
<1>1. /\ Count(Waiting(s), kind) = Count(s.wire, kind) + Count(s.queue, kind)
      /\ Count(s.wire, kind) \in Nat /\ Count(s.queue, kind) \in Nat
      /\ Count(packets, kind) \in Nat
  BY <1>0, CountConcat, PlacesAreFinite DEF Waiting
<1>2. CASE packets = <<>>
  BY <1>1, <1>2, CountEmpty DEF Submit
<1>3. CASE packets # <<>> /\ s.busy
  <2>1. Waiting(Submit(s, packets)) = s.wire \o (s.queue \o packets)
    BY <1>0, <1>3 DEF Submit, Waiting
  <2>2. s.queue \o packets \in Seq(Kind)
    BY <1>0
  <2>3. /\ Count(s.queue \o packets, kind) =
              Count(s.queue, kind) + Count(packets, kind)
        /\ Count(s.wire \o (s.queue \o packets), kind) =
              Count(s.wire, kind) + Count(s.queue \o packets, kind)
    BY <1>0, <2>2, CountConcat
  <2> QED
    BY <1>1, <2>1, <2>3
<1>4. CASE packets # <<>> /\ ~s.busy
  <2> DEFINE first == <<Head(packets)>>
             rest == Tail(packets)
  <2>1. /\ first \in Seq(Kind) /\ rest \in Seq(Kind)
        /\ packets = first \o rest
        /\ Append(s.wire, Head(packets)) = s.wire \o first
        /\ s.wire \o first \in Seq(Kind) /\ s.queue \o rest \in Seq(Kind)
    BY <1>0, <1>4
  <2>2. Waiting(Submit(s, packets)) = (s.wire \o first) \o (s.queue \o rest)
    BY <1>0, <1>4, <2>1 DEF Submit, Waiting
  <2> HIDE DEF first, rest
  <2>3. Count(packets, kind) = Count(first, kind) + Count(rest, kind)
    BY <2>1, CountConcat
  <2>4. Count(s.wire \o first, kind) = Count(s.wire, kind) + Count(first, kind)
    BY <1>0, <2>1, CountConcat
  <2>5. Count(s.queue \o rest, kind) = Count(s.queue, kind) + Count(rest, kind)
    BY <1>0, <2>1, CountConcat
  <2>6. Count((s.wire \o first) \o (s.queue \o rest), kind) =
              Count(s.wire \o first, kind) + Count(s.queue \o rest, kind)
    BY <2>1, CountConcat
  <2>7. Count(first, kind) \in Nat /\ Count(rest, kind) \in Nat
    BY <2>1, PlacesAreFinite
  <2> QED
    BY <1>1, <2>2, <2>3, <2>4, <2>5, <2>6, <2>7
<1> QED
  BY <1>0, <1>2, <1>3, <1>4

(* handleTimer() and the end of a transmission keep what waits. *)
Kept(s, s2) ==
    /\ Sound(s2)
    /\ Waiting(s2) = Waiting(s)
    /\ s.wire # <<>> => s2.wire # <<>> /\ s2.wire[1] = s.wire[1]

LEMMA HeadMoves ==
  ASSUME NEW s \in Seq(Kind), NEW t \in Seq(Kind), t # <<>>
  PROVE  /\ Tail(t) \in Seq(Kind)
         /\ Len(Tail(t)) = Len(t) - 1
         /\ Append(s, Head(t)) \in Seq(Kind)
         /\ Len(Append(s, Head(t))) = Len(s) + 1
         /\ Append(s, Head(t)) # <<>>
         /\ s # <<>> => Append(s, Head(t))[1] = s[1]
         /\ Append(s, Head(t)) \o Tail(t) = s \o t
  OBVIOUS

LEMMA PopKeeps ==
  ASSUME NEW s, Sound(s)
  PROVE  Kept(s, Pop(s))
<1> DEFINE s2 == Pop(s)
<1>0. /\ s.wire \in Seq(Kind) /\ s.queue \in Seq(Kind) /\ s.busy \in BOOLEAN
      /\ s.timer \in Nat \cup {NoTimer, AtFinish}
      /\ s = [queue |-> s.queue, wire |-> s.wire, busy |-> s.busy, timer |-> s.timer]
  BY DEF Sound, Port
<1>1. CASE s.queue = <<>>
  <2>1. s2 = [queue |-> s.queue, wire |-> s.wire, busy |-> s.busy, timer |-> NoTimer]
    BY <1>0, <1>1 DEF Pop
  <2> QED
    BY <1>0, <1>1, <2>1 DEF Sound, Waiting, Port, Kept
<1>2. CASE s.queue # <<>> /\ s.busy
  <2>1. s2 = [queue |-> s.queue, wire |-> s.wire, busy |-> s.busy, timer |-> AtFinish]
    BY <1>0, <1>2 DEF Pop
  <2> QED
    BY <1>0, <1>2, <2>1 DEF Sound, Waiting, Port, Kept
<1>3. CASE s.queue # <<>> /\ ~s.busy
  <2> DEFINE w == Append(s.wire, Head(s.queue))
             q == Tail(s.queue)
  <2>1. s2 = [queue |-> q, wire |-> w, busy |-> TRUE, timer |-> Rearm(s)]
    BY <1>3 DEF Pop
  <2>2. /\ q \in Seq(Kind) /\ Len(q) = Len(s.queue) - 1
        /\ w \in Seq(Kind) /\ Len(w) = Len(s.wire) + 1 /\ w # <<>>
        /\ s.wire # <<>> => w[1] = s.wire[1]
        /\ w \o q = s.wire \o s.queue
    BY <1>0, <1>3, HeadMoves
  <2>3. Rearm(s) \in Nat \cup {NoTimer, AtFinish}
    BY <1>0 DEF Rearm
  <2>4. q # <<>> => Rearm(s) = Len(w)
    BY <1>0, <2>2 DEF Rearm
  <2> HIDE DEF w, q, s2
  <2>5. s2 \in Port(Kind)
    BY <2>1, <2>2, <2>3 DEF Port
  <2>6. s2.queue # <<>> => s2.timer \in 0 .. Len(s2.wire)
    BY <1>0, <2>1, <2>2, <2>4
  <2>7. Sound(s2)
    BY <2>1, <2>2, <2>5, <2>6 DEF Sound
  <2>8. Kept(s, s2)
    BY <2>1, <2>2, <2>7 DEF Waiting, Kept
  <2> QED
    BY <2>8 DEF s2
<1> QED
  BY <1>0, <1>1, <1>2, <1>3

(* The fields of a port whose channel becomes free. *)
LEMMA Freed ==
  ASSUME NEW s \in Port(Kind), NEW time \in Nat \cup {NoTimer, AtFinish}
  PROVE  LET s2 == [s EXCEPT !.busy = FALSE, !.timer = time]
         IN  /\ s2 \in Port(Kind)
             /\ s2.wire = s.wire /\ s2.queue = s.queue
             /\ s2.busy = FALSE /\ s2.timer = time
<1> DEFINE s2 == [s EXCEPT !.busy = FALSE, !.timer = time]
<1>1. s2 \in Port(Kind)
  BY DEF Port
<1>2. s2.wire = s.wire /\ s2.queue = s.queue
  BY DEF Port
<1>3. s2.busy = FALSE
  BY DEF Port
<1>4. s2.timer = time
  BY DEF Port
<1> QED
  BY <1>1, <1>2, <1>3, <1>4
(* When a transmission ends, a timer set to coincide with it is due.       *)
LEMMA FinishKeeps ==
  ASSUME NEW s, Sound(s)
  PROVE  Kept(s, [s EXCEPT !.busy = FALSE,
                           !.timer = IF @ = AtFinish THEN Now ELSE @])
<1> DEFINE time == IF s.timer = AtFinish THEN Now ELSE s.timer
           s2 == [s EXCEPT !.busy = FALSE, !.timer = time]
<1>0. s \in Port(Kind) /\ s.wire \in Seq(Kind) /\ s.timer \in Nat \cup {NoTimer, AtFinish}
  BY DEF Sound, Port
<1>1. time \in Nat \cup {NoTimer, AtFinish}
  BY <1>0 DEF Now
<1>2. s.queue # <<>> => time \in 0 .. Len(s.wire)
  BY <1>0 DEF Sound, Now
<1> HIDE DEF time
<1>3. /\ s2 \in Port(Kind)
      /\ s2.wire = s.wire /\ s2.queue = s.queue
      /\ s2.busy = FALSE /\ s2.timer = time
  BY <1>0, <1>1, Freed
<1> HIDE DEF s2
<1>5. Kept(s, s2)
  BY <1>2, <1>3 DEF Sound, Waiting, Kept
<1> QED
  BY <1>5 DEF s2, time

LEMMA ElapseKeeps ==
  ASSUME NEW l \in Link, port \in [Link -> Port(Kind)],
         \A m \in Link : Sound(port[m]),
         HandleTimer(l) \/ FinishTransmission(l)
  PROVE  /\ port' \in [Link -> Port(Kind)]
         /\ \A m \in Link : Kept(port[m], port'[m])
<1>1. \A m \in Link : Kept(port[m], port[m])
  BY DEF Kept
<1>2. Kept(port[l], port'[l]) /\ port' = [port EXCEPT ![l] = port'[l]]
  <2>1. CASE FinishTransmission(l)
    BY <2>1, FinishKeeps DEF FinishTransmission
  <2>2. CASE HandleTimer(l)
    BY <2>2, PopKeeps DEF HandleTimer
  <2> QED
    BY <2>1, <2>2
<1>3. port'[l] \in Port(Kind)
  BY <1>2 DEF Kept, Sound
<1> QED
  BY <1>1, <1>2, <1>3

(* A packet that arrives leaves the wire. *)
LEMMA TailLeft ==
  ASSUME NEW w \in Seq(Kind), w # <<>>
  PROVE  /\ Len(w) \in Nat \ {0}
         /\ Tail(w) \in Seq(Kind) /\ Len(Tail(w)) = Len(w) - 1
         /\ Len(w) > 1 => Tail(w) # <<>>
         /\ Head(w) \in Kind /\ w[1] = Head(w)
         /\ <<Head(w)>> \in Seq(Kind)
         /\ w = <<Head(w)>> \o Tail(w)
<1>1. Len(w) \in Nat \ {0}
  OBVIOUS
<1>2. Tail(w) \in Seq(Kind) /\ Len(Tail(w)) = Len(w) - 1
  OBVIOUS
<1>3. Len(w) > 1 => Tail(w) # <<>>
  <2> DEFINE t == Tail(w)
             n == Len(w)
  <2>1. t \in Seq(Kind) /\ Len(t) = n - 1 /\ n \in Nat
    BY <1>1, <1>2
  <2> HIDE DEF t, n
  <2>2. n > 1 => t # <<>>
    BY <2>1
  <2> QED
    BY <2>2 DEF t, n
<1>4. Head(w) \in Kind /\ w[1] = Head(w)
  OBVIOUS
<1>5. <<Head(w)>> \in Seq(Kind)
  BY <1>4
<1>6. w = <<Head(w)>> \o Tail(w)
  OBVIOUS
<1> QED
  BY <1>1, <1>2, <1>3, <1>4, <1>5, <1>6

(* The arrival of a packet takes it from the wire, and nothing else.       *)
LEMMA ArrivalTakesHead ==
  ASSUME NEW s, Sound(s), s.timer # Now,
         Len(s.wire) > IF s.busy THEN 1 ELSE 0
  PROVE  /\ Sound(Arrived(s))
         /\ s.wire # <<>> /\ Head(s.wire) \in Kind
         /\ s.wire[1] = Head(s.wire)
         /\ \A kind : Count(Waiting(s), kind) =
               Count(Waiting(Arrived(s)), kind)
                 + IF Head(s.wire) = kind THEN 1 ELSE 0
<1> DEFINE time == IF s.timer > Now THEN s.timer - 1 ELSE s.timer
           s2 == [s EXCEPT !.wire = Tail(s.wire), !.timer = time]
<1>0. /\ s.wire \in Seq(Kind) /\ s.queue \in Seq(Kind) /\ s.busy \in BOOLEAN
      /\ s.timer \in Nat \cup {NoTimer, AtFinish}
      /\ s = [queue |-> s.queue, wire |-> s.wire, busy |-> s.busy, timer |-> s.timer]
  BY DEF Sound, Port
<1>1. Arrived(s) = s2
  BY DEF Arrived
<1>3. s.wire # <<>> /\ (s.busy => Len(s.wire) > 1)
  BY <1>0
<1>4. time \in Nat \cup {NoTimer, AtFinish}
  BY <1>0 DEF Now, NoTimer, AtFinish
<1>5. s.queue # <<>> => \/ time = AtFinish /\ s.busy
                        \/ time \in 0 .. Len(s.wire) - 1
  BY <1>0 DEF Sound, Now, AtFinish
<1> HIDE DEF time
<1>6. /\ s2 \in Port(Kind)
      /\ s2.wire = Tail(s.wire) /\ s2.queue = s.queue
      /\ s2.busy = s.busy /\ s2.timer = time
  <2> DEFINE w == Tail(s.wire)
  <2>1. s \in Port(Kind) /\ w \in Seq(Kind)
    BY <1>0, <1>3, TailLeft DEF Sound
  <2> HIDE DEF w
  <2>2. [s EXCEPT !.wire = w, !.timer = time] \in Port(Kind)
    BY <1>4, <2>1 DEF Port
  <2>3. /\ [s EXCEPT !.wire = w, !.timer = time].wire = w
        /\ [s EXCEPT !.wire = w, !.timer = time].queue = s.queue
    BY <2>1 DEF Port
  <2>4. [s EXCEPT !.wire = w, !.timer = time].busy = s.busy
    BY <2>1 DEF Port
  <2>5. [s EXCEPT !.wire = w, !.timer = time].timer = time
    BY <2>1 DEF Port
  <2> QED
    BY <2>2, <2>3, <2>4, <2>5 DEF w
<1> HIDE DEF s2
<1>7. Sound(s2)
  <2>2. s2.busy => s2.wire # <<>>
    BY <1>0, <1>3, <1>6, TailLeft
  <2>3. s2.queue # <<>> => \/ s2.timer = AtFinish /\ s2.busy
                           \/ s2.timer \in 0 .. Len(s2.wire)
    BY <1>0, <1>3, <1>5, <1>6, TailLeft
  <2> QED
    BY <1>6, <2>2, <2>3 DEF Sound
<1>8. ASSUME NEW kind
      PROVE  Count(Waiting(s), kind) =
                Count(Waiting(s2), kind) + IF Head(s.wire) = kind THEN 1 ELSE 0
  <2> DEFINE first == <<Head(s.wire)>>
             rest == Tail(s.wire)
  <2>1. Count(first, kind) = IF Head(s.wire) = kind THEN 1 ELSE 0
    BY <1>0, <1>3, TailLeft, CountOne
  <2>2. Waiting(s) = s.wire \o s.queue /\ Waiting(s2) = rest \o s.queue
    BY <1>6 DEF Waiting
  <2>3. first \in Seq(Kind) /\ rest \in Seq(Kind) /\ s.wire = first \o rest
    BY <1>0, <1>3, TailLeft
  <2> HIDE DEF first, rest
  <2>4. Count(Waiting(s), kind) = Count(s.wire, kind) + Count(s.queue, kind)
    BY <1>0, <2>2, CountConcat
  <2>5. Count(Waiting(s2), kind) = Count(rest, kind) + Count(s.queue, kind)
    BY <1>0, <2>2, <2>3, CountConcat
  <2>6. Count(s.wire, kind) = Count(first, kind) + Count(rest, kind)
    BY <2>3, CountConcat
  <2>7. Count(rest, kind) \in Nat /\ Count(s.queue, kind) \in Nat
    BY <1>0, <2>3, PlacesAreFinite
  <2> QED
    BY <2>1, <2>4, <2>5, <2>6, <2>7
<1> QED
  BY <1>0, <1>1, <1>3, <1>7, <1>8, TailLeft

-----------------------------------------------------------------------------
(* Links come in pairs. *)
LEMMA BackLinks ==
  ASSUME NEW l \in Link
  PROVE  Back(l) \in Link /\ Back(Back(l)) = l /\ Back(l) # l
<1>0. l \in Node \X Node
  BY LinkAssumption
<1>1. PICK n \in Node, p \in Node : l = <<n, p>>
  BY <1>0
<1>2. n # p /\ <<p, n>> \in Link
  BY <1>1, LinkAssumption
<1> QED
  BY <1>1, <1>2 DEF Back

(* What is underway, given the ports. *)
LEMMA UnderwayCounts ==
  ASSUME NEW l \in Link, NEW kind
  PROVE  /\ Underway(l, kind) = Count(Waiting(port[l]), kind)
         /\ Underway(l, kind)' = Count(Waiting(port'[l]), kind)
BY DEF Underway, Pending, Waiting, Count, Places

LEMMA UnderwayIsNat ==
  ASSUME NEW l \in Link, NEW kind
  PROVE  /\ Sound(port[l]) => Underway(l, kind) \in Nat
         /\ Sound(port'[l]) => Underway(l, kind)' \in Nat
         /\ Waiting(port[l]) = <<>> => Underway(l, kind) = 0
<1>1. ASSUME NEW s, Sound(s)
      PROVE  Count(Waiting(s), kind) \in Nat
  <2>1. s.wire \in Seq(Kind) /\ s.queue \in Seq(Kind)
    BY <1>1 DEF Sound, Port
  <2>2. Waiting(s) \in Seq(Kind)
    BY <2>1 DEF Waiting
  <2> QED
    BY <2>2, PlacesAreFinite
<1> QED
  BY <1>1, UnderwayCounts, CountEmpty

-----------------------------------------------------------------------------
(* The inductive invariant.  A version is the first packet over its link;  *)
(* a verack is underway from a node exactly if the peer has had its own    *)
(* version received and is not connected yet; and AppBase holds the        *)
(* packets of all callbacks until then.                                    *)
Typed ==
    /\ port \in [Link -> Port(Kind)]
    /\ state \in [Link -> {"UNCONNECTED", "HALF_CONNECTED", "CONNECTED"}]
    /\ notifyMap \in [Link -> Seq({"PING", "PONG"})]
    /\ queue \in [Link -> SUBSET Nat]
    /\ asked \in [Link -> Nat]
    /\ answered \in [Link -> Nat]

Handshake(l) ==
    /\ state[l] = "UNCONNECTED" => Waiting(port[l]) = <<>>
    /\ Underway(l, "VERSION") <= 1
    /\ Underway(l, "VERSION") = 1 =>
          port[l].wire # <<>> /\ port[l].wire[1] = "VERSION"
    /\ (state[l] = "CONNECTED" \/ state[Back(l)] = "CONNECTED") =>
          Underway(l, "VERSION") = 0
    /\ (state[l] # "UNCONNECTED" /\ Underway(l, "VERSION") = 0) =>
          state[Back(l)] # "UNCONNECTED"
    /\ Underway(Back(l), "VERACK") =
          IF state[l] = "HALF_CONNECTED" /\ Underway(l, "VERSION") = 0 THEN 1 ELSE 0
    /\ state[l] # "CONNECTED" =>
          Underway(l, "PING") = 0 /\ Underway(l, "PONG") = 0

HeldUntilConnected(l) ==
    queue[l] = IF state[l] = "CONNECTED" THEN {} ELSE DOMAIN notifyMap[l]

Accounted(l) ==
    asked[l] = Held(l, "PING") + Underway(l, "PING")
               + Held(Back(l), "PONG") + Underway(Back(l), "PONG")
               + answered[l]

Inv ==
    /\ Typed
    /\ \A l \in Link : /\ Sound(port[l])
                       /\ Handshake(l)
                       /\ HeldUntilConnected(l)
                       /\ Accounted(l)

(* What a node holds for its peer. *)
LEMMA HeldCounts ==
  ASSUME NEW l \in Link, Typed, HeldUntilConnected(l), NEW kind
  PROVE  Held(l, kind) = IF state[l] = "CONNECTED" THEN 0
                         ELSE Count(notifyMap[l], kind)
<1>1. CASE state[l] = "CONNECTED"
  <2>1. {i \in queue[l] : notifyMap[l][i] = kind} = {}
    BY <1>1 DEF HeldUntilConnected
  <2> QED
    BY <1>1, <2>1, FS_EmptySet DEF Held
<1>2. CASE state[l] # "CONNECTED"
  BY <1>2 DEF HeldUntilConnected, Held, Count, Places
<1> QED
  BY <1>1, <1>2

LEMMA CallbacksCounted ==
  ASSUME NEW s \in Seq({"PING", "PONG"})
  PROVE  /\ s \in Seq(Kind)
         /\ Count(s, "VERSION") = 0 /\ Count(s, "VERACK") = 0
         /\ Count(s, "PING") \in Nat /\ Count(s, "PONG") \in Nat
<1>1. s \in Seq(Kind)
  <2>1. {"PING", "PONG"} \subseteq Kind
    BY DEF Kind
  <2> QED
    BY <2>1, SeqMonotonic
<1>2. Places(s, "VERSION") = {} /\ Places(s, "VERACK") = {}
  BY DEF Places
<1>3. Count(s, "VERSION") = 0 /\ Count(s, "VERACK") = 0
  BY <1>2, FS_EmptySet DEF Count
<1> QED
  BY <1>1, <1>3, PlacesAreFinite

(* All callbacks of a peer are run, in order, when it gets connected. *)
LEMMA PacketsAreCallbacks ==
  ASSUME NEW l \in Link, Typed, HeldUntilConnected(l), state[l] # "CONNECTED"
  PROVE  Released(l) = queue[l] /\ Packets(l) = notifyMap[l]
<1> DEFINE c == notifyMap[l]
           n == Len(c)
<1>1. c \in Seq({"PING", "PONG"})
  BY DEF Typed
<1>2. n \in Nat /\ DOMAIN c = 1 .. n /\ c = [i \in 1 .. n |-> c[i]]
  BY <1>1
<1>3. Released(l) = 1 .. n /\ queue[l] = 1 .. n
  BY <1>2 DEF HeldUntilConnected, Released
<1> HIDE DEF c, n
<1>4. Cardinality(1 .. n) = n
  BY <1>2, FS_Interval
<1>5. ASSUME NEW k \in 1 .. n
      PROVE  InOrder(1 .. n, k) = k
  <2>1. ASSUME NEW i \in 1 .. n
        PROVE  Cardinality({j \in 1 .. n : j <= i}) = i
    <3>1. {j \in 1 .. n : j <= i} = 1 .. i /\ i \in Nat
      BY <1>2
    <3>2. Cardinality(1 .. i) = i
      BY <3>1, FS_Interval
    <3> QED
      BY <3>1, <3>2
  <2> QED
    BY <2>1 DEF InOrder
<1>6. Packets(l) = [k \in 1 .. n |-> c[InOrder(1 .. n, k)]]
  BY <1>3, <1>4 DEF Packets, c
<1>7. [k \in 1 .. n |-> c[InOrder(1 .. n, k)]] = [k \in 1 .. n |-> c[k]]
  BY <1>5
<1> QED
  BY <1>2, <1>3, <1>6, <1>7 DEF c

LEMMA InitInv == Init => Inv
<1> SUFFICES ASSUME Init PROVE Inv
  OBVIOUS
<1>1. IdlePort \in Port(Kind)
  BY DEF IdlePort, Port, NoTimer
<1>2. Typed
  BY <1>1 DEF Init, Typed
<1>3. ASSUME NEW l \in Link
      PROVE  Sound(port[l]) /\ HeldUntilConnected(l) /\ Waiting(port[l]) = <<>>
  <2>1. port[l] = IdlePort /\ queue[l] = {} /\ notifyMap[l] = <<>>
    BY DEF Init
  <2>2. /\ IdlePort.wire = <<>> /\ IdlePort.queue = <<>>
        /\ IdlePort.busy = FALSE
    BY DEF IdlePort
  <2>3. Sound(IdlePort)
    BY <1>1, <2>2 DEF Sound
  <2>4. Waiting(IdlePort) = <<>>
    BY <2>2 DEF Waiting
  <2>5. HeldUntilConnected(l)
    BY <2>1 DEF HeldUntilConnected
  <2> QED
    BY <2>1, <2>3, <2>4, <2>5
<1>4. ASSUME NEW l \in Link, NEW kind
      PROVE  Underway(l, kind) = 0 /\ Held(l, kind) = 0
  <2>1. Underway(l, kind) = 0
    BY <1>3, UnderwayIsNat
  <2>2. notifyMap[l] = <<>> /\ state[l] # "CONNECTED"
    BY DEF Init
  <2> QED
    BY <1>2, <1>3, <2>1, <2>2, HeldCounts, CountEmpty
<1>5. ASSUME NEW l \in Link PROVE Handshake(l)
  BY <1>3, <1>4, BackLinks DEF Handshake, Init
<1>6. ASSUME NEW l \in Link PROVE Accounted(l)
  BY <1>4, BackLinks DEF Accounted, Init
<1> QED
  BY <1>2, <1>3, <1>5, <1>6 DEF Inv

-----------------------------------------------------------------------------
(* What a handler does to the ports: the packet it handles, if any, leaves *)
(* the port of Back(l), and the packets it sends enter the port of l.      *)
PortsSound == port \in [Link -> Port(Kind)] /\ \A x \in Link : Sound(port[x])

Sent(l, packets) ==
    /\ Sound(port'[l])
    /\ \A kind \in Kind :
          Underway(l, kind)' = Underway(l, kind) + Count(packets, kind)
    /\ port[l].wire # <<>> => /\ port'[l].wire # <<>>
                              /\ port'[l].wire[1] = port[l].wire[1]
    /\ (Waiting(port[l]) = <<>> /\ packets # <<>>) =>
          port'[l].wire # <<>> /\ port'[l].wire[1] = packets[1]

Taken(m, kind) ==
    /\ Sound(port'[m])
    /\ port[m].wire # <<>> /\ port[m].wire[1] = kind
    /\ Waiting(port[m]) # <<>>
    /\ \A k \in Kind :
          Underway(m, k) = Underway(m, k)' + IF kind = k THEN 1 ELSE 0

LEMMA SendingPorts ==
  ASSUME PortsSound, NEW l \in Link, NEW packets \in Seq(Kind),
         Output(port, l, packets)
  PROVE  /\ port' \in [Link -> Port(Kind)]
         /\ \A x \in Link : x # l => port'[x] = port[x]
         /\ Sent(l, packets)
<1>1. Sound(port[l])
  BY DEF PortsSound
<1>2. /\ port' = [port EXCEPT ![l] = Submit(port[l], packets)]
      /\ port'[l] = Submit(port[l], packets)
      /\ \A x \in Link : x # l => port'[x] = port[x]
  BY DEF Output, PortsSound
<1>3. Sent(l, packets)
  BY <1>1, <1>2, SubmitIsSound, SubmitAdds, UnderwayCounts DEF Sent
<1>4. port'[l] \in Port(Kind)
  BY <1>3 DEF Sent, Sound
<1> QED
  BY <1>2, <1>3, <1>4 DEF PortsSound

LEMMA DeliveringPorts ==
  ASSUME PortsSound, NEW m \in Link, NEW packets \in Seq(Kind), Arrives(m),
         Output([port EXCEPT ![m] = Arrived(@)], Back(m), packets)
  PROVE  /\ port' \in [Link -> Port(Kind)]
         /\ \A x \in Link : x # m /\ x # Back(m) => port'[x] = port[x]
         /\ Taken(m, Head(port[m].wire)) /\ Head(port[m].wire) \in Kind
         /\ Sent(Back(m), packets)
<1> DEFINE l == Back(m)
           P == [port EXCEPT ![m] = Arrived(@)]
           kind == Head(port[m].wire)
<1>1. l \in Link /\ l # m
  BY BackLinks
<1>2. Sound(port[l]) /\ Sound(port[m])
  BY <1>1 DEF PortsSound
<1>3. /\ Sound(Arrived(port[m]))
      /\ port[m].wire # <<>> /\ kind \in Kind /\ port[m].wire[1] = kind
      /\ \A k : Count(Waiting(port[m]), k) =
            Count(Waiting(Arrived(port[m])), k) + IF kind = k THEN 1 ELSE 0
  BY <1>2, ArrivalTakesHead DEF Arrives
<1>4. Arrived(port[m]) \in Port(Kind)
  BY <1>3 DEF Sound
<1>5. /\ P \in [Link -> Port(Kind)]
      /\ P[m] = Arrived(port[m])
      /\ \A x \in Link : x # m => P[x] = port[x]
  BY <1>4 DEF PortsSound
<1>6. port' = [P EXCEPT ![l] = Submit(P[l], packets)]
  BY DEF Output
<1> HIDE DEF P, l
<1>7. /\ port'[l] = Submit(port[l], packets)
      /\ port'[m] = Arrived(port[m])
      /\ \A x \in Link : x # m /\ x # l => port'[x] = port[x]
  BY <1>1, <1>5, <1>6
<1>8. Sent(l, packets)
  BY <1>1, <1>2, <1>7, SubmitIsSound, SubmitAdds, UnderwayCounts DEF Sent
<1>9. Submit(P[l], packets) \in Port(Kind)
  BY <1>1, <1>2, <1>5, SubmitIsSound DEF Sound
<1>10. port' \in [Link -> Port(Kind)]
  BY <1>1, <1>5, <1>6, <1>9
<1>11. Taken(m, kind)
  <2>1. Waiting(port[m]) # <<>>
    <3>1. port[m].wire \in Seq(Kind) /\ port[m].queue \in Seq(Kind)
      BY <1>2 DEF Sound, Port
    <3> QED
      BY <1>3, <3>1 DEF Waiting
  <2>2. \A k \in Kind : Underway(m, k) = Underway(m, k)' + IF kind = k THEN 1 ELSE 0
    BY <1>3, <1>7, UnderwayCounts
  <2> QED
    BY <1>3, <1>7, <2>1, <2>2 DEF Taken
<1> QED
  BY <1>3, <1>7, <1>8, <1>10, <1>11 DEF l

-----------------------------------------------------------------------------
(* The invariant of the two links between two nodes.                       *)
PairInv(l) ==
    /\ Sound(port[l]) /\ Sound(port[Back(l)])
    /\ Handshake(l) /\ Handshake(Back(l))
    /\ HeldUntilConnected(l) /\ HeldUntilConnected(Back(l))
    /\ Accounted(l) /\ Accounted(Back(l))

LEMMA InvOfPair ==
  ASSUME Inv, NEW l \in Link
  PROVE  /\ PortsSound /\ Typed /\ PairInv(l)
         /\ \A k : Underway(l, k) \in Nat /\ Underway(Back(l), k) \in Nat
<1>1. Back(l) \in Link
  BY BackLinks
<1>2. PortsSound /\ Typed /\ PairInv(l)
  BY <1>1 DEF Inv, PortsSound, PairInv, Typed
<1> QED
  BY <1>1, <1>2, UnderwayIsNat DEF PairInv

(* A step that concerns the two links l and Back(l) leaves the others.     *)
LEMMA PairSuffices ==
  ASSUME Inv, NEW l \in Link, Typed', PairInv(l)',
         \A x \in Link : x # l /\ x # Back(l) =>
            /\ port'[x] = port[x] /\ state'[x] = state[x]
            /\ notifyMap'[x] = notifyMap[x] /\ queue'[x] = queue[x]
            /\ asked'[x] = asked[x] /\ answered'[x] = answered[x]
  PROVE  Inv'
<1>1. ASSUME NEW x \in Link
      PROVE  (Sound(port[x]) /\ Handshake(x) /\ HeldUntilConnected(x) /\ Accounted(x))'
  <2>1. CASE x = l \/ x = Back(l)
    BY <2>1 DEF PairInv
  <2>2. CASE x # l /\ x # Back(l)
    <3> DEFINE y == Back(x)
    <3>1. y \in Link /\ y # l /\ y # Back(l)
      BY <2>2, BackLinks
    <3>2. /\ port'[x] = port[x] /\ state'[x] = state[x]
          /\ notifyMap'[x] = notifyMap[x] /\ queue'[x] = queue[x]
          /\ asked'[x] = asked[x] /\ answered'[x] = answered[x]
          /\ port'[y] = port[y] /\ state'[y] = state[y]
          /\ notifyMap'[y] = notifyMap[y] /\ queue'[y] = queue[y]
      BY <2>2, <3>1
    <3>3. \A k : /\ Underway(x, k)' = Underway(x, k)
                 /\ Underway(y, k)' = Underway(y, k)
      BY <3>1, <3>2, UnderwayCounts
    <3>4. \A k : Held(x, k)' = Held(x, k) /\ Held(y, k)' = Held(y, k)
      BY <3>2 DEF Held
    <3>5. Sound(port[x]) /\ Handshake(x) /\ HeldUntilConnected(x) /\ Accounted(x)
      BY DEF Inv
    <3>6. Sound(port'[x])
      BY <3>2, <3>5
    <3>7. Handshake(x)'
      BY <3>2, <3>3, <3>5 DEF Handshake
    <3>8. HeldUntilConnected(x)'
      BY <3>2, <3>5 DEF HeldUntilConnected
    <3>9. Accounted(x)'
      BY <3>2, <3>3, <3>4, <3>5 DEF Accounted
    <3> QED
      BY <3>6, <3>7, <3>8, <3>9
  <2> QED
    BY <2>1, <2>2
<1> QED
  BY <1>1 DEF Inv

(* Sequences of one and two packets. *)
LEMMA CountShort ==
  /\ \A x \in Kind : <<x>> \in Seq(Kind) /\ <<x>> # <<>> /\ <<x>>[1] = x
  /\ \A x, k \in Kind : Count(<<x>>, k) = IF x = k THEN 1 ELSE 0
  /\ \A k \in Kind : Count(<<>>, k) = 0
  /\ <<>> \in Seq(Kind)
  /\ <<"VERSION", "VERACK">> \in Seq(Kind)
  /\ \A k \in Kind : Count(<<"VERSION", "VERACK">>, k) =
        IF k \in {"VERSION", "VERACK"} THEN 1 ELSE 0
<1>1. /\ \A x \in Kind : <<x>> \in Seq(Kind) /\ <<x>> # <<>> /\ <<x>>[1] = x
      /\ <<"VERSION", "VERACK">> \in Seq(Kind)
      /\ <<>> \in Seq(Kind)
  BY DEF Kind
<1>2. \A x, k \in Kind : Count(<<x>>, k) = IF x = k THEN 1 ELSE 0
  BY CountOne
<1>3. \A k \in Kind : Count(<<"VERSION", "VERACK">>, k) =
        IF k \in {"VERSION", "VERACK"} THEN 1 ELSE 0
  <2> TAKE k \in Kind
  <2> DEFINE v == <<"VERSION">>
             a == <<"VERACK">>
             both == <<"VERSION", "VERACK">>
  <2>1. both = v \o a
    OBVIOUS
  <2>2. "VERSION" \in Kind /\ "VERACK" \in Kind
    BY DEF Kind
  <2>3. /\ v \in Seq(Kind) /\ a \in Seq(Kind)
        /\ Count(v, k) = IF k = "VERSION" THEN 1 ELSE 0
        /\ Count(a, k) = IF k = "VERACK" THEN 1 ELSE 0
    BY <1>1, <1>2, <2>2
  <2> HIDE DEF v, a, both
  <2>4. Count(v \o a, k) = Count(v, k) + Count(a, k)
    BY <2>3, CountConcat
  <2>5. Count(both, k) = IF k \in {"VERSION", "VERACK"} THEN 1 ELSE 0
    BY <2>1, <2>3, <2>4
  <2> QED
    BY <2>5 DEF both
<1> QED
  BY <1>1, <1>2, <1>3, CountEmpty

(* The version of the peer arrives over Back(l). *)
LEMMA VersionStep ==
  ASSUME Inv, NEW m \in Link, Arrives(m), Head(port[m].wire) = "VERSION",
         HandleVersion([port EXCEPT ![m] = Arrived(@)], Back(m)),
         UNCHANGED <<asked, answered>>
  PROVE  Inv'
<1> DEFINE l == Back(m)
<1>0. l \in Link /\ l # m /\ Back(l) = m
  BY BackLinks
<1>1. /\ PortsSound /\ Typed /\ PairInv(m)
      /\ \A k : Underway(l, k) \in Nat /\ Underway(m, k) \in Nat
  BY InvOfPair
<1>2. Introduced(l) \in Seq(Kind) /\ Introduced(l) # <<>>
  BY CountShort DEF Introduced, Kind
<1>3. /\ port' \in [Link -> Port(Kind)]
      /\ \A x \in Link : x # m /\ x # l => port'[x] = port[x]
      /\ Taken(m, "VERSION") /\ Sent(l, Introduced(l))
  BY <1>1, <1>2, DeliveringPorts DEF HandleVersion
<1>4. \A k : Underway(l, k)' \in Nat /\ Underway(m, k)' \in Nat
  BY <1>0, <1>3, UnderwayIsNat DEF Taken, Sent
<1> HIDE DEF l
<1>5. /\ Sound(port[m]) /\ Sound(port[l])
      /\ Handshake(m) /\ Handshake(l)
      /\ HeldUntilConnected(m) /\ HeldUntilConnected(l)
      /\ Accounted(m) /\ Accounted(l)
  BY <1>1 DEF PairInv, l
<1>6. /\ Underway(m, "VERSION") = 1 /\ Underway(m, "VERSION")' = 0
      /\ Underway(m, "VERACK")' = Underway(m, "VERACK")
      /\ Underway(m, "PING")' = Underway(m, "PING")
      /\ Underway(m, "PONG")' = Underway(m, "PONG")
  BY <1>1, <1>3, <1>4, <1>5 DEF Taken, Handshake, Kind
<1>7. /\ state[m] = "HALF_CONNECTED" /\ state[l] # "CONNECTED"
      /\ Underway(l, "VERACK") = 0
  BY <1>0, <1>1, <1>3, <1>5, <1>6 DEF Taken, Handshake, Typed, l
<1>8. /\ state'[l] = "HALF_CONNECTED" /\ state'[m] = state[m]
      /\ \A x \in Link : x # l => state'[x] = state[x]
      /\ state' \in [Link -> {"UNCONNECTED", "HALF_CONNECTED", "CONNECTED"}]
      /\ UNCHANGED <<notifyMap, queue, asked, answered>>
  BY <1>0, <1>1, <1>7 DEF HandleVersion, Typed, l
<1>9. /\ Underway(l, "VERACK")' = 1
      /\ Underway(l, "PING")' = Underway(l, "PING")
      /\ Underway(l, "PONG")' = Underway(l, "PONG")
      /\ Underway(l, "VERSION")' = Underway(l, "VERSION")
            + IF state[l] = "UNCONNECTED" THEN 1 ELSE 0
  BY <1>1, <1>3, <1>7, CountShort DEF Sent, Introduced, Kind
<1>10. Handshake(m)'
  BY <1>0, <1>5, <1>6, <1>7, <1>8, <1>9 DEF Handshake, l
<1>11. Handshake(l)'
  <2>1. Underway(l, "VERSION")' = 1 => port'[l].wire # <<>> /\ port'[l].wire[1] = "VERSION"
    <3>1. CASE state[l] = "UNCONNECTED"
      <4>1. Waiting(port[l]) = <<>> /\ Introduced(l)[1] = "VERSION"
        BY <1>5, <3>1 DEF Handshake, Introduced
      <4> QED
        BY <1>2, <1>3, <4>1 DEF Sent
    <3>2. CASE state[l] # "UNCONNECTED"
      BY <1>1, <1>3, <1>5, <1>9, <3>2 DEF Sent, Handshake
    <3> QED
      BY <3>1, <3>2
  <2>2. state[l] = "UNCONNECTED" => Underway(l, "VERSION") = 0
    <3>1. state[l] = "UNCONNECTED" => Waiting(port[l]) = <<>>
      BY <1>5 DEF Handshake
    <3> QED
      BY <1>0, <3>1, UnderwayIsNat
  <2>3. /\ Underway(l, "VERSION") <= 1
        /\ Underway(m, "VERACK") =
              IF state[l] = "HALF_CONNECTED" /\ Underway(l, "VERSION") = 0 THEN 1 ELSE 0
        /\ Underway(l, "PING") = 0 /\ Underway(l, "PONG") = 0
    BY <1>0, <1>5, <1>7 DEF Handshake
  <2>4. state[l] = "UNCONNECTED" \/ state[l] = "HALF_CONNECTED"
    BY <1>0, <1>1, <1>7 DEF Typed
  <2>5. Underway(l, "VERSION")' <= 1
    BY <1>1, <1>9, <2>2, <2>3
  <2>6. Underway(m, "VERACK")' =
              IF state'[l] = "HALF_CONNECTED" /\ Underway(l, "VERSION")' = 0 THEN 1 ELSE 0
    BY <1>1, <1>6, <1>8, <1>9, <2>2, <2>3, <2>4
  <2> QED
    BY <1>0, <1>7, <1>8, <1>9, <2>1, <2>3, <2>5, <2>6 DEF Handshake
<1>12. (HeldUntilConnected(m) /\ HeldUntilConnected(l))'
  BY <1>0, <1>5, <1>7, <1>8 DEF HeldUntilConnected
<1>13. (Accounted(m) /\ Accounted(l))'
  BY <1>0, <1>5, <1>6, <1>8, <1>9 DEF Accounted, Held, l
<1>14. Typed'
  BY <1>1, <1>3, <1>8 DEF Typed
<1>15. PairInv(m)'
  BY <1>3, <1>10, <1>11, <1>12, <1>13 DEF PairInv, Taken, Sent, l
<1> QED
  BY <1>3, <1>8, <1>14, <1>15, PairSuffices DEF l

(* A packet that an application sends goes out, or is held: the port and   *)
(* AppBase together have one more of its kind.                             *)
Goes(l, kind) ==
    CASE state[l] = "CONNECTED"      -> <<kind>>
      [] state[l] = "UNCONNECTED"    -> <<"VERSION">>
      [] state[l] = "HALF_CONNECTED" -> <<>>

LEMMA SendPacketStep ==
  ASSUME Typed, NEW l \in Link, HeldUntilConnected(l),
         NEW kind \in {"PING", "PONG"}, NEW P, SendPacket(P, l, kind)
  PROVE  /\ Output(P, l, Goes(l, kind)) /\ Goes(l, kind) \in Seq(Kind)
         /\ \A x \in Link : x # l => /\ state'[x] = state[x]
                                     /\ notifyMap'[x] = notifyMap[x]
                                     /\ queue'[x] = queue[x]
         /\ state'[l] = IF state[l] = "CONNECTED" THEN state[l] ELSE "HALF_CONNECTED"
         /\ state' \in [Link -> {"UNCONNECTED", "HALF_CONNECTED", "CONNECTED"}]
         /\ notifyMap' \in [Link -> Seq({"PING", "PONG"})]
         /\ queue' \in [Link -> SUBSET Nat]
         /\ HeldUntilConnected(l)'
         /\ \A k \in {"PING", "PONG"} :
               Held(l, k)' = Held(l, k)
                  + IF state[l] # "CONNECTED" /\ k = kind THEN 1 ELSE 0
<1>0. kind \in Kind /\ "VERSION" \in Kind
  BY DEF Kind
<1>1. /\ state \in [Link -> {"UNCONNECTED", "HALF_CONNECTED", "CONNECTED"}]
      /\ notifyMap \in [Link -> Seq({"PING", "PONG"})]
      /\ queue \in [Link -> SUBSET Nat]
      /\ notifyMap[l] \in Seq({"PING", "PONG"})
  BY DEF Typed
<1>2. Goes(l, kind) \in Seq(Kind)
  BY <1>0, <1>1, CountShort DEF Goes
<1>3. \A k \in {"PING", "PONG"} : Held(l, k) \in Nat
  BY <1>1, HeldCounts, CallbacksCounted
<1>4. CASE state[l] = "CONNECTED"
  <2>1. Output(P, l, <<kind>>) /\ UNCHANGED <<state, notifyMap, queue>>
    BY <1>4 DEF SendPacket, appVars
  <2>2. Goes(l, kind) = <<kind>>
    BY <1>4 DEF Goes
  <2>3. HeldUntilConnected(l)'
    BY <2>1 DEF HeldUntilConnected
  <2>4. \A k : Held(l, k)' = Held(l, k)
    BY <2>1 DEF Held
  <2> QED
    BY <1>1, <1>2, <1>3, <1>4, <2>1, <2>2, <2>3, <2>4
<1>5. CASE state[l] # "CONNECTED"
  <2> DEFINE c == notifyMap[l]
  <2>1. /\ notifyMap' = [notifyMap EXCEPT ![l] = Append(c, kind)]
        /\ queue' = [queue EXCEPT ![l] = queue[l] \cup {Len(c) + 1}]
        /\ state' = [state EXCEPT ![l] = "HALF_CONNECTED"]
        /\ Output(P, l, IF state[l] = "UNCONNECTED" THEN <<"VERSION">> ELSE <<>>)
    BY <1>5 DEF SendPacket, Registered
  <2>2. Goes(l, kind) = IF state[l] = "UNCONNECTED" THEN <<"VERSION">> ELSE <<>>
    BY <1>1, <1>5 DEF Goes
  <2>3. /\ Append(c, kind) \in Seq({"PING", "PONG"})
        /\ DOMAIN Append(c, kind) = DOMAIN c \cup {Len(c) + 1}
        /\ Len(c) + 1 \in Nat /\ DOMAIN c \subseteq Nat
        /\ Append(c, kind) = c \o <<kind>>
    BY <1>1
  <2>4. /\ c \in Seq(Kind) /\ Append(c, kind) \in Seq(Kind)
        /\ <<kind>> \in Seq(Kind)
    BY <1>0, <1>1, <2>3, CallbacksCounted, CountShort
  <2>5. \A k \in {"PING", "PONG"} :
           Count(Append(c, kind), k) = Count(c, k) + IF k = kind THEN 1 ELSE 0
    <3> TAKE k \in {"PING", "PONG"}
    <3>1. Count(c \o <<kind>>, k) = Count(c, k) + Count(<<kind>>, k)
      BY <2>4, CountConcat
    <3>2. Count(<<kind>>, k) = IF k = kind THEN 1 ELSE 0
      BY <1>0, CountOne
    <3> QED
      BY <2>3, <3>1, <3>2
  <2>6. queue[l] = DOMAIN c
    BY <1>5 DEF HeldUntilConnected
  <2> HIDE DEF c
  <2>7. /\ notifyMap'[l] = Append(c, kind)
        /\ queue'[l] = DOMAIN Append(c, kind)
        /\ state'[l] = "HALF_CONNECTED"
    BY <1>1, <2>1, <2>3, <2>6
  <2>8. HeldUntilConnected(l)'
    BY <2>7 DEF HeldUntilConnected
  <2>9. ASSUME NEW k \in {"PING", "PONG"}
        PROVE  Held(l, k)' = Held(l, k) + IF k = kind THEN 1 ELSE 0
    <3>1. Held(l, k) = Count(c, k)
      BY <1>5, HeldCounts DEF c
    <3>2. Held(l, k)' = Count(Append(c, kind), k)
      BY <2>7 DEF Held, Count, Places
    <3> QED
      BY <2>5, <3>1, <3>2
  <2>10. /\ \A x \in Link : x # l => /\ state'[x] = state[x]
                                     /\ notifyMap'[x] = notifyMap[x]
                                     /\ queue'[x] = queue[x]
         /\ state' \in [Link -> {"UNCONNECTED", "HALF_CONNECTED", "CONNECTED"}]
         /\ notifyMap' \in [Link -> Seq({"PING", "PONG"})]
         /\ queue' \in [Link -> SUBSET Nat]
    BY <1>1, <2>1, <2>3
  <2>11. Output(P, l, Goes(l, kind))
    BY <2>1, <2>2
  <2> QED
    BY <1>2, <1>5, <2>7, <2>8, <2>9, <2>10, <2>11
<1> QED
  BY <1>4, <1>5

(* Sending keeps the handshake: a version goes out only if nothing has     *)
(* gone out before, and then the peer is not connected either.             *)
Untaken(m) ==
    /\ Sound(port'[m])
    /\ \A k \in {"VERSION", "VERACK"} : Underway(m, k)' = Underway(m, k)
    /\ \A k \in {"PING", "PONG"} : Underway(m, k) = 0 => Underway(m, k)' = 0
    /\ Underway(m, "VERSION") = 1 =>
          port'[m].wire # <<>> /\ port'[m].wire[1] = "VERSION"
    /\ state[m] = "UNCONNECTED" => Waiting(port'[m]) = <<>>

LEMMA SendKeepsHandshake ==
  ASSUME Inv, NEW l \in Link, NEW kind \in {"PING", "PONG"},
         Sent(l, Goes(l, kind)), Untaken(Back(l)),
         state'[l] = IF state[l] = "CONNECTED" THEN state[l] ELSE "HALF_CONNECTED",
         state'[Back(l)] = state[Back(l)]
  PROVE  /\ Handshake(l)' /\ Handshake(Back(l))'
         /\ \A k \in {"PING", "PONG"} :
               Underway(l, k)' = Underway(l, k)
                  + IF state[l] = "CONNECTED" /\ k = kind THEN 1 ELSE 0
<1> DEFINE m == Back(l)
<1>0. m \in Link /\ m # l /\ Back(m) = l
  BY BackLinks
<1>1. /\ Typed /\ PairInv(l)
      /\ \A k : Underway(l, k) \in Nat /\ Underway(m, k) \in Nat
  BY InvOfPair
<1>2. Untaken(m) /\ state'[m] = state[m]
  OBVIOUS
<1>3. Handshake(m) /\ Handshake(l) /\ Sound(port[l])
  BY <1>1 DEF PairInv
<1>4. Back(l) = m
  OBVIOUS
<1> HIDE DEF m
<1>5. /\ state[l] \in {"UNCONNECTED", "HALF_CONNECTED", "CONNECTED"}
      /\ state[m] \in {"UNCONNECTED", "HALF_CONNECTED", "CONNECTED"}
  BY <1>0, <1>1 DEF Typed
<1>6. state[l] = "UNCONNECTED" =>
         /\ Underway(l, "VERSION") = 0
         /\ Waiting(port[l]) = <<>>
         /\ state[m] # "CONNECTED"
  <2>1. state[l] = "UNCONNECTED" => Waiting(port[l]) = <<>>
    BY <1>3 DEF Handshake
  <2>2. state[m] = "CONNECTED" => state[l] # "UNCONNECTED"
    BY <1>0, <1>3 DEF Handshake
  <2> QED
    BY <2>1, <2>2, UnderwayIsNat
<1>7. /\ Underway(l, "VERSION")' = Underway(l, "VERSION")
                                   + IF state[l] = "UNCONNECTED" THEN 1 ELSE 0
      /\ Underway(l, "VERACK")' = Underway(l, "VERACK")
      /\ \A k \in {"PING", "PONG"} :
            Underway(l, k)' = Underway(l, k)
               + IF state[l] = "CONNECTED" /\ k = kind THEN 1 ELSE 0
  <2>1. kind \in Kind /\ "VERSION" \in Kind /\ "VERACK" \in Kind
        /\ {"PING", "PONG"} \subseteq Kind
    BY DEF Kind
  <2>2. \A k \in Kind : Underway(l, k)' = Underway(l, k) + Count(Goes(l, kind), k)
    BY DEF Sent
  <2>3. CASE state[l] = "CONNECTED"
    <3>1. Goes(l, kind) = <<kind>>
      BY <2>3 DEF Goes
    <3> QED
      BY <1>1, <2>1, <2>2, <2>3, <3>1, CountShort
  <2>4. CASE state[l] = "UNCONNECTED"
    <3>1. Goes(l, kind) = <<"VERSION">>
      BY <2>4 DEF Goes
    <3> QED
      BY <1>1, <2>1, <2>2, <2>4, <3>1, CountShort
  <2>5. CASE state[l] = "HALF_CONNECTED"
    <3>1. Goes(l, kind) = <<>>
      BY <2>5 DEF Goes
    <3> QED
      BY <1>1, <2>1, <2>2, <2>5, <3>1, CountShort
  <2> QED
    BY <1>5, <2>3, <2>4, <2>5
<1>8. Underway(l, "VERSION")' = 1 =>
         port'[l].wire # <<>> /\ port'[l].wire[1] = "VERSION"
  <2>1. CASE state[l] = "UNCONNECTED"
    <3>1. Goes(l, kind) = <<"VERSION">>
      BY <2>1 DEF Goes
    <3>2. Goes(l, kind) # <<>> /\ Goes(l, kind)[1] = "VERSION"
      BY <3>1
    <3> QED
      BY <1>6, <2>1, <3>2 DEF Sent
  <2>2. CASE state[l] # "UNCONNECTED"
    BY <1>1, <1>3, <1>7, <2>2 DEF Sent, Handshake
  <2> QED
    BY <2>1, <2>2
<1>9. Handshake(l)'
  <2>1. /\ Underway(l, "VERSION") <= 1
        /\ (state[l] = "CONNECTED" \/ state[m] = "CONNECTED") => Underway(l, "VERSION") = 0
        /\ (state[l] # "UNCONNECTED" /\ Underway(l, "VERSION") = 0) => state[m] # "UNCONNECTED"
        /\ Underway(m, "VERACK") =
              IF state[l] = "HALF_CONNECTED" /\ Underway(l, "VERSION") = 0 THEN 1 ELSE 0
        /\ state[l] # "CONNECTED" => Underway(l, "PING") = 0 /\ Underway(l, "PONG") = 0
    BY <1>3, <1>4 DEF Handshake
  <2>2. Underway(m, "VERACK")' = Underway(m, "VERACK")
    BY <1>2 DEF Untaken
  <2>3. Underway(l, "VERSION")' <= 1
    BY <1>1, <1>6, <1>7, <2>1
  <2>4. (state'[l] = "CONNECTED" \/ state'[m] = "CONNECTED") => Underway(l, "VERSION")' = 0
    BY <1>1, <1>2, <1>5, <1>6, <1>7, <2>1
  <2>5. Underway(l, "VERSION")' = 0 => state'[m] # "UNCONNECTED"
    BY <1>1, <1>2, <1>5, <1>6, <1>7, <2>1
  <2>6. Underway(m, "VERACK")' =
              IF state'[l] = "HALF_CONNECTED" /\ Underway(l, "VERSION")' = 0 THEN 1 ELSE 0
    BY <1>1, <1>5, <1>6, <1>7, <2>1, <2>2
  <2>7. state'[l] # "CONNECTED" => Underway(l, "PING")' = 0 /\ Underway(l, "PONG")' = 0
    BY <1>1, <1>5, <1>7, <2>1
  <2>8. state'[l] # "UNCONNECTED"
    BY <1>5
  <2> QED
    BY <1>4, <1>8, <2>3, <2>4, <2>5, <2>6, <2>7, <2>8 DEF Handshake
<1>10. Handshake(m)'
  <2>1. /\ Underway(m, "VERSION") <= 1
        /\ (state[l] = "CONNECTED" \/ state[m] = "CONNECTED") => Underway(m, "VERSION") = 0
        /\ Underway(l, "VERACK") =
              IF state[m] = "HALF_CONNECTED" /\ Underway(m, "VERSION") = 0 THEN 1 ELSE 0
        /\ state[m] # "CONNECTED" => Underway(m, "PING") = 0 /\ Underway(m, "PONG") = 0
    BY <1>0, <1>3 DEF Handshake
  <2>2. /\ \A k \in {"VERSION", "VERACK"} : Underway(m, k)' = Underway(m, k)
        /\ \A k \in {"PING", "PONG"} : Underway(m, k) = 0 => Underway(m, k)' = 0
        /\ Underway(m, "VERSION") = 1 =>
              port'[m].wire # <<>> /\ port'[m].wire[1] = "VERSION"
        /\ state[m] = "UNCONNECTED" => Waiting(port'[m]) = <<>>
    BY <1>2 DEF Untaken
  <2>3. state'[l] # "UNCONNECTED" /\ (state'[l] = "CONNECTED" => state[l] = "CONNECTED")
    BY <1>5
  <2> QED
    BY <1>0, <1>2, <1>7, <2>1, <2>2, <2>3 DEF Handshake
<1> QED
  BY <1>4, <1>7, <1>9, <1>10

LEMMA HeldIsNat ==
  ASSUME Inv, NEW l \in Link, NEW kind \in {"PING", "PONG"}
  PROVE  Held(l, kind) \in Nat
<1>1. Typed /\ HeldUntilConnected(l) /\ notifyMap[l] \in Seq({"PING", "PONG"})
  BY DEF Inv, Typed
<1> QED
  BY <1>1, HeldCounts, CallbacksCounted

(* The timer of a Pinger goes off. *)
LEMMA PingStep ==
  ASSUME Inv, NEW l \in Link, Ping(l)
  PROVE  Inv'
<1> DEFINE m == Back(l)
<1>0. m \in Link /\ m # l /\ Back(m) = l
  BY BackLinks
<1>1. /\ PortsSound /\ Typed /\ PairInv(l)
      /\ \A k : Underway(l, k) \in Nat /\ Underway(m, k) \in Nat
      /\ HeldUntilConnected(l) /\ HeldUntilConnected(m)
      /\ Accounted(l) /\ Accounted(m)
      /\ Sound(port[m]) /\ Handshake(m)
  BY InvOfPair DEF PairInv
<1>2. SendPacket(port, l, "PING")
  BY DEF Ping
<1>3. /\ Output(port, l, Goes(l, "PING")) /\ Goes(l, "PING") \in Seq(Kind)
      /\ \A x \in Link : x # l => /\ state'[x] = state[x]
                                  /\ notifyMap'[x] = notifyMap[x]
                                  /\ queue'[x] = queue[x]
      /\ state'[l] = IF state[l] = "CONNECTED" THEN state[l] ELSE "HALF_CONNECTED"
      /\ state' \in [Link -> {"UNCONNECTED", "HALF_CONNECTED", "CONNECTED"}]
      /\ notifyMap' \in [Link -> Seq({"PING", "PONG"})]
      /\ queue' \in [Link -> SUBSET Nat]
      /\ HeldUntilConnected(l)'
      /\ \A k \in {"PING", "PONG"} :
            Held(l, k)' = Held(l, k)
               + IF state[l] # "CONNECTED" /\ k = "PING" THEN 1 ELSE 0
  BY <1>1, <1>2, SendPacketStep
<1>4. /\ port' \in [Link -> Port(Kind)]
      /\ \A x \in Link : x # l => port'[x] = port[x]
      /\ Sent(l, Goes(l, "PING"))
  BY <1>1, <1>3, SendingPorts
<1>5. \A k : Underway(m, k)' = Underway(m, k)
  BY <1>0, <1>4, UnderwayCounts
<1>6. Untaken(m)
  BY <1>0, <1>1, <1>4, <1>5 DEF Untaken, Handshake
<1>7. state'[m] = state[m]
  BY <1>0, <1>3
<1>8. /\ Handshake(l)' /\ Handshake(m)'
      /\ \A k \in {"PING", "PONG"} :
            Underway(l, k)' = Underway(l, k)
               + IF state[l] = "CONNECTED" /\ k = "PING" THEN 1 ELSE 0
  BY <1>3, <1>4, <1>6, <1>7, SendKeepsHandshake
<1>9. HeldUntilConnected(m)' /\ \A k : Held(m, k)' = Held(m, k)
  BY <1>0, <1>1, <1>3 DEF HeldUntilConnected, Held
<1>10. /\ asked' = [asked EXCEPT ![l] = asked[l] + 1] /\ answered' = answered
       /\ asked \in [Link -> Nat] /\ answered \in [Link -> Nat]
  BY <1>1 DEF Ping, Typed
<1>11. \A k \in {"PING", "PONG"} : Held(l, k) \in Nat /\ Held(m, k) \in Nat
  BY <1>0, HeldIsNat
<1>12. Accounted(l)' /\ Accounted(m)'
  <2>1. /\ asked[l] = Held(l, "PING") + Underway(l, "PING")
               + Held(m, "PONG") + Underway(m, "PONG") + answered[l]
        /\ asked[m] = Held(m, "PING") + Underway(m, "PING")
               + Held(l, "PONG") + Underway(l, "PONG") + answered[m]
    BY <1>0, <1>1 DEF Accounted
  <2>2. /\ asked'[l] = asked[l] + 1 /\ asked'[m] = asked[m]
        /\ answered'[l] = answered[l] /\ answered'[m] = answered[m]
        /\ answered[l] \in Nat /\ answered[m] \in Nat
    BY <1>0, <1>10
  <2>3. Held(l, "PING")' + Underway(l, "PING")' = Held(l, "PING") + Underway(l, "PING") + 1
    <3>1. /\ Held(l, "PING")' = Held(l, "PING") + IF state[l] # "CONNECTED" THEN 1 ELSE 0
          /\ Underway(l, "PING")' = Underway(l, "PING") + IF state[l] = "CONNECTED" THEN 1 ELSE 0
          /\ Held(l, "PING") \in Nat /\ Underway(l, "PING") \in Nat
      BY <1>1, <1>3, <1>8, <1>11
    <3> QED
      BY <3>1
  <2>4. Held(l, "PONG")' = Held(l, "PONG") /\ Underway(l, "PONG")' = Underway(l, "PONG")
    BY <1>1, <1>3, <1>8, <1>11
  <2>5. Held(l, "PING")' \in Nat /\ Underway(l, "PING")' \in Nat
    BY <1>1, <1>3, <1>8, <1>11
  <2>6. asked'[l] = Held(l, "PING")' + Underway(l, "PING")'
               + Held(m, "PONG")' + Underway(m, "PONG")' + answered'[l]
    BY <1>1, <1>5, <1>9, <1>11, <2>1, <2>2, <2>3, <2>5
  <2>7. asked'[m] = Held(m, "PING")' + Underway(m, "PING")'
               + Held(l, "PONG")' + Underway(l, "PONG")' + answered'[m]
    BY <1>5, <1>9, <2>1, <2>2, <2>4
  <2> QED
    BY <1>0, <2>6, <2>7 DEF Accounted
<1>13. Typed'
  <2>1. asked' \in [Link -> Nat]
    BY <1>10
  <2> QED
    BY <1>3, <1>4, <1>10, <2>1 DEF Typed
<1>14. PairInv(l)'
  BY <1>3, <1>4, <1>6, <1>8, <1>9, <1>12 DEF PairInv, Sent, Untaken
<1>15. \A x \in Link : x # l /\ x # m =>
          /\ port'[x] = port[x] /\ state'[x] = state[x]
          /\ notifyMap'[x] = notifyMap[x] /\ queue'[x] = queue[x]
          /\ asked'[x] = asked[x] /\ answered'[x] = answered[x]
  BY <1>3, <1>4, <1>10
<1> QED
  BY <1>13, <1>14, <1>15, PairSuffices

(* What arrives over m is not a version: the one underway, if any, comes   *)
(* first.                                                                  *)
LEMMA TakenLeavesVersion ==
  ASSUME Inv, NEW m \in Link, NEW kind \in Kind \ {"VERSION"}, Taken(m, kind)
  PROVE  /\ Underway(m, "VERSION") = 0 /\ Underway(m, "VERSION")' = 0
         /\ Underway(m, kind) = Underway(m, kind)' + 1
         /\ \A k \in Kind \ {kind} : Underway(m, k)' = Underway(m, k)
         /\ \A k \in Kind : Underway(m, k)' \in Nat
         /\ state[m] # "UNCONNECTED"
<1>1. /\ Handshake(m) /\ \A k : Underway(m, k) \in Nat
  BY InvOfPair DEF PairInv
<1>2. \A k : Underway(m, k)' \in Nat
  BY UnderwayIsNat DEF Taken
<1>3. Underway(m, "VERSION") = 0
  BY <1>1 DEF Taken, Handshake
<1>4. \A k \in Kind : Underway(m, k) = Underway(m, k)' + IF kind = k THEN 1 ELSE 0
  BY DEF Taken
<1>5. \A k \in Kind \ {kind} : Underway(m, k)' = Underway(m, k)
  BY <1>1, <1>2, <1>4
<1>6. state[m] # "UNCONNECTED"
  BY <1>1 DEF Taken, Handshake
<1>7. Underway(m, kind) = Underway(m, kind)' + 1
  BY <1>4
<1>8. "VERSION" \in Kind \ {kind}
  BY DEF Kind
<1> QED
  BY <1>2, <1>3, <1>5, <1>6, <1>7, <1>8

(* A ping that arrives is replaced by a pong, sent or held. *)
LEMMA PingArrives ==
  ASSUME Inv, NEW m \in Link, Arrives(m), Head(port[m].wire) = "PING",
         SendPacket([port EXCEPT ![m] = Arrived(@)], Back(m), "PONG"),
         UNCHANGED <<asked, answered>>
  PROVE  Inv'
<1> DEFINE l == Back(m)
           P == [port EXCEPT ![m] = Arrived(@)]
<1>0. l \in Link /\ m # l /\ Back(l) = m
  BY BackLinks
<1>1. /\ PortsSound /\ Typed /\ PairInv(m)
      /\ \A k : Underway(l, k) \in Nat /\ Underway(m, k) \in Nat
      /\ HeldUntilConnected(l) /\ HeldUntilConnected(m)
      /\ Accounted(l) /\ Accounted(m)
      /\ Handshake(m)
  BY InvOfPair DEF PairInv
<1>2. SendPacket(P, l, "PONG")
  OBVIOUS
<1> HIDE DEF P
<1>3. /\ Output(P, l, Goes(l, "PONG")) /\ Goes(l, "PONG") \in Seq(Kind)
      /\ \A x \in Link : x # l => /\ state'[x] = state[x]
                                  /\ notifyMap'[x] = notifyMap[x]
                                  /\ queue'[x] = queue[x]
      /\ state'[l] = IF state[l] = "CONNECTED" THEN state[l] ELSE "HALF_CONNECTED"
      /\ state' \in [Link -> {"UNCONNECTED", "HALF_CONNECTED", "CONNECTED"}]
      /\ notifyMap' \in [Link -> Seq({"PING", "PONG"})]
      /\ queue' \in [Link -> SUBSET Nat]
      /\ HeldUntilConnected(l)'
      /\ \A k \in {"PING", "PONG"} :
            Held(l, k)' = Held(l, k)
               + IF state[l] # "CONNECTED" /\ k = "PONG" THEN 1 ELSE 0
  BY <1>0, <1>1, <1>2, SendPacketStep
<1>4. /\ port' \in [Link -> Port(Kind)]
      /\ \A x \in Link : x # m /\ x # l => port'[x] = port[x]
      /\ Taken(m, "PING") /\ Sent(l, Goes(l, "PONG"))
  BY <1>1, <1>3, DeliveringPorts DEF P
<1>5. /\ Underway(m, "VERSION") = 0 /\ Underway(m, "VERSION")' = 0
      /\ Underway(m, "VERACK")' = Underway(m, "VERACK")
      /\ Underway(m, "PONG")' = Underway(m, "PONG")
      /\ Underway(m, "PING") = Underway(m, "PING")' + 1
      /\ Underway(m, "PING")' \in Nat
      /\ state[m] # "UNCONNECTED"
  BY <1>4, TakenLeavesVersion DEF Kind
<1>6. Untaken(m)
  BY <1>1, <1>4, <1>5 DEF Untaken, Taken
<1>7. state'[m] = state[m]
  BY <1>0, <1>3
<1>8. /\ Handshake(l)' /\ Handshake(m)'
      /\ \A k \in {"PING", "PONG"} :
            Underway(l, k)' = Underway(l, k)
               + IF state[l] = "CONNECTED" /\ k = "PONG" THEN 1 ELSE 0
  <2> HIDE DEF l
  <2>1. Untaken(Back(l)) /\ state'[Back(l)] = state[Back(l)]
    BY <1>0, <1>6, <1>7
  <2> QED
    BY <1>0, <1>3, <1>4, <2>1, SendKeepsHandshake
<1>9. HeldUntilConnected(m)' /\ \A k : Held(m, k)' = Held(m, k)
  BY <1>0, <1>1, <1>3 DEF HeldUntilConnected, Held
<1>10. /\ asked \in [Link -> Nat] /\ answered \in [Link -> Nat]
       /\ asked' = asked /\ answered' = answered
  BY <1>1 DEF Typed
<1>11. \A k \in {"PING", "PONG"} : Held(l, k) \in Nat /\ Held(m, k) \in Nat
  BY <1>0, HeldIsNat
<1> HIDE DEF l
<1>12. Accounted(l)' /\ Accounted(m)'
  <2>1. /\ asked[l] = Held(l, "PING") + Underway(l, "PING")
               + Held(m, "PONG") + Underway(m, "PONG") + answered[l]
        /\ asked[m] = Held(m, "PING") + Underway(m, "PING")
               + Held(l, "PONG") + Underway(l, "PONG") + answered[m]
    BY <1>0, <1>1 DEF Accounted, l
  <2>2. answered[l] \in Nat /\ answered[m] \in Nat
    BY <1>0, <1>10
  <2>3. /\ Held(l, "PONG")' = Held(l, "PONG") + IF state[l] # "CONNECTED" THEN 1 ELSE 0
        /\ Underway(l, "PONG")' = Underway(l, "PONG") + IF state[l] = "CONNECTED" THEN 1 ELSE 0
        /\ Held(l, "PONG") \in Nat /\ Underway(l, "PONG") \in Nat
        /\ Held(m, "PING") \in Nat
    BY <1>1, <1>3, <1>8, <1>11
  <2>4. Held(l, "PING")' = Held(l, "PING") /\ Underway(l, "PING")' = Underway(l, "PING")
    BY <1>1, <1>3, <1>8, <1>11
  <2>5. asked'[l] = Held(l, "PING")' + Underway(l, "PING")'
               + Held(m, "PONG")' + Underway(m, "PONG")' + answered'[l]
    BY <1>5, <1>9, <1>10, <2>1, <2>4
  <2>6. asked'[m] = Held(m, "PING")' + Underway(m, "PING")'
               + Held(l, "PONG")' + Underway(l, "PONG")' + answered'[m]
    <3>1. Held(m, "PING")' = Held(m, "PING")
      BY <1>9
    <3> QED
      BY <1>5, <1>10, <2>1, <2>2, <2>3, <3>1
  <2> QED
    BY <1>0, <2>5, <2>6 DEF Accounted, l
<1>13. Typed'
  BY <1>3, <1>4, <1>10 DEF Typed
<1>14. PairInv(m)'
  BY <1>3, <1>4, <1>6, <1>8, <1>9, <1>12 DEF PairInv, Sent, Untaken, l
<1>15. \A x \in Link : x # m /\ x # Back(m) =>
          /\ port'[x] = port[x] /\ state'[x] = state[x]
          /\ notifyMap'[x] = notifyMap[x] /\ queue'[x] = queue[x]
          /\ asked'[x] = asked[x] /\ answered'[x] = answered[x]
  BY <1>3, <1>4, <1>10 DEF l
<1> QED
  BY <1>13, <1>14, <1>15, PairSuffices

(* A pong that arrives answers a ping that had no answer yet. *)
LEMMA PongArrives ==
  ASSUME Inv, NEW m \in Link, Arrives(m), Head(port[m].wire) = "PONG",
         port' = [port EXCEPT ![m] = Arrived(@)],
         answered' = [answered EXCEPT ![Back(m)] = @ + 1],
         UNCHANGED <<state, notifyMap, queue, asked>>
  PROVE  Inv' /\ answered[Back(m)] < asked[Back(m)]
<1> DEFINE l == Back(m)
           P == [port EXCEPT ![m] = Arrived(@)]
<1>0. l \in Link /\ m # l /\ Back(l) = m
  BY BackLinks
<1>1. /\ PortsSound /\ Typed
      /\ \A k : Underway(l, k) \in Nat /\ Underway(m, k) \in Nat
      /\ HeldUntilConnected(l) /\ HeldUntilConnected(m)
      /\ Accounted(l) /\ Accounted(m)
      /\ Handshake(m) /\ Handshake(l) /\ Sound(port[l])
  BY InvOfPair DEF PairInv
<1>2. port'[l] = port[l]
  BY <1>0, <1>1 DEF PortsSound
<1>3. Output(P, l, <<>>)
  <2>1. P = [P EXCEPT ![l] = P[l]]
    BY <1>1 DEF PortsSound
  <2> QED
    BY <2>1 DEF Output, Submit
<1>4. /\ port' \in [Link -> Port(Kind)]
      /\ \A x \in Link : x # m /\ x # l => port'[x] = port[x]
      /\ Taken(m, "PONG")
  BY <1>1, <1>3, CountShort, DeliveringPorts
<1>5. /\ Underway(m, "VERSION") = 0 /\ Underway(m, "VERSION")' = 0
      /\ Underway(m, "VERACK")' = Underway(m, "VERACK")
      /\ Underway(m, "PING")' = Underway(m, "PING")
      /\ Underway(m, "PONG") = Underway(m, "PONG")' + 1
      /\ Underway(m, "PONG")' \in Nat
      /\ state[m] # "UNCONNECTED"
  BY <1>4, TakenLeavesVersion DEF Kind
<1>6. \A k : Underway(l, k)' = Underway(l, k)
  BY <1>0, <1>2, UnderwayCounts
<1>7. /\ answered' = [answered EXCEPT ![l] = answered[l] + 1]
      /\ answered \in [Link -> Nat] /\ asked \in [Link -> Nat]
  BY <1>1 DEF Typed
<1>8. \A k \in {"PING", "PONG"} : Held(l, k) \in Nat /\ Held(m, k) \in Nat
  BY <1>0, HeldIsNat
<1> HIDE DEF l
<1>9. Back(m) = l
  BY DEF l
<1>10. Handshake(l)'
  BY <1>0, <1>1, <1>2, <1>5, <1>6 DEF Handshake
<1>11. Handshake(m)'
  <2>1. state[m] = "CONNECTED"
    BY <1>0, <1>1, <1>5 DEF Handshake
  <2> QED
    BY <1>1, <1>5, <1>6, <1>9, <2>1 DEF Handshake
<1>12. HeldUntilConnected(l)' /\ HeldUntilConnected(m)'
  BY <1>1 DEF HeldUntilConnected
<1>13. \A k : Held(l, k)' = Held(l, k) /\ Held(m, k)' = Held(m, k)
  BY DEF Held
<1>14. /\ asked[l] = Held(l, "PING") + Underway(l, "PING")
               + Held(m, "PONG") + Underway(m, "PONG") + answered[l]
       /\ asked[m] = Held(m, "PING") + Underway(m, "PING")
               + Held(l, "PONG") + Underway(l, "PONG") + answered[m]
  BY <1>0, <1>1, <1>9 DEF Accounted
<1>15. answered'[l] = answered[l] + 1 /\ answered'[m] = answered[m] /\ answered[l] \in Nat
  BY <1>0, <1>7
<1>16. answered[l] < asked[l] /\ Accounted(l)'
  <2>1. /\ Held(l, "PING")' = Held(l, "PING") /\ Held(l, "PING") \in Nat
        /\ Held(m, "PONG")' = Held(m, "PONG") /\ Held(m, "PONG") \in Nat
        /\ Underway(l, "PING")' = Underway(l, "PING") /\ Underway(l, "PING") \in Nat
    BY <1>1, <1>6, <1>8, <1>13
  <2>2. /\ answered[l] < asked[l]
        /\ asked[l] = Held(l, "PING")' + Underway(l, "PING")'
               + Held(m, "PONG")' + Underway(m, "PONG")' + answered'[l]
    BY <1>5, <1>14, <1>15, <2>1
  <2> QED
    BY <1>0, <2>2 DEF Accounted
<1>17. Accounted(m)'
  BY <1>5, <1>6, <1>9, <1>13, <1>14, <1>15 DEF Accounted
<1>18. Typed'
  <2>1. answered' \in [Link -> Nat]
    BY <1>0, <1>7
  <2> QED
    BY <1>1, <1>4, <2>1 DEF Typed
<1>19. PairInv(m)'
  BY <1>1, <1>2, <1>4, <1>9, <1>10, <1>11, <1>12, <1>16, <1>17 DEF PairInv, Taken
<1>20. \A x \in Link : x # m /\ x # Back(m) =>
          /\ port'[x] = port[x] /\ state'[x] = state[x]
          /\ notifyMap'[x] = notifyMap[x] /\ queue'[x] = queue[x]
          /\ asked'[x] = asked[x] /\ answered'[x] = answered[x]
  BY <1>4, <1>7, <1>9
<1> QED
  BY <1>9, <1>16, <1>18, <1>19, <1>20, PairSuffices

(* The verack of the peer arrives over Back(l): its callbacks are run. *)
LEMMA VerackStep ==
  ASSUME Inv, NEW m \in Link, Arrives(m), Head(port[m].wire) = "VERACK",
         HandleVerack([port EXCEPT ![m] = Arrived(@)], Back(m)),
         UNCHANGED <<asked, answered>>
  PROVE  Inv'
<1> DEFINE l == Back(m)
           P == [port EXCEPT ![m] = Arrived(@)]
<1>0. l \in Link /\ m # l /\ Back(l) = m
  BY BackLinks
<1>1. /\ PortsSound /\ Typed
      /\ \A k : Underway(l, k) \in Nat /\ Underway(m, k) \in Nat
      /\ HeldUntilConnected(l) /\ HeldUntilConnected(m)
      /\ Accounted(l) /\ Accounted(m)
      /\ Handshake(m) /\ Handshake(l) /\ Sound(port[l])
  BY InvOfPair DEF PairInv
<1>2. /\ Output(P, l, Packets(l))
      /\ state' = [state EXCEPT ![l] = "CONNECTED"]
      /\ queue' = [queue EXCEPT ![l] = queue[l] \ Released(l)]
      /\ UNCHANGED <<notifyMap, asked, answered>>
  BY DEF HandleVerack
<1> HIDE DEF P
<1>3. Typed /\ notifyMap[l] \in Seq({"PING", "PONG"})
  BY <1>0, <1>1 DEF Typed
<1>4. Waiting(port[m]) # <<>> /\ Underway(m, "VERACK") >= 1
  <2>2. /\ port[m].wire # <<>> /\ port[m].wire[1] = "VERACK"
        /\ Count(Waiting(port[m]), "VERACK") =
              Count(Waiting(Arrived(port[m])), "VERACK") + 1
        /\ Sound(Arrived(port[m]))
    BY <1>1, ArrivalTakesHead DEF Arrives, PortsSound
  <2>3. /\ port[m].wire \in Seq(Kind) /\ port[m].queue \in Seq(Kind)
        /\ Arrived(port[m]).wire \in Seq(Kind) /\ Arrived(port[m]).queue \in Seq(Kind)
    BY <1>1, <2>2 DEF PortsSound, Sound, Port
  <2>4. Waiting(Arrived(port[m])) \in Seq(Kind) /\ Waiting(port[m]) # <<>>
    BY <2>2, <2>3 DEF Waiting
  <2>5. Count(Waiting(Arrived(port[m])), "VERACK") \in Nat
    BY <2>4, PlacesAreFinite
  <2> QED
    BY <2>2, <2>4, <2>5, UnderwayCounts
<1>5. state[l] = "HALF_CONNECTED" /\ Underway(l, "VERSION") = 0
  BY <1>0, <1>1, <1>4 DEF Handshake
<1>6. Released(l) = queue[l] /\ Packets(l) = notifyMap[l]
  BY <1>0, <1>1, <1>5, PacketsAreCallbacks
<1>7. /\ Packets(l) \in Seq(Kind)
      /\ Count(Packets(l), "VERSION") = 0 /\ Count(Packets(l), "VERACK") = 0
      /\ Count(Packets(l), "PING") = Held(l, "PING")
      /\ Count(Packets(l), "PONG") = Held(l, "PONG")
      /\ Held(l, "PING") \in Nat /\ Held(l, "PONG") \in Nat
  <2>1. \A k : Held(l, k) = Count(notifyMap[l], k)
    BY <1>0, <1>1, <1>5, HeldCounts
  <2> QED
    BY <1>3, <1>6, <2>1, CallbacksCounted
<1>8. /\ port' \in [Link -> Port(Kind)]
      /\ \A x \in Link : x # m /\ x # l => port'[x] = port[x]
      /\ Taken(m, "VERACK") /\ Sent(l, Packets(l))
  BY <1>1, <1>2, <1>7, DeliveringPorts DEF P
<1>9. /\ Underway(m, "VERSION") = 0 /\ Underway(m, "VERSION")' = 0
      /\ Underway(m, "VERACK") = Underway(m, "VERACK")' + 1
      /\ Underway(m, "VERACK")' \in Nat
      /\ Underway(m, "PING")' = Underway(m, "PING")
      /\ Underway(m, "PONG")' = Underway(m, "PONG")
      /\ state[m] # "UNCONNECTED"
  BY <1>8, TakenLeavesVersion DEF Kind
<1>10. /\ Underway(l, "VERSION")' = 0
       /\ Underway(l, "VERACK")' = Underway(l, "VERACK")
       /\ Underway(l, "PING")' = Underway(l, "PING") + Held(l, "PING")
       /\ Underway(l, "PONG")' = Underway(l, "PONG") + Held(l, "PONG")
  BY <1>1, <1>5, <1>7, <1>8 DEF Sent, Kind
<1>11. /\ state'[l] = "CONNECTED" /\ queue'[l] = {}
       /\ \A x \in Link : x # l => state'[x] = state[x] /\ queue'[x] = queue[x]
       /\ state' \in [Link -> {"UNCONNECTED", "HALF_CONNECTED", "CONNECTED"}]
       /\ queue' \in [Link -> SUBSET Nat]
  <2>1. /\ state \in [Link -> {"UNCONNECTED", "HALF_CONNECTED", "CONNECTED"}]
        /\ queue \in [Link -> SUBSET Nat]
    BY <1>3 DEF Typed
  <2> QED
    BY <1>0, <1>2, <1>6, <2>1
<1> HIDE DEF l
<1>12. Back(m) = l
  BY DEF l
<1>13. state'[m] = state[m] /\ queue'[m] = queue[m]
  BY <1>0, <1>11
<1>14. Handshake(l)'
  BY <1>0, <1>1, <1>5, <1>9, <1>10, <1>11, <1>13 DEF Handshake
<1>15. Handshake(m)'
  <2>1. /\ Underway(l, "VERACK") =
              IF state[m] = "HALF_CONNECTED" /\ Underway(m, "VERSION") = 0 THEN 1 ELSE 0
        /\ state[m] # "CONNECTED" => Underway(m, "PING") = 0 /\ Underway(m, "PONG") = 0
    BY <1>1, <1>12 DEF Handshake
  <2> QED
    BY <1>9, <1>10, <1>11, <1>12, <1>13, <2>1 DEF Handshake
<1>16. HeldUntilConnected(l)' /\ HeldUntilConnected(m)'
  BY <1>1, <1>2, <1>11, <1>13 DEF HeldUntilConnected
<1>17. /\ \A k : Held(m, k)' = Held(m, k)
       /\ \A k : Held(l, k)' = 0
  <2>1. \A k : {i \in queue'[l] : notifyMap'[l][i] = k} = {}
    BY <1>11
  <2> QED
    BY <1>2, <1>13, <2>1, FS_EmptySet DEF Held
<1>18. Accounted(l)' /\ Accounted(m)'
  <2>1. /\ asked[l] = Held(l, "PING") + Underway(l, "PING")
               + Held(m, "PONG") + Underway(m, "PONG") + answered[l]
        /\ asked[m] = Held(m, "PING") + Underway(m, "PING")
               + Held(l, "PONG") + Underway(l, "PONG") + answered[m]
    BY <1>0, <1>1, <1>12 DEF Accounted
  <2>2. asked'[l] = Held(l, "PING")' + Underway(l, "PING")'
               + Held(m, "PONG")' + Underway(m, "PONG")' + answered'[l]
    <3>1. Held(l, "PING")' + Underway(l, "PING")' = Held(l, "PING") + Underway(l, "PING")
      BY <1>1, <1>7, <1>10, <1>17
    <3> QED
      BY <1>2, <1>9, <1>17, <2>1, <3>1
  <2>3. asked'[m] = Held(m, "PING")' + Underway(m, "PING")'
               + Held(l, "PONG")' + Underway(l, "PONG")' + answered'[m]
    <3>1. /\ Held(l, "PONG")' = 0 /\ Held(m, "PING")' = Held(m, "PING")
          /\ Underway(l, "PONG")' = Underway(l, "PONG") + Held(l, "PONG")
          /\ Held(l, "PONG") \in Nat /\ Underway(l, "PONG") \in Nat
          /\ Underway(m, "PING") \in Nat
          /\ Held(m, "PING") \in Nat
      BY <1>0, <1>1, <1>7, <1>10, <1>17, HeldIsNat
    <3>2. answered'[m] = answered[m] /\ answered[m] \in Nat
      BY <1>2, <1>3 DEF Typed
    <3> QED
      BY <1>2, <1>9, <2>1, <3>1, <3>2
  <2> QED
    BY <1>0, <1>12, <2>2, <2>3 DEF Accounted
<1>19. Typed'
  BY <1>2, <1>3, <1>8, <1>11 DEF Typed
<1>20. PairInv(m)'
  BY <1>8, <1>12, <1>14, <1>15, <1>16, <1>18 DEF PairInv, Sent, Taken
<1>21. \A x \in Link : x # m /\ x # Back(m) =>
          /\ port'[x] = port[x] /\ state'[x] = state[x]
          /\ notifyMap'[x] = notifyMap[x] /\ queue'[x] = queue[x]
          /\ asked'[x] = asked[x] /\ answered'[x] = answered[x]
  BY <1>2, <1>8, <1>11, <1>12
<1> QED
  BY <1>19, <1>20, <1>21, PairSuffices

(* Time passes at a port: nothing enters or leaves it. *)
LEMMA ElapseStep ==
  ASSUME Inv, NEW l \in Link, Elapse(l)
  PROVE  Inv'
<1>1. /\ UNCHANGED <<state, notifyMap, queue, asked, answered>>
      /\ HandleTimer(l) \/ FinishTransmission(l)
  BY DEF Elapse, appVars
<1>2. port \in [Link -> Port(Kind)] /\ \A x \in Link : Sound(port[x])
  BY DEF Inv, Typed
<1>3. port' \in [Link -> Port(Kind)] /\ \A x \in Link : Kept(port[x], port'[x])
  BY <1>1, <1>2, ElapseKeeps
<1>4. Typed'
  BY <1>1, <1>3 DEF Inv, Typed
<1>5. \A x \in Link : \A k : Underway(x, k)' = Underway(x, k)
  BY <1>3, UnderwayCounts DEF Kept
<1>6. \A x \in Link : \A k : Held(x, k)' = Held(x, k)
  BY <1>1 DEF Held
<1>7. ASSUME NEW x \in Link
      PROVE  (Sound(port[x]) /\ Handshake(x) /\ HeldUntilConnected(x) /\ Accounted(x))'
  <2>1. Sound(port[x]) /\ Handshake(x) /\ HeldUntilConnected(x) /\ Accounted(x)
    BY DEF Inv
  <2>2. Sound(port'[x])
    BY <1>3 DEF Kept
  <2>3. Back(x) \in Link
    BY BackLinks
  <2>4. Handshake(x)'
    BY <1>1, <1>3, <1>5, <2>1, <2>3 DEF Handshake, Kept
  <2>5. HeldUntilConnected(x)'
    BY <1>1, <2>1 DEF HeldUntilConnected
  <2>6. Accounted(x)'
    BY <1>1, <1>5, <1>6, <2>1, <2>3 DEF Accounted
  <2> QED
    BY <2>2, <2>4, <2>5, <2>6
<1> QED
  BY <1>4, <1>7 DEF Inv

(* Every packet that arrives; only a pong is a step of PingService. *)
LEMMA DeliverStep ==
  ASSUME Inv, NEW l \in Link, Deliver(l)
  PROVE  /\ Inv'
         /\ \/ UNCHANGED <<asked, answered>>
            \/ PS!Answer(Back(l))
<1> DEFINE P == [port EXCEPT ![l] = Arrived(@)]
<1>1. Arrives(l) /\ asked' = asked
  BY DEF Deliver
<1>2. CASE /\ Head(port[l].wire) = "VERSION"
           /\ HandleVersion(P, Back(l))
           /\ UNCHANGED answered
  BY <1>1, <1>2, VersionStep
<1>3. CASE /\ Head(port[l].wire) = "VERACK"
           /\ HandleVerack(P, Back(l))
           /\ UNCHANGED answered
  BY <1>1, <1>3, VerackStep
<1>4. CASE /\ Head(port[l].wire) = "PING"
           /\ SendPacket(P, Back(l), "PONG")
           /\ UNCHANGED answered
  BY <1>1, <1>4, PingArrives
<1>5. CASE /\ Head(port[l].wire) = "PONG"
           /\ port' = P
           /\ answered' = [answered EXCEPT ![Back(l)] = @ + 1]
           /\ UNCHANGED appVars
  BY <1>1, <1>5, PongArrives DEF appVars, PS!Answer
<1>6. Handle(P, Back(l), Head(port[l].wire))
  BY DEF Deliver
<1> QED
  BY <1>2, <1>3, <1>4, <1>5, <1>6 DEF Handle

LEMMA StutterStep ==
  ASSUME Inv, UNCHANGED vars
  PROVE  Inv'
<1>1. UNCHANGED <<port, state, notifyMap, queue, asked, answered>>
  BY DEF vars, appVars
<1>2. /\ \A l, k : Underway(l, k)' = Underway(l, k)
      /\ \A l, k : Held(l, k)' = Held(l, k)
  BY <1>1 DEF Underway, Pending, Held
<1>3. Typed'
  BY <1>1 DEF Inv, Typed
<1>4. ASSUME NEW l \in Link
      PROVE  (Sound(port[l]) /\ Handshake(l) /\ HeldUntilConnected(l) /\ Accounted(l))'
  <2>1. Sound(port[l]) /\ Handshake(l) /\ HeldUntilConnected(l) /\ Accounted(l)
    BY DEF Inv
  <2>2. Handshake(l)' /\ HeldUntilConnected(l)' /\ Accounted(l)'
    BY <1>1, <1>2, <2>1 DEF Handshake, HeldUntilConnected, Accounted
  <2> QED
    BY <1>1, <2>1, <2>2
<1> QED
  BY <1>3, <1>4 DEF Inv

(* Every step keeps the invariant, and is a step of PingService or leaves  *)
(* its variables alone.                                                    *)
LEMMA NextStep ==
  Inv /\ [Next]_vars => Inv' /\ [PS!Next]_<<asked, answered>>
<1> SUFFICES ASSUME Inv, [Next]_vars
             PROVE  Inv' /\ [PS!Next]_<<asked, answered>>
  OBVIOUS
<1>1. ASSUME NEW l \in Link, Ping(l)
      PROVE  Inv' /\ PS!Ask(l)
  BY <1>1, PingStep DEF Ping, PS!Ask
<1>2. ASSUME NEW l \in Link, Deliver(l)
      PROVE  Inv' /\ (UNCHANGED <<asked, answered>> \/ PS!Answer(Back(l)))
  BY <1>2, DeliverStep
<1>3. ASSUME NEW l \in Link, Elapse(l)
      PROVE  Inv' /\ UNCHANGED <<asked, answered>>
  BY <1>3, ElapseStep DEF Elapse
<1>4. CASE TimeLimit \/ UNCHANGED vars
  <2>1. UNCHANGED vars
    BY <1>4 DEF TimeLimit
  <2> QED
    BY <2>1, StutterStep DEF vars
<1> QED
  BY <1>1, <1>2, <1>3, <1>4, BackLinks DEF Next, PS!Next

LEMMA Invariance == Spec => []Inv /\ [][PS!Next]_<<asked, answered>>
<1>1. Init => Inv
  BY InitInv
<1>2. Inv /\ [Next]_vars => Inv' /\ [PS!Next]_<<asked, answered>>
  BY NextStep
<1> QED
  BY <1>1, <1>2, PTL DEF Spec

-----------------------------------------------------------------------------
(* Every variable holds a value of its type, and AppBase::queue holds only *)
(* packets that a callback of ConnectionManager::notifyMap will send.      *)
THEOREM TypeCorrect == Spec => []ConnectionTypeOK
<1>1. Inv => ConnectionTypeOK
  <2> SUFFICES ASSUME Inv PROVE ConnectionTypeOK
    OBVIOUS
  <2>1. \A l \in Link : queue[l] \subseteq DOMAIN notifyMap[l]
    BY DEF Inv, HeldUntilConnected
  <2> QED
    BY <2>1 DEF Inv, Typed, ConnectionTypeOK
<1> QED
  BY <1>1, Invariance, PTL

(* handleVersionPacket() and connect() together introduce a node once: at  *)
(* most one version and one verack are underway per link, none to a node   *)
(* that has had it, whichever end starts.                                  *)
THEOREM ShakesHandsOnce == Spec => []HandshakeOnce
<1>1. Inv => HandshakeOnce
  <2> SUFFICES ASSUME Inv, NEW l \in Link
               PROVE  /\ Underway(l, "VERSION") + Underway(l, "VERACK") > 0 =>
                            /\ state[l] # "UNCONNECTED"
                            /\ state[Back(l)] # "CONNECTED"
                      /\ Underway(l, "VERSION") <= 1
                      /\ Underway(l, "VERACK") <= 1
    BY DEF HandshakeOnce
  <2> DEFINE m == Back(l)
  <2>1. m \in Link /\ Back(m) = l
    BY BackLinks
  <2>2. /\ \A k : Underway(l, k) \in Nat
        /\ Handshake(l) /\ Handshake(m)
    BY InvOfPair DEF PairInv
  <2>3. /\ Underway(l, "VERSION") <= 1
        /\ state[m] = "CONNECTED" => Underway(l, "VERSION") = 0
        /\ state[l] = "UNCONNECTED" => Waiting(port[l]) = <<>>
    BY <2>2 DEF Handshake
  <2> HIDE DEF m
  <2>4. Underway(l, "VERACK") =
           IF state[m] = "HALF_CONNECTED" /\ Underway(m, "VERSION") = 0 THEN 1 ELSE 0
    BY <2>1, <2>2 DEF Handshake
  <2>5. state[l] = "UNCONNECTED" =>
           Underway(l, "VERSION") = 0 /\ Underway(l, "VERACK") = 0
    BY <2>3, UnderwayIsNat
  <2> QED
    BY <2>2, <2>3, <2>4, <2>5 DEF m
<1> QED
  BY <1>1, Invariance, PTL

(* A ping or pong goes only to a peer that has handled the version of the  *)
(* sender, although PortQueue lets packets overtake each other.            *)
THEOREM PeersKnowEachOther == Spec => []Acquainted
<1>1. Inv => Acquainted
  <2> SUFFICES ASSUME Inv, NEW l \in Link,
                      \/ state[l] = "CONNECTED"
                      \/ Underway(l, "PING") + Underway(l, "PONG") > 0
               PROVE  /\ state[l] = "CONNECTED"
                      /\ state[Back(l)] # "UNCONNECTED"
                      /\ Underway(l, "VERSION") = 0
    BY DEF Acquainted
  <2>1. Handshake(l)
    BY DEF Inv
  <2>2. state[l] = "CONNECTED"
    BY <2>1 DEF Handshake
  <2> QED
    BY <2>1, <2>2 DEF Handshake
<1> QED
  BY <1>1, Invariance, PTL

(* notifyApps() leaves nothing in AppBase::queue for a connected peer.     *)
THEOREM CallbacksAreRun == Spec => []NothingHeldOnceConnected
<1>1. Inv => NothingHeldOnceConnected
  BY DEF Inv, HeldUntilConnected, NothingHeldOnceConnected
<1> QED
  BY <1>1, Invariance, PTL

(* A PortQueue that is not empty has its timer set, to an event that is    *)
(* still to come.                                                          *)
THEOREM TimersAreSet == Spec => []PortNeverStalls
<1>1. Inv => PortNeverStalls
  BY DEF Inv, Sound, PortNeverStalls
<1> QED
  BY <1>1, Invariance, PTL

(* Every ping a Pinger made is held, underway, or turned into one pong.    *)
THEOREM NoPingIsLost == Spec => []PingsAreAccountedFor
<1>1. Inv => PingsAreAccountedFor
  BY DEF Inv, Accounted, PingsAreAccountedFor
<1> QED
  BY <1>1, Invariance, PTL

(* The network takes only steps of PingService: no pong is received for a  *)
(* ping that was not made or has its answer already.  (That every ping is  *)
(* answered in the end is the other half of ImplementsPingService.)        *)
THEOREM AnswersOnlyWhatIsAsked ==
  Spec => PS!Init /\ [][PS!Next]_<<asked, answered>>
<1>1. Init => PS!Init
  BY DEF Init, PS!Init
<1> QED
  BY <1>1, Invariance, PTL DEF Spec
=============================================================================
