---------------------------- MODULE WatcherProofs ----------------------------
(***************************************************************************)
(* Proofs about the server side of Watch: nothing is lost, nothing strays, *)
(* and everything is in order, for any number of streams, keys, watches,   *)
(* requests and changes.                                                   *)
(*                                                                         *)
(* The invariant has, for each stream, its books (who is in which step of  *)
(* a request; which subscription belongs to which watch; what the client   *)
(* has asked for) and its events (all that a watch asks for are carried;   *)
(* they have happened; they are in order).  A step of a stream leaves the  *)
(* others alone; a change of the store reaches all.                        *)
(***************************************************************************)
EXTENDS Watcher, NaturalsInduction, SequenceTheorems, FiniteSetTheorems, TLAPS

\* A set of numbers that is not empty has a least one.  Inductions over a
\* sequence are done with it: the least place at which a claim fails.
LEMMA SmallestNat ==
  ASSUME NEW I, I # {}, I \subseteq Nat
  PROVE  \E x \in I : \A y \in I : x <= y
<1> DEFINE Less == {ss \in Nat \X Nat : ss[1] < ss[2]}
<1>1. IsWellFoundedOn(Less, Nat)
  BY NatLessThanWellFounded, Zenon DEF OpToRel
<1>2. \E x \in I : \A y \in I : ~(<<y, x>> \in Less)
  <2> HIDE DEF Less
  <2> QED
    BY <1>1, WFMin
<1>3. PICK x \in I : \A y \in I : ~(<<y, x>> \in Less)
  BY <1>2
<1>4. ASSUME NEW y \in I PROVE x <= y
  <2>1. x \in Nat /\ y \in Nat /\ ~(<<y, x>> \in Less)
    BY <1>3
  <2>2. ~(y < x)
    BY <2>1
  <2> QED
    BY <2>1, <2>2
<1> QED
  BY <1>4

\* What is in two sequences is in the one after the other.
LEMMA JoinSets ==
  ASSUME NEW T, NEW p \in Seq(T), NEW q \in Seq(T)
  PROVE  ToSet(p \o q) = ToSet(p) \cup ToSet(q)
<1>1. /\ p \o q \in Seq(T) /\ Len(p \o q) = Len(p) + Len(q)
      /\ \A i \in 1 .. Len(p) + Len(q) :
           (p \o q)[i] = IF i <= Len(p) THEN p[i] ELSE q[i - Len(p)]
  BY ConcatProperties
<1>2. /\ Len(p) \in Nat /\ Len(q) \in Nat
      /\ DOMAIN p = 1 .. Len(p) /\ DOMAIN q = 1 .. Len(q) /\ DOMAIN (p \o q) = 1 .. Len(p \o q)
  BY <1>1, LenProperties
<1>3. ASSUME NEW x \in ToSet(p \o q) PROVE x \in ToSet(p) \cup ToSet(q)
  <2>1. PICK i \in 1 .. Len(p) + Len(q) : x = (p \o q)[i]
    BY <1>1, <1>2, <1>3 DEF ToSet
  <2>2. CASE i <= Len(p)
    BY <1>1, <1>2, <2>1, <2>2 DEF ToSet
  <2>3. CASE ~(i <= Len(p))
    <3>1. i - Len(p) \in 1 .. Len(q)
      BY <1>2, <2>3
    <3> QED
      BY <1>1, <1>2, <2>1, <2>3, <3>1 DEF ToSet
  <2> QED
    BY <2>2, <2>3
<1>4. ASSUME NEW x \in ToSet(p) PROVE x \in ToSet(p \o q)
  <2>1. PICK i \in 1 .. Len(p) : x = p[i]
    BY <1>2, <1>4 DEF ToSet
  <2>2. i \in 1 .. Len(p) + Len(q) /\ (p \o q)[i] = x
    BY <1>1, <1>2, <2>1
  <2> QED
    BY <1>1, <1>2, <2>2 DEF ToSet
<1>5. ASSUME NEW x \in ToSet(q) PROVE x \in ToSet(p \o q)
  <2>1. PICK i \in 1 .. Len(q) : x = q[i]
    BY <1>2, <1>5 DEF ToSet
  <2>2. i + Len(p) \in 1 .. Len(p) + Len(q) /\ ~(i + Len(p) <= Len(p)) /\ i + Len(p) - Len(p) = i
    BY <1>2
  <2>3. (p \o q)[i + Len(p)] = x
    BY <1>1, <2>1, <2>2
  <2> QED
    BY <1>1, <1>2, <2>2, <2>3 DEF ToSet
<1> QED
  BY <1>3, <1>4, <1>5

\* f is what its first n batches come to, one after the other.
Joins(f, seqs, n) == f = [i \in 1 .. n |-> IF i = 1 THEN seqs[i] ELSE f[i - 1] \o seqs[i]]

\* FlattenSeq is built up from the left: f[n] joins the first n sequences.
LEMMA JoinExists ==
  ASSUME NEW seqs, NEW n \in Nat
  PROVE  \E f : Joins(f, seqs, n)
<1> DEFINE Bad == {m \in Nat : ~ \E f : Joins(f, seqs, m)}
<1>1. CASE Bad = {}
  BY <1>1
<1>2. CASE Bad # {}
  <2>1. PICK m \in Bad : \A k \in Bad : m <= k
    <3> HIDE DEF Bad
    <3>1. Bad \subseteq Nat
      BY DEF Bad
    <3> QED
      BY <1>2, <3>1, SmallestNat
  <2>2. m # 0
    <3>1. Joins([i \in 1 .. 0 |-> 0], seqs, 0)
      BY DEF Joins
    <3> QED
      BY <2>1, <3>1
  <2>3. PICK f : Joins(f, seqs, m - 1)
    <3>1. m - 1 \in Nat /\ m - 1 < m
      BY <2>2
    <3>2. m - 1 \notin Bad
      BY <2>1, <3>1
    <3> QED
      BY <3>1, <3>2
  <2> DEFINE g == [i \in 1 .. m |-> IF i = 1 THEN seqs[i]
                                     ELSE IF i = m THEN f[m - 1] \o seqs[m] ELSE f[i]]
  <2>4. ASSUME NEW i \in 1 .. m, i # 1
        PROVE  g[i] = g[i - 1] \o seqs[i]
    <3>1. i - 1 \in 1 .. (m - 1)
      BY <2>4
    <3>2. g[i - 1] = f[i - 1]
      BY <2>3, <3>1 DEF Joins
    <3>3. CASE i = m
      BY <2>4, <3>2, <3>3
    <3>4. CASE i # m
      <4>1. i \in 1 .. (m - 1)
        BY <3>4
      <4>2. f[i] = f[i - 1] \o seqs[i]
        BY <2>3, <2>4, <4>1 DEF Joins
      <4> QED
        BY <2>4, <3>2, <3>4, <4>2
    <3> QED
      BY <3>3, <3>4
  <2>5. g = [i \in 1 .. m |-> IF i = 1 THEN seqs[i] ELSE g[i - 1] \o seqs[i]]
    BY <2>4
  <2>6. Joins(g, seqs, m)
    <3> HIDE DEF g
    <3> QED
      BY <2>5 DEF Joins
  <2> QED
    BY <2>6
<1> QED
  BY <1>1, <1>2

\* What FlattenSeq returns is the last join.
LEMMA FlattenJoins ==
  ASSUME NEW seqs, Len(seqs) \in Nat, Len(seqs) # 0
  PROVE  \E f : Joins(f, seqs, Len(seqs)) /\ FlattenSeq(seqs) = f[Len(seqs)]
<1> DEFINE f == CHOOSE g : Joins(g, seqs, Len(seqs))
<1>1. Joins(f, seqs, Len(seqs))
  BY JoinExists
<1>2. FlattenSeq(seqs) = f[Len(seqs)]
  BY DEF FlattenSeq, Joins
<1> QED
  BY <1>1, <1>2

\* A join of sequences is a sequence; its elements are theirs.
LEMMA JoinElements ==
  ASSUME NEW T, NEW seqs \in Seq(Seq(T)), NEW f, Joins(f, seqs, Len(seqs)), NEW n \in 1 .. Len(seqs)
  PROVE  /\ f[n] \in Seq(T)
         /\ \A x : x \in ToSet(f[n]) <=> \E i \in 1 .. n : x \in ToSet(seqs[i])
<1> DEFINE Good(m) == /\ f[m] \in Seq(T)
                      /\ \A x : x \in ToSet(f[m]) <=> \E i \in 1 .. m : x \in ToSet(seqs[i])
           Bad == {m \in 1 .. Len(seqs) : ~Good(m)}
<1>0. Len(seqs) \in Nat /\ \A i \in 1 .. Len(seqs) : seqs[i] \in Seq(T)
  BY ElementOfSeq, LenProperties
<1>1. CASE Bad = {}
  BY <1>1
<1>2. CASE Bad # {}
  <2>1. PICK m \in Bad : \A k \in Bad : m <= k
    <3> HIDE DEF Bad
    <3>1. Bad \subseteq Nat
      BY <1>0 DEF Bad
    <3> QED
      BY <1>2, <3>1, SmallestNat
  <2>2. m \in 1 .. Len(seqs) /\ ~Good(m)
    BY <2>1
  <2>3. CASE m = 1
    <3>1. f[m] = seqs[1]
      BY <2>2, <2>3 DEF Joins
    <3> QED
      BY <1>0, <2>2, <2>3, <3>1
  <2>4. CASE m # 1
    <3>1. m - 1 \in 1 .. Len(seqs) /\ ~(m <= m - 1)
      BY <1>0, <2>2, <2>4
    <3>2. Good(m - 1)
      BY <2>1, <3>1
    <3>3. f[m] = f[m - 1] \o seqs[m]
      BY <2>2, <2>4 DEF Joins
    <3>4. seqs[m] \in Seq(T)
      BY <1>0, <2>2
    <3>5. f[m] \in Seq(T)
      BY <3>2, <3>3, <3>4, ConcatProperties
    <3>6. \A x : x \in ToSet(f[m]) <=> x \in ToSet(f[m - 1]) \/ x \in ToSet(seqs[m])
      BY <3>2, <3>3, <3>4, JoinSets
    <3>7. ASSUME NEW x
          PROVE  x \in ToSet(f[m]) <=> \E i \in 1 .. m : x \in ToSet(seqs[i])
      <4>1. x \in ToSet(f[m - 1]) <=> \E i \in 1 .. (m - 1) : x \in ToSet(seqs[i])
        BY <3>2
      <4>2. \A i : i \in 1 .. m <=> i \in 1 .. (m - 1) \/ i = m
        BY <2>2, <2>4, <1>0
      <4> QED
        BY <4>1, <4>2, <3>6
    <3> QED
      BY <2>2, <3>5, <3>7
  <2> QED
    BY <2>3, <2>4
<1> QED
  BY <1>1, <1>2

\* What a flattened sequence is made of, and in which order.
Sorted(q)   == \A i, j \in 1 .. Len(q) : i <= j => q[i] <= q[j]
Below(p, q) == \A x \in ToSet(p), y \in ToSet(q) : x <= y

\* Two sorted sequences, the one below the other, make a sorted one.
LEMMA SortedConcat ==
  ASSUME NEW T, T \subseteq Nat, NEW p \in Seq(T), NEW q \in Seq(T),
         Sorted(p), Sorted(q), Below(p, q)
  PROVE  Sorted(p \o q)
<1>1. /\ p \o q \in Seq(T) /\ Len(p \o q) = Len(p) + Len(q)
      /\ \A i \in 1 .. Len(p) + Len(q) :
           (p \o q)[i] = IF i <= Len(p) THEN p[i] ELSE q[i - Len(p)]
  BY ConcatProperties
<1>2. Len(p) \in Nat /\ Len(q) \in Nat /\ DOMAIN p = 1 .. Len(p) /\ DOMAIN q = 1 .. Len(q)
  BY LenProperties
<1>3. SUFFICES ASSUME NEW i \in 1 .. Len(p) + Len(q), NEW j \in 1 .. Len(p) + Len(q), i <= j
               PROVE  (p \o q)[i] <= (p \o q)[j]
  BY <1>1 DEF Sorted
<1>4. CASE j <= Len(p)
  <2>1. i \in 1 .. Len(p) /\ j \in 1 .. Len(p)
    BY <1>2, <1>3, <1>4
  <2>2. p[i] <= p[j]
    BY <2>1, <1>3 DEF Sorted
  <2> QED
    BY <1>1, <1>4, <2>1, <2>2
<1>5. CASE i <= Len(p) /\ ~(j <= Len(p))
  <2>1. i \in 1 .. Len(p) /\ j - Len(p) \in 1 .. Len(q)
    BY <1>2, <1>3, <1>5
  <2>2. p[i] \in ToSet(p) /\ q[j - Len(p)] \in ToSet(q)
    BY <1>2, <2>1 DEF ToSet
  <2>3. p[i] <= q[j - Len(p)]
    BY <2>2 DEF Below
  <2> QED
    BY <1>1, <1>5, <2>3
<1>6. CASE ~(i <= Len(p))
  <2>1. i - Len(p) \in 1 .. Len(q) /\ j - Len(p) \in 1 .. Len(q) /\ i - Len(p) <= j - Len(p)
        /\ ~(j <= Len(p))
    BY <1>2, <1>3, <1>6
  <2>2. q[i - Len(p)] <= q[j - Len(p)]
    BY <2>1 DEF Sorted
  <2> QED
    BY <1>1, <1>6, <2>1, <2>2
<1> QED
  BY <1>2, <1>4, <1>5, <1>6

Ordered(seqs) == /\ \A i \in 1 .. Len(seqs) : Sorted(seqs[i])
                 /\ \A i, j \in 1 .. Len(seqs) : i < j => Below(seqs[i], seqs[j])

\* Joining sorted sequences, each below the next, makes sorted sequences.
LEMMA JoinSorted ==
  ASSUME NEW T, T \subseteq Nat, NEW seqs \in Seq(Seq(T)), Ordered(seqs),
         NEW f, Joins(f, seqs, Len(seqs)), NEW n \in 1 .. Len(seqs)
  PROVE  Sorted(f[n])
<1>a. \A k \in 1 .. Len(seqs) :
        /\ f[k] \in Seq(T)
        /\ \A x : x \in ToSet(f[k]) <=> \E i \in 1 .. k : x \in ToSet(seqs[i])
  BY JoinElements, Zenon
<1> DEFINE Bad == {m \in 1 .. Len(seqs) : ~Sorted(f[m])}
<1>0. Len(seqs) \in Nat /\ \A i \in 1 .. Len(seqs) : seqs[i] \in Seq(T)
  BY ElementOfSeq, LenProperties
<1>1. CASE Bad = {}
  BY <1>1
<1>2. CASE Bad # {}
  <2>1. PICK m \in Bad : \A k \in Bad : m <= k
    <3> HIDE DEF Bad
    <3>1. Bad \subseteq Nat
      BY <1>0 DEF Bad
    <3> QED
      BY <1>2, <3>1, SmallestNat
  <2>2. m \in 1 .. Len(seqs) /\ ~Sorted(f[m])
    BY <2>1
  <2>3. CASE m = 1
    <3>1. f[m] = seqs[1]
      BY <2>2, <2>3 DEF Joins
    <3> QED
      BY <2>2, <2>3, <3>1 DEF Ordered
  <2>4. CASE m # 1
    <3>1. m - 1 \in 1 .. Len(seqs) /\ ~(m <= m - 1)
      BY <1>0, <2>2, <2>4
    <3>2. Sorted(f[m - 1])
      BY <2>1, <3>1
    <3>3. f[m] = f[m - 1] \o seqs[m]
      BY <2>2, <2>4 DEF Joins
    <3>4. seqs[m] \in Seq(T) /\ Sorted(seqs[m])
      BY <1>0, <2>2 DEF Ordered
    <3>5. /\ f[m - 1] \in Seq(T)
          /\ \A x : x \in ToSet(f[m - 1]) <=> \E i \in 1 .. (m - 1) : x \in ToSet(seqs[i])
      BY <1>a, <3>1
    <3>6. Below(f[m - 1], seqs[m])
      <4>1. ASSUME NEW x \in ToSet(f[m - 1]), NEW y \in ToSet(seqs[m]) PROVE x <= y
        <5>1. PICK i \in 1 .. (m - 1) : x \in ToSet(seqs[i])
          BY <3>5, Zenon
        <5>2. i \in 1 .. Len(seqs) /\ i < m
          BY <1>0, <2>2
        <5> QED
          <6>1. Below(seqs[i], seqs[m])
            BY <2>2, <5>2 DEF Ordered
          <6> QED
            BY <5>1, <6>1 DEF Below
      <4> QED
        BY <4>1 DEF Below
    <3>7. Sorted(f[m])
      BY <3>2, <3>3, <3>4, <3>5, <3>6, SortedConcat
    <3> QED
      BY <2>2, <3>7
  <2> QED
    BY <2>3, <2>4
<1> QED
  BY <1>1, <1>2

\* FlattenSeq returns the elements of all sequences, and no others.
LEMMA FlattenElements ==
  ASSUME NEW T, NEW seqs \in Seq(Seq(T))
  PROVE  /\ FlattenSeq(seqs) \in Seq(T)
         /\ \A x : x \in ToSet(FlattenSeq(seqs)) <=> \E i \in 1 .. Len(seqs) : x \in ToSet(seqs[i])
<1>0. Len(seqs) \in Nat
  BY LenProperties
<1>1. CASE Len(seqs) = 0
  <2>1. seqs = << >> /\ FlattenSeq(seqs) = seqs
    BY <1>1, EmptySeq DEF FlattenSeq
  <2>2. << >> \in Seq(T) /\ ToSet(<< >>) = {}
    BY EmptySeq DEF ToSet
  <2>3. \A i : i \notin 1 .. Len(seqs)
    BY <1>1
  <2>4. FlattenSeq(seqs) \in Seq(T) /\ ToSet(FlattenSeq(seqs)) = {}
    BY <2>1, <2>2, Zenon
  <2> QED
    BY <2>3, <2>4
<1>2. CASE Len(seqs) # 0
  <2>1. PICK f : Joins(f, seqs, Len(seqs)) /\ FlattenSeq(seqs) = f[Len(seqs)]
    BY <1>0, <1>2, FlattenJoins
  <2>2. Len(seqs) \in 1 .. Len(seqs)
    BY <1>0, <1>2
  <2>3. \A k \in 1 .. Len(seqs) :
          /\ f[k] \in Seq(T)
          /\ \A x : x \in ToSet(f[k]) <=> \E i \in 1 .. k : x \in ToSet(seqs[i])
    BY <2>1, JoinElements, Zenon
  <2> QED
    BY <2>1, <2>2, <2>3, Zenon
<1> QED
  BY <1>1, <1>2

\* FlattenSeq returns a sorted sequence if the sequences are sorted and each is
\* below the next.
LEMMA FlattenSorted ==
  ASSUME NEW T, T \subseteq Nat, NEW seqs \in Seq(Seq(T)), Ordered(seqs)
  PROVE  Sorted(FlattenSeq(seqs))
<1>0. Len(seqs) \in Nat
  BY LenProperties
<1>1. CASE Len(seqs) = 0
  <2>1. FlattenSeq(seqs) = seqs
    BY <1>1 DEF FlattenSeq
  <2>2. \A i : i \notin 1 .. Len(FlattenSeq(seqs))
    BY <1>1, <2>1
  <2> QED
    BY <2>2 DEF Sorted
<1>2. CASE Len(seqs) # 0
  <2>1. PICK f : Joins(f, seqs, Len(seqs)) /\ FlattenSeq(seqs) = f[Len(seqs)]
    BY <1>0, <1>2, FlattenJoins
  <2>2. \A k \in 1 .. Len(seqs) : Sorted(f[k])
    BY <2>1, JoinSorted, Zenon
  <2>3. Len(seqs) \in 1 .. Len(seqs)
    BY <1>0, <1>2
  <2> QED
    BY <2>1, <2>2, <2>3
<1> QED
  BY <1>1, <1>2

-----------------------------------------------------------------------------
(* The inductive invariant.                                                *)

Maps(D, R) == UNION {[E -> R] : E \in SUBSET D}
Entries    == [id : Nat, since : Nat \ {0}]
Subs       == [watch : Watches, first : Nat, synced : BOOLEAN]

\* The types of all variables, as functions on the streams.
Shape ==
  /\ log \in Seq(Keys) /\ Len(log) <= MaxChanges
  /\ rpc \in [Streams -> {"none", "recv", "req", "res", "close", "done"}]
  /\ req \in [Streams -> Asks \cup {NoReq}]
  /\ bg \in [Streams -> {"none", "select", "res", "gone"}]
  /\ watching \in [Streams -> Maps(Watches, Entries)]
  /\ subs \in [Streams -> Maps(Nat, Subs)]
  /\ streamCh \in [Streams -> Seq(Seq(Revs))]
  /\ out \in [Streams -> Seq(Revs)] /\ got \in [Streams -> Seq(Revs)]
  /\ hand \in [Streams -> Seq(Revs)] /\ \A s \in Streams : Len(hand[s]) <= 1
  /\ gone \in [Streams -> BOOLEAN] /\ want \in [Streams -> SUBSET Watches]
  /\ asked \in [Streams -> 0 .. MaxAsks] /\ past \in [Streams -> BOOLEAN]

Runs(s) == bg[s] \in {"select", "res"}

\* Handler and backgroundProcess start together, are in the same request, and
\* end together.
InStep(s) ==
  /\ rpc[s] = "none" <=> bg[s] = "none"
  /\ rpc[s] = "res" <=> bg[s] = "res"
  /\ rpc[s] = "done" <=> bg[s] = "gone"
  /\ rpc[s] = "req" => req[s] \in Asks /\ asked[s] >= 1

\* The ids given to subscriptions are those of requests that are taken care of,
\* and no two watches have the same.
Taken(s) == IF rpc[s] = "req" THEN asked[s] - 1 ELSE asked[s]
Numbered(s) ==
  /\ IsFiniteSet(DOMAIN watching[s]) /\ IsFiniteSet(DOMAIN subs[s])
  /\ bg[s] = "none" => DOMAIN watching[s] = {}
  /\ \A w \in DOMAIN watching[s] : watching[s][w].id < Taken(s)
  /\ \A v, w \in DOMAIN watching[s] : watching[s][v].id = watching[s][w].id => v = w

\* The map and etcd agree on what is watched, and since when.
Ids(s) == {watching[s][w].id : w \in DOMAIN watching[s]}
Recorded(s) ==
  /\ Runs(s) => DOMAIN subs[s] = Ids(s)
  /\ ~Runs(s) => DOMAIN subs[s] = {}
  /\ Runs(s) => \A w \in DOMAIN watching[s] : LET m == watching[s][w] IN
                  subs[s][m.id].watch = w /\ subs[s][m.id].first = m.since

\* What the client asked for is what is watched once the request under way is
\* taken care of.
AsksFor(s) == IF rpc[s] # "req" THEN DOMAIN watching[s]
              ELSE IF req[s].cancel THEN DOMAIN watching[s] \ {req[s].watch}
              ELSE DOMAIN watching[s] \cup {req[s].watch}
Agreed(s) ==
  Polite => /\ want[s] = AsksFor(s)
            /\ rpc[s] = "req" /\ req[s].cancel => req[s].watch \in DOMAIN watching[s]

\* What is on its way to the client: every change that a watch asks for.
Carried(s, j) == \/ j \in ToSet(got[s]) \/ j \in ToSet(hand[s]) \/ j \in ToSet(out[s])
                 \/ \E i \in 1 .. Len(streamCh[s]) : j \in ToSet(streamCh[s][i])
Covered(s) ==
  Live(s) => \A w \in DOMAIN watching[s] : LET m == watching[s][w] IN
               subs[s][m.id].synced =>
                 \A j \in m.since .. Len(log) : Expected(w, log[j]) => Carried(s, j)

\* It has happened, and comes in order when no old revision was asked for.
Happened(s) == \A j \in Revs : Carried(s, j) => j <= Len(log)
InLine(s) ==
  /\ Sorted(got[s]) /\ Sorted(hand[s]) /\ Sorted(out[s]) /\ Ordered(streamCh[s])
  /\ Below(got[s], hand[s]) /\ Below(got[s], out[s]) /\ Below(hand[s], out[s])
  /\ \A i \in 1 .. Len(streamCh[s]) : /\ Below(got[s], streamCh[s][i])
                                      /\ Below(hand[s], streamCh[s][i])
                                      /\ Below(out[s], streamCh[s][i])
Lined(s) ==
  ~past[s] => /\ rpc[s] = "req" => req[s].rev = 0
              /\ \A n \in DOMAIN subs[s] : subs[s][n].synced
              /\ InLine(s)

StreamInv(s) == /\ InStep(s) /\ Numbered(s) /\ Recorded(s) /\ Agreed(s)
                /\ Covered(s) /\ Happened(s) /\ Lined(s)
WatchInv == Shape /\ \A s \in Streams : StreamInv(s)

-----------------------------------------------------------------------------
(* The helpers of the module.                                              *)

\* A map from some elements of D to R is a function with values in R.
LEMMA MapsType ==
  ASSUME NEW D, NEW R, NEW f \in Maps(D, R)
  PROVE  /\ f = [x \in DOMAIN f |-> f[x]] /\ DOMAIN f \subseteq D
         /\ \A x \in DOMAIN f : f[x] \in R
  BY DEF Maps

\* The map without entries is one of these.
LEMMA EmptyMap == ASSUME NEW D, NEW R PROVE NoMap \in Maps(D, R) /\ DOMAIN NoMap = {}
<1>1. NoMap \in [{} -> R]
  BY DEF NoMap
<1> QED
  BY <1>1 DEF Maps, NoMap

\* Setting an entry of a map sets it and no other.
LEMMA MapWith ==
  ASSUME NEW D, NEW R, NEW f \in Maps(D, R), NEW x \in D, NEW y \in R
  PROVE  /\ With(f, x, y) \in Maps(D, R) /\ DOMAIN With(f, x, y) = DOMAIN f \cup {x}
         /\ With(f, x, y)[x] = y /\ \A z \in DOMAIN f : z # x => With(f, x, y)[z] = f[z]
<1>1. With(f, x, y) \in [DOMAIN f \cup {x} -> R] /\ DOMAIN f \cup {x} \subseteq D
  BY MapsType DEF With
<1> QED
  BY <1>1 DEF Maps, With

\* Deleting an entry of a map deletes it and no other.
LEMMA MapWithout ==
  ASSUME NEW D, NEW R, NEW f \in Maps(D, R), NEW x
  PROVE  /\ Without(f, x) \in Maps(D, R) /\ DOMAIN Without(f, x) = DOMAIN f \ {x}
         /\ \A z \in DOMAIN f : z # x => Without(f, x)[z] = f[z]
<1>1. Without(f, x) \in [DOMAIN f \ {x} -> R] /\ DOMAIN f \ {x} \subseteq D
  BY MapsType DEF Without
<1> QED
  BY <1>1 DEF Maps, Without

\* Sequences of equal elements, and sequences that are appended to or shortened.
LEMMA ConstantSeq ==
  ASSUME NEW T, NEW x \in T, NEW n \in Nat
  PROVE  /\ [i \in 1 .. n |-> x] \in Seq(T) /\ Len([i \in 1 .. n |-> x]) = n
         /\ ToSet([i \in 1 .. n |-> x]) \subseteq {x}
         /\ n # 0 => x \in ToSet([i \in 1 .. n |-> x])
<1> DEFINE f == [i \in 1 .. n |-> x]
<1>1. f \in Seq(T) /\ Len(f) = n
  BY IsASeq, LenProperties
<1>2. n # 0 => 1 \in DOMAIN f /\ f[1] = x
  OBVIOUS
<1> QED
  BY <1>1, <1>2 DEF ToSet

\* The elements of a sequence are at its places.
LEMMA SetOfSeq ==
  ASSUME NEW T, NEW q \in Seq(T)
  PROVE  /\ Len(q) \in Nat /\ DOMAIN q = 1 .. Len(q) /\ ToSet(q) \subseteq T
         /\ \A x : x \in ToSet(q) <=> \E i \in 1 .. Len(q) : x = q[i]
<1>1. Len(q) \in Nat /\ DOMAIN q = 1 .. Len(q) /\ \A i \in 1 .. Len(q) : q[i] \in T
  BY LenProperties, ElementOfSeq
<1> QED
  BY <1>1 DEF ToSet

\* The elements of sequences of length none and one.
LEMMA SetOfSmall ==
  /\ ToSet(<< >>) = {} /\ \A T : << >> \in Seq(T)
  /\ \A x : ToSet(<<x>>) = {x} /\ Len(<<x>>) = 1
  /\ \A T : \A x \in T : <<x>> \in Seq(T)
  BY DEF ToSet

\* A sequence has its head and the elements of its tail.
LEMMA SetOfTail ==
  ASSUME NEW T, NEW q \in Seq(T), q # << >>
  PROVE  /\ Head(q) \in T /\ Tail(q) \in Seq(T) /\ Len(Tail(q)) = Len(q) - 1
         /\ \A i \in 1 .. Len(Tail(q)) : Tail(q)[i] = q[i + 1]
         /\ Head(q) = q[1] /\ 1 \in 1 .. Len(q)
         /\ \A x : x \in ToSet(q) <=> x = Head(q) \/ x \in ToSet(Tail(q))
<1>1. /\ Head(q) \in T /\ Tail(q) \in Seq(T) /\ Len(Tail(q)) = Len(q) - 1
      /\ \A i \in 1 .. Len(Tail(q)) : Tail(q)[i] = q[i + 1]
      /\ Head(q) = q[1] /\ Len(q) \in Nat \ {0}
  BY HeadTailProperties, EmptySeq
<1>2. ASSUME NEW x PROVE x \in ToSet(q) <=> x = Head(q) \/ x \in ToSet(Tail(q))
  <2>1. ASSUME NEW i \in 1 .. Len(q), x = q[i] PROVE x = Head(q) \/ x \in ToSet(Tail(q))
    <3>1. CASE i = 1
      BY <1>1, <2>1, <3>1
    <3>2. CASE i # 1
      <4>0. i - 1 \in 1 .. Len(Tail(q)) /\ (i - 1) + 1 = i
        BY <1>1, <2>1, <3>2
      <4>1. i - 1 \in 1 .. Len(Tail(q)) /\ Tail(q)[i - 1] = x
        BY <1>1, <2>1, <4>0
      <4>2. \A t \in Seq(T) : \A y : y \in ToSet(t) <=> \E k \in 1 .. Len(t) : y = t[k]
        BY SetOfSeq, Zenon
      <4> QED
        BY <1>1, <4>1, <4>2, Zenon
    <3> QED
      BY <3>1, <3>2
  <2>2. ASSUME NEW i \in 1 .. Len(Tail(q)), x = Tail(q)[i] PROVE x \in ToSet(q)
    <3>1. i + 1 \in 1 .. Len(q) /\ q[i + 1] = x
      BY <1>1, <2>2
    <3> QED
      BY <3>1, SetOfSeq
  <2>3. q[1] \in ToSet(q)
    BY <1>1, SetOfSeq
  <2>4. \A y : y \in ToSet(q) <=> \E i \in 1 .. Len(q) : y = q[i]
    BY SetOfSeq, Zenon
  <2>5. \A y : y \in ToSet(Tail(q)) <=> \E k \in 1 .. Len(Tail(q)) : y = Tail(q)[k]
    BY <1>1, SetOfSeq, Zenon
  <2> QED
    BY <1>1, <2>1, <2>2, <2>3, <2>4, <2>5, Zenon
<1> QED
  BY <1>1, <1>2

\* Appending adds one element, behind the others.
LEMMA SetOfAppend ==
  ASSUME NEW T, NEW q \in Seq(T), NEW y \in T
  PROVE  /\ Append(q, y) \in Seq(T) /\ Len(Append(q, y)) = Len(q) + 1
         /\ \A i \in 1 .. Len(q) : Append(q, y)[i] = q[i]
         /\ Append(q, y)[Len(q) + 1] = y
         /\ \A x : x \in ToSet(Append(q, y)) <=> x \in ToSet(q) \/ x = y
<1>1. /\ Append(q, y) \in Seq(T) /\ Len(Append(q, y)) = Len(q) + 1
      /\ \A i \in 1 .. Len(q) : Append(q, y)[i] = q[i]
      /\ Append(q, y)[Len(q) + 1] = y
      /\ Len(q) \in Nat
  BY AppendProperties, LenProperties
<1>2. \A x : x \in ToSet(q) <=> \E i \in 1 .. Len(q) : x = q[i]
  BY SetOfSeq, Zenon
<1>3. \A x : x \in ToSet(Append(q, y)) <=> \E i \in 1 .. Len(Append(q, y)) : x = Append(q, y)[i]
  BY <1>1, SetOfSeq, Zenon
<1>4. \A i : i \in 1 .. Len(Append(q, y)) <=> i \in 1 .. Len(q) \/ i = Len(q) + 1
  BY <1>1
<1> QED
  BY <1>1, <1>2, <1>3, <1>4

\* The copies of an event that are offered: of that event only, and at least one
\* when some watch asks for it.
LEMMA CopiesOf ==
  ASSUME NEW s, IsFiniteSet(DOMAIN watching[s]), NEW j \in Revs
  PROVE  /\ Copies(s, j) \in Seq(Revs) /\ ToSet(Copies(s, j)) \subseteq {j}
         /\ \A w \in DOMAIN watching[s] : Matches(w, log[j]) => j \in ToSet(Copies(s, j))
<1> DEFINE W == {w \in DOMAIN watching[s] : Matches(w, log[j])}
<1>1. IsFiniteSet(W)
  BY FS_Subset
<1>2. Cardinality(W) \in Nat /\ (Cardinality(W) = 0 <=> W = {})
  BY <1>1, FS_CardinalityType, FS_EmptySet
<1>3. Copies(s, j) = [i \in 1 .. Cardinality(W) |-> j]
  BY DEF Copies
<1>4. ASSUME NEW w \in DOMAIN watching[s], Matches(w, log[j]) PROVE Cardinality(W) # 0
  BY <1>2, <1>4
<1>5. \A n \in Nat :
        /\ [i \in 1 .. n |-> j] \in Seq(Revs) /\ ToSet([i \in 1 .. n |-> j]) \subseteq {j}
        /\ n # 0 => j \in ToSet([i \in 1 .. n |-> j])
  BY ConstantSeq
<1> HIDE DEF W
<1>6. /\ Copies(s, j) \in Seq(Revs) /\ ToSet(Copies(s, j)) \subseteq {j}
      /\ Cardinality(W) # 0 => j \in ToSet(Copies(s, j))
  BY <1>2, <1>3, <1>5, Zenon
<1> QED
  BY <1>4, <1>6

\* So for a batch, whose order the copies keep.
LEMMA EventCopiesOf ==
  ASSUME NEW s, IsFiniteSet(DOMAIN watching[s]), NEW batch \in Seq(Revs)
  PROVE  /\ EventCopies(s, batch) \in Seq(Revs)
         /\ ToSet(EventCopies(s, batch)) \subseteq ToSet(batch)
         /\ \A w \in DOMAIN watching[s], j \in ToSet(batch) :
              Matches(w, log[j]) => j \in ToSet(EventCopies(s, batch))
         /\ Sorted(batch) => Sorted(EventCopies(s, batch))
<1> DEFINE all == [i \in 1 .. Len(batch) |-> Copies(s, batch[i])]
<1>0. /\ Len(batch) \in Nat /\ \A i \in 1 .. Len(batch) : batch[i] \in Revs /\ batch[i] \in ToSet(batch)
      /\ \A x : x \in ToSet(batch) <=> \E i \in 1 .. Len(batch) : x = batch[i]
  BY SetOfSeq, ElementOfSeq
<1>1. \A i \in 1 .. Len(batch) : /\ Copies(s, batch[i]) \in Seq(Revs)
                                 /\ ToSet(Copies(s, batch[i])) \subseteq {batch[i]}
  BY <1>0, CopiesOf
<1>2. /\ all \in Seq(Seq(Revs)) /\ Len(all) = Len(batch)
      /\ \A i \in 1 .. Len(batch) : all[i] = Copies(s, batch[i])
  BY <1>0, <1>1, IsASeq, LenProperties
<1>3. EventCopies(s, batch) = FlattenSeq(all)
  BY DEF EventCopies
<1> HIDE DEF all
<1>a. \A q \in Seq(Seq(Revs)) :
        /\ FlattenSeq(q) \in Seq(Revs)
        /\ \A x : x \in ToSet(FlattenSeq(q)) <=> \E i \in 1 .. Len(q) : x \in ToSet(q[i])
  BY FlattenElements, Zenon
<1>4. /\ FlattenSeq(all) \in Seq(Revs)
      /\ \A x : x \in ToSet(FlattenSeq(all)) <=> \E i \in 1 .. Len(all) : x \in ToSet(all[i])
  BY <1>2, <1>a
<1>5. ASSUME NEW x \in ToSet(EventCopies(s, batch)) PROVE x \in ToSet(batch)
  <2>1. PICK i \in 1 .. Len(all) : x \in ToSet(all[i])
    BY <1>3, <1>4, <1>5
  <2>2. i \in 1 .. Len(batch) /\ all[i] = Copies(s, batch[i])
    BY <1>2
  <2>3. x = batch[i]
    BY <1>1, <2>1, <2>2
  <2> QED
    BY <1>0, <2>2, <2>3
<1>6. ASSUME NEW w \in DOMAIN watching[s], NEW j \in ToSet(batch), Matches(w, log[j])
      PROVE  j \in ToSet(EventCopies(s, batch))
  <2>1. PICK i \in 1 .. Len(batch) : j = batch[i]
    BY <1>0
  <2>2. j \in ToSet(Copies(s, j))
    BY <1>0, <1>6, <2>1, CopiesOf
  <2> QED
    BY <1>2, <1>3, <1>4, <2>1, <2>2
<1>7. ASSUME Sorted(batch) PROVE Sorted(EventCopies(s, batch))
  <2>0. Revs \subseteq Nat
    BY AsksAssumption DEF Revs
  <2>1. ASSUME NEW i \in 1 .. Len(all) PROVE Sorted(all[i])
    <3>1. /\ all[i] \in Seq(Revs) /\ ToSet(all[i]) \subseteq {batch[i]} /\ batch[i] \in Nat
      BY <1>0, <1>1, <1>2, <2>0, <2>1
    <3>2. \A k \in 1 .. Len(all[i]) : all[i][k] \in ToSet(all[i])
      BY <3>1, SetOfSeq
    <3>3. \A k \in 1 .. Len(all[i]) : all[i][k] = batch[i]
      BY <3>1, <3>2
    <3> QED
      BY <3>1, <3>3 DEF Sorted
  <2>2. ASSUME NEW i \in 1 .. Len(all), NEW k \in 1 .. Len(all), i < k
        PROVE  Below(all[i], all[k])
    <3>1. batch[i] <= batch[k]
      BY <1>0, <1>2, <1>7, <2>2 DEF Sorted
    <3>2. ToSet(all[i]) \subseteq {batch[i]} /\ ToSet(all[k]) \subseteq {batch[k]}
      BY <1>1, <1>2
    <3> QED
      BY <3>1, <3>2 DEF Below
  <2>3. Ordered(all)
    BY <2>1, <2>2 DEF Ordered
  <2> QED
    BY <1>2, <1>3, <2>0, <2>3, FlattenSorted
<1> QED
  BY <1>3, <1>4, <1>5, <1>6, <1>7

\* What a subscription has missed.
LEMMA MissedBy ==
  ASSUME NEW sub \in Subs, log \in Seq(Keys), Len(log) <= MaxChanges
  PROVE  /\ Missed(sub) \in Seq(Revs)
         /\ \A j : j \in ToSet(Missed(sub)) <=>
              j \in 1 .. Len(log) /\ j >= sub.first /\ log[j] \in EtcdRange[sub.watch]
<1> DEFINE Has(j) == j >= sub.first /\ log[j] \in EtcdRange[sub.watch]
           all == [j \in 1 .. Len(log) |-> IF Has(j) THEN <<j>> ELSE << >>]
<1>1. Len(log) \in Nat /\ 1 .. Len(log) \subseteq Revs
  BY LenProperties, AsksAssumption DEF Revs
<1>2. Missed(sub) = FlattenSeq(all)
  BY DEF Missed
<1>3. ASSUME NEW j \in 1 .. Len(log)
      PROVE  /\ all[j] \in Seq(Revs)
             /\ \A x : x \in ToSet(all[j]) <=> x = j /\ Has(j)
  <2>1. j \in Revs
    BY <1>1
  <2>2. CASE Has(j)
    <3>1. all[j] = <<j>>
      BY <2>2
    <3> HIDE DEF all
    <3> QED
      BY <2>1, <2>2, <3>1, SetOfSmall
  <2>3. CASE ~Has(j)
    <3>1. all[j] = << >>
      BY <2>3
    <3> HIDE DEF all
    <3> QED
      BY <2>3, <3>1, SetOfSmall
  <2> QED
    BY <2>2, <2>3
<1>4. DOMAIN all = 1 .. Len(log)
  OBVIOUS
<1>5. all \in Seq(Seq(Revs)) /\ Len(all) = Len(log)
  BY <1>1, <1>3, IsASeq, LenProperties
<1> HIDE DEF all
<1>a. \A q \in Seq(Seq(Revs)) :
        /\ FlattenSeq(q) \in Seq(Revs)
        /\ \A x : x \in ToSet(FlattenSeq(q)) <=> \E i \in 1 .. Len(q) : x \in ToSet(q[i])
  BY FlattenElements, Zenon
<1>6. /\ FlattenSeq(all) \in Seq(Revs)
      /\ \A x : x \in ToSet(FlattenSeq(all)) <=> \E i \in 1 .. Len(all) : x \in ToSet(all[i])
  BY <1>5, <1>a
<1> HIDE DEF Has
<1>7. ASSUME NEW j PROVE j \in ToSet(FlattenSeq(all)) <=> j \in 1 .. Len(log) /\ Has(j)
  <2>1. j \in ToSet(FlattenSeq(all)) <=> \E i \in 1 .. Len(log) : j \in ToSet(all[i])
    BY <1>5, <1>6
  <2>2. \A i \in 1 .. Len(log) : j \in ToSet(all[i]) <=> j = i /\ Has(i)
    BY <1>3
  <2> QED
    BY <2>1, <2>2
<1> QED
  BY <1>2, <1>6, <1>7 DEF Has

-----------------------------------------------------------------------------
(* The invariant is inductive: one lemma per conjunct, one step per action. *)

\* The invariant holds before any stream is open.
LEMMA WatchInit == ASSUME Init PROVE WatchInv
<1> USE DEF Init
<1>1. NoMap \in Maps(Watches, Entries) /\ NoMap \in Maps(Nat, Subs) /\ DOMAIN NoMap = {}
  BY EmptyMap
<1>2. Len(<< >>) = 0 /\ \A T : << >> \in Seq(T)
  BY SetOfSmall
<1>3. IsFiniteSet({})
  BY FS_EmptySet
<1>4. Shape
  BY <1>1, <1>2, AsksAssumption DEF Shape
<1>5. ASSUME NEW s \in Streams
      PROVE  InStep(s) /\ Numbered(s) /\ Recorded(s) /\ Agreed(s) /\ Covered(s)
  BY <1>1, <1>3 DEF InStep, Numbered, Recorded, Runs, Agreed, AsksFor, Covered, Live
<1>6. ASSUME NEW s \in Streams PROVE (\A j : ~Carried(s, j)) /\ InLine(s)
  <2>1. got[s] = << >> /\ hand[s] = << >> /\ out[s] = << >> /\ streamCh[s] = << >>
    OBVIOUS
  <2>2. Len(<< >>) = 0 /\ ToSet(<< >>) = {} /\ \A i : i \notin 1 .. 0
    BY SetOfSmall
  <2>3. Sorted(<< >>) /\ Ordered(<< >>) /\ Below(<< >>, << >>)
    BY <2>2 DEF Sorted, Ordered, Below
  <2> QED
    BY <2>1, <2>2, <2>3 DEF Carried, InLine
<1>7. ASSUME NEW s \in Streams PROVE Happened(s) /\ Lined(s)
  BY <1>1, <1>6 DEF Happened, Lined
<1> QED
  BY <1>4, <1>5, <1>7 DEF WatchInv, StreamInv

\* All steps by name.
StreamStep(s) == \/ Open(s) \/ Disconnect(s) \/ RecvErr(s) \/ Cancel(s) \/ Duplicate(s)
                 \/ StartWatch(s) \/ Answer(s) \/ FanOut(s) \/ Offer(s) \/ Close(s) \/ Send(s)
                 \/ \E n \in DOMAIN subs[s] : CatchUp(s, n)
                 \/ \E r \in Asks : Recv(s, r)

\* A step is a change of the store, or a step of one stream.
LEMMA WatchSteps ==
  ASSUME [Next]_vars
  PROVE  \/ UNCHANGED vars
         \/ \E k \in Keys : Change(k)
         \/ \E s \in Streams : StreamStep(s)
  BY DEF Next, Background, Etcd, StreamStep

\* A change of the store keeps every type: its revision is within the bound.
LEMMA ChangeShape ==
  ASSUME WatchInv, NEW k \in Keys, Change(k)
  PROVE  Shape'
<1> USE AsksAssumption DEF Change, WatchInv, Shape, client
<1>1. Len(log) \in Nat /\ log' \in Seq(Keys) /\ Len(log') = Len(log) + 1
  BY SetOfAppend, SetOfSeq
<1>2. <<Len(log) + 1>> \in Seq(Revs)
  <2>1. Len(log) + 1 \in Revs
    BY <1>1 DEF Revs
  <2> QED
    BY <2>1, SetOfSmall
<1>3. ASSUME NEW s \in Streams PROVE streamCh'[s] \in Seq(Seq(Revs))
  <2> DEFINE W == {n \in DOMAIN subs[s] : Receives(subs[s][n], k)}
             more == [i \in 1 .. Cardinality(W) |-> <<Len(log) + 1>>]
  <2>1. Cardinality(W) \in Nat
    BY FS_Subset, FS_CardinalityType DEF StreamInv, Numbered
  <2>2. streamCh'[s] = streamCh[s] \o more
    OBVIOUS
  <2>3. more \in Seq(Seq(Revs))
    <3> HIDE DEF W
    <3> QED
      BY <1>2, <2>1, ConstantSeq
  <2> HIDE DEF more
  <2> QED
    BY <2>2, <2>3, ConcatProperties
<1>4. streamCh' \in [Streams -> Seq(Seq(Revs))]
  <2>1. streamCh' = [s \in Streams |-> streamCh'[s]]
    OBVIOUS
  <2> HIDE DEF Change
  <2> QED
    BY <1>3, <2>1
<1>5. Len(log') <= MaxChanges
  BY <1>1
<1> QED
  BY <1>1, <1>4, <1>5

\* A subscription that a request starts.
LEMMA NewWatch ==
  ASSUME WatchInv, NEW s \in Streams, StartWatch(s)
  PROVE  LET w     == req[s].watch
             first == IF req[s].rev = 0 THEN Len(log) + 1 ELSE req[s].rev
             id    == asked[s] - 1
         IN  /\ w \in Watches /\ req[s].rev \in Nat /\ first \in Nat \ {0} /\ id \in Nat
             /\ [watch |-> w, first |-> first, synced |-> first > Len(log)] \in Subs
             /\ [id |-> id, since |-> first] \in Entries
<1>1. req[s] \in Asks /\ asked[s] \in Nat /\ asked[s] >= 1 /\ Len(log) \in Nat
  BY SetOfSeq, AsksAssumption DEF StartWatch, TakeRequest, WatchInv, StreamInv, InStep, Shape
<1>2. req[s].watch \in Watches /\ req[s].rev \in Nat
  BY <1>1, AsksAssumption DEF Watches
<1> QED
  BY <1>1, <1>2 DEF Subs, Entries

\* Every step of a stream keeps every type.
LEMMA ShapeStep ==
  ASSUME WatchInv, [Next]_vars
  PROVE  Shape'
<1> USE AsksAssumption DEF WatchInv, client, server
<1>1. CASE UNCHANGED vars
  BY <1>1 DEF vars, Shape
<1>2. CASE \E k \in Keys : Change(k)
  BY <1>2, ChangeShape
<1>3. ASSUME NEW s \in Streams, Open(s) \/ Disconnect(s) \/ RecvErr(s) \/ Answer(s) \/ Duplicate(s)
      PROVE  Shape'
  BY <1>3 DEF Shape, Open, Disconnect, RecvErr, Answer, Duplicate, TakeRequest
<1>4. ASSUME NEW s \in Streams, Cancel(s) PROVE Shape'
  <2>1. watching'[s] \in Maps(Watches, Entries) /\ subs'[s] \in Maps(Nat, Subs)
    BY <1>4, MapWithout DEF Cancel, Shape
  <2> QED
    BY <1>4, <2>1 DEF Cancel, TakeRequest, Shape
<1>5. ASSUME NEW s \in Streams, StartWatch(s) PROVE Shape'
  <2>1. watching'[s] \in Maps(Watches, Entries) /\ subs'[s] \in Maps(Nat, Subs)
    <3>1. watching[s] \in Maps(Watches, Entries) /\ subs[s] \in Maps(Nat, Subs)
      BY DEF Shape
    <3> QED
      BY <1>5, <3>1, NewWatch, MapWith DEF StartWatch, Shape
  <2> QED
    BY <1>5, <2>1 DEF StartWatch, TakeRequest, Shape
<1>6. ASSUME NEW s \in Streams, FanOut(s) PROVE Shape'
  <2>1. Head(streamCh[s]) \in Seq(Revs) /\ Tail(streamCh[s]) \in Seq(Seq(Revs))
    BY <1>6, SetOfTail DEF FanOut, Shape
  <2>2. EventCopies(s, Head(streamCh[s])) \in Seq(Revs)
    BY <2>1, EventCopiesOf DEF StreamInv, Numbered
  <2> QED
    BY <1>6, <2>1, <2>2 DEF FanOut, Shape
<1>7. ASSUME NEW s \in Streams, Offer(s) PROVE Shape'
  <2>1. Head(out[s]) \in Revs /\ Tail(out[s]) \in Seq(Revs)
    BY <1>7, SetOfTail DEF Offer, Shape
  <2>2. <<Head(out[s])>> \in Seq(Revs) /\ Len(<<Head(out[s])>>) = 1
    BY <2>1, SetOfSmall
  <2> QED
    BY <1>7, <2>1, <2>2 DEF Offer, Shape
<1>8. ASSUME NEW s \in Streams, Close(s) PROVE Shape'
  <2>1. NoMap \in Maps(Nat, Subs) /\ << >> \in Seq(Seq(Revs))
    BY EmptyMap, SetOfSmall
  <2> QED
    BY <1>8, <2>1 DEF Close, Shape
<1>9. ASSUME NEW s \in Streams, Send(s) PROVE Shape'
  <2>1. << >> \in Seq(Revs) /\ Len(<< >>) = 0 /\ got[s] \o hand[s] \in Seq(Revs)
    BY SetOfSmall, ConcatProperties DEF Shape
  <2> QED
    BY <1>9, <2>1 DEF Send, Shape
<1>10. ASSUME NEW s \in Streams, NEW n \in DOMAIN subs[s], CatchUp(s, n) PROVE Shape'
  <2>1. /\ subs[s] \in Maps(Nat, Subs) /\ subs[s][n] \in Subs
        /\ subs[s] \in [DOMAIN subs[s] -> Subs] /\ DOMAIN subs[s] \subseteq Nat
    BY MapsType DEF Shape
  <2>a. [subs[s][n] EXCEPT !.synced = TRUE] \in Subs
    BY <2>1 DEF Subs
  <2>b. [subs[s] EXCEPT ![n].synced = TRUE] \in [DOMAIN subs[s] -> Subs]
    BY <2>1, <2>a
  <2>2. [subs[s] EXCEPT ![n].synced = TRUE] \in Maps(Nat, Subs)
    BY <2>1, <2>b DEF Maps
  <2>3. Missed(subs[s][n]) \in Seq(Revs)
    BY <2>1, MissedBy DEF Shape
  <2>4. Append(streamCh[s], Missed(subs[s][n])) \in Seq(Seq(Revs))
    BY <2>3, AppendProperties DEF Shape
  <2> QED
    BY <1>10, <2>2, <2>4 DEF CatchUp, Shape
<1>11. ASSUME NEW s \in Streams, NEW r \in Asks, Recv(s, r) PROVE Shape'
  <2>1. r.watch \in Watches
    BY DEF Watches
  <2> QED
    BY <1>11, <2>1 DEF Recv, Shape
<1> QED
  BY <1>1, <1>2, <1>3, <1>4, <1>5, <1>6, <1>7, <1>8, <1>9, <1>10, <1>11, WatchSteps DEF StreamStep

\* A step of a stream leaves the others alone.
Untouched(t) ==
  /\ rpc'[t] = rpc[t] /\ req'[t] = req[t] /\ bg'[t] = bg[t] /\ watching'[t] = watching[t]
  /\ subs'[t] = subs[t] /\ streamCh'[t] = streamCh[t] /\ out'[t] = out[t] /\ hand'[t] = hand[t]
  /\ got'[t] = got[t] /\ gone'[t] = gone[t] /\ want'[t] = want[t] /\ asked'[t] = asked[t]
  /\ past'[t] = past[t]

\* No step of a stream writes what belongs to another.
LEMMA Frame ==
  ASSUME Shape, NEW s \in Streams, StreamStep(s)
  PROVE  log' = log /\ \A t \in Streams : t # s => Untouched(t)
<1> USE DEF Shape, Untouched, client, server
<1>1. CASE Open(s) \/ Disconnect(s) \/ RecvErr(s) \/ Answer(s)
  BY <1>1 DEF Open, Disconnect, RecvErr, Answer
<1>2. CASE Cancel(s) \/ Duplicate(s) \/ StartWatch(s)
  BY <1>2 DEF Cancel, Duplicate, StartWatch, TakeRequest
<1>3. CASE FanOut(s) \/ Offer(s) \/ Close(s)
  BY <1>3 DEF FanOut, Offer, Close
<1>4. CASE Send(s) \/ \E n \in DOMAIN subs[s] : CatchUp(s, n)
  BY <1>4 DEF Send, CatchUp
<1>5. CASE \E r \in Asks : Recv(s, r)
  BY <1>5 DEF Recv
<1> QED
  BY <1>1, <1>2, <1>3, <1>4, <1>5 DEF StreamStep

\* What holds of a stream holds as long as nobody writes its variables.
LEMMA UntouchedKept ==
  ASSUME NEW t \in Streams, StreamInv(t), log' = log, Untouched(t)
  PROVE  StreamInv(t)'
<1> USE DEF Untouched
<1>1. InStep(t)' /\ Numbered(t)' /\ Recorded(t)' /\ Agreed(t)'
  BY DEF StreamInv, InStep, Numbered, Recorded, Agreed, Taken, Ids, AsksFor, Runs
<1>2. \A j : Carried(t, j)' <=> Carried(t, j)
  BY DEF Carried
<1>3. Covered(t)' /\ Happened(t)'
  BY <1>2 DEF StreamInv, Covered, Happened, Live
<1>4. Lined(t)'
  BY DEF StreamInv, Lined, InLine
<1> QED
  BY <1>1, <1>3, <1>4 DEF StreamInv

\* What each step does to its own stream.
Same(s)     == watching'[s] = watching[s] /\ subs'[s] = subs[s]
SameCall(s) == want'[s] = want[s] /\ asked'[s] = asked[s] /\ past'[s] = past[s]
SamePipe(s) == /\ streamCh'[s] = streamCh[s] /\ out'[s] = out[s] /\ hand'[s] = hand[s]
               /\ got'[s] = got[s]

\* Steps that leave the maps and the events alone: the handler starts, fails or
\* is answered, the client goes, a watch is asked for twice.
LEMMA QuietEffects ==
  ASSUME Shape, NEW s \in Streams
  PROVE  /\ Open(s) => /\ rpc[s] = "none" /\ rpc'[s] = "recv" /\ bg'[s] = "select"
                       /\ Same(s) /\ SameCall(s) /\ SamePipe(s) /\ gone'[s] = gone[s]
         /\ Disconnect(s) => /\ rpc'[s] = rpc[s] /\ bg'[s] = bg[s] /\ req'[s] = req[s]
                             /\ Same(s) /\ SameCall(s) /\ SamePipe(s) /\ gone'[s]
         /\ RecvErr(s) => /\ rpc[s] = "recv" /\ rpc'[s] = "close" /\ bg'[s] = bg[s]
                          /\ Same(s) /\ SameCall(s) /\ SamePipe(s) /\ gone'[s] = gone[s]
         /\ Answer(s) => /\ rpc[s] = "res" /\ bg[s] = "res" /\ rpc'[s] = "recv" /\ bg'[s] = "select"
                         /\ Same(s) /\ SameCall(s) /\ SamePipe(s) /\ gone'[s] = gone[s]
         /\ Duplicate(s) => /\ rpc[s] = "req" /\ bg[s] = "select" /\ rpc'[s] = "res" /\ bg'[s] = "res"
                            /\ ~req[s].cancel /\ req[s].watch \in DOMAIN watching[s]
                            /\ Same(s) /\ SameCall(s) /\ SamePipe(s) /\ gone'[s] = gone[s]
  BY DEF Shape, Same, SameCall, SamePipe, client, server, Open, Disconnect, RecvErr, Answer,
         Duplicate, TakeRequest, Selects

\* The handler receives a request: the client has asked for it.
LEMMA RecvEffect ==
  ASSUME Shape, NEW s \in Streams, NEW r \in Asks, Recv(s, r)
  PROVE  /\ rpc[s] = "recv" /\ rpc'[s] = "req" /\ req'[s] = r /\ bg'[s] = bg[s]
         /\ asked'[s] = asked[s] + 1 /\ past'[s] = (past[s] \/ r.rev > 0)
         /\ Polite /\ r.cancel => r.watch \in want[s]
         /\ want'[s] = IF r.cancel THEN want[s] \ {r.watch} ELSE want[s] \cup {r.watch}
         /\ Same(s) /\ SamePipe(s) /\ gone'[s] = gone[s]
  BY DEF Shape, Same, SamePipe, Recv

\* Cancelling takes a watch and the subscription recorded with it away.
LEMMA CancelEffect ==
  ASSUME Shape, NEW s \in Streams, Cancel(s)
  PROVE  LET w == req[s].watch
         IN  /\ w \in DOMAIN watching[s] /\ req[s].cancel /\ rpc[s] = "req" /\ bg[s] = "select"
             /\ rpc'[s] = "res" /\ bg'[s] = "res"
             /\ DOMAIN watching'[s] = DOMAIN watching[s] \ {w}
             /\ \A v \in DOMAIN watching'[s] : watching'[s][v] = watching[s][v]
             /\ DOMAIN subs'[s] = DOMAIN subs[s] \ {watching[s][w].id}
             /\ \A n \in DOMAIN subs'[s] : subs'[s][n] = subs[s][n]
             /\ SameCall(s) /\ SamePipe(s) /\ gone'[s] = gone[s]
<1> DEFINE w == req[s].watch
<1>1. /\ watching'[s] = Without(watching[s], w) /\ subs'[s] = Without(subs[s], watching[s][w].id)
      /\ w \in DOMAIN watching[s] /\ req[s].cancel /\ rpc[s] = "req" /\ bg[s] = "select"
      /\ rpc'[s] = "res" /\ bg'[s] = "res"
      /\ SameCall(s) /\ SamePipe(s) /\ gone'[s] = gone[s]
  BY DEF Cancel, TakeRequest, Selects, Shape, SameCall, SamePipe, client
<1> HIDE DEF w
<1>2. /\ DOMAIN Without(watching[s], w) = DOMAIN watching[s] \ {w}
      /\ \A v \in DOMAIN watching[s] : v # w => Without(watching[s], w)[v] = watching[s][v]
  BY DEF Without
<1>3. /\ DOMAIN Without(subs[s], watching[s][w].id) = DOMAIN subs[s] \ {watching[s][w].id}
      /\ \A v \in DOMAIN subs[s] :
           v # watching[s][w].id => Without(subs[s], watching[s][w].id)[v] = subs[s][v]
  BY DEF Without
<1> QED
  BY <1>1, <1>2, <1>3 DEF w

First(s) == IF req[s].rev = 0 THEN Len(log) + 1 ELSE req[s].rev
\* A new watch has a subscription of its own, with the number of its request.
LEMMA StartEffect ==
  ASSUME Shape, NEW s \in Streams, StartWatch(s)
  PROVE  LET w  == req[s].watch
             id == asked[s] - 1
         IN  /\ w \notin DOMAIN watching[s] /\ rpc[s] = "req" /\ bg[s] = "select"
             /\ rpc'[s] = "res" /\ bg'[s] = "res"
             /\ DOMAIN watching'[s] = DOMAIN watching[s] \cup {w}
             /\ watching'[s][w] = [id |-> id, since |-> First(s)]
             /\ \A v \in DOMAIN watching[s] : watching'[s][v] = watching[s][v]
             /\ DOMAIN subs'[s] = DOMAIN subs[s] \cup {id}
             /\ subs'[s][id] = [watch |-> w, first |-> First(s), synced |-> First(s) > Len(log)]
             /\ \A n \in DOMAIN subs[s] : n # id => subs'[s][n] = subs[s][n]
             /\ SameCall(s) /\ SamePipe(s) /\ gone'[s] = gone[s]
<1> DEFINE w     == req[s].watch
           id    == asked[s] - 1
           sub   == [watch |-> w, first |-> First(s), synced |-> First(s) > Len(log)]
           entry == [id |-> id, since |-> First(s)]
<1>1. /\ watching'[s] = With(watching[s], w, entry) /\ subs'[s] = With(subs[s], id, sub)
      /\ w \notin DOMAIN watching[s] /\ rpc[s] = "req" /\ bg[s] = "select"
      /\ rpc'[s] = "res" /\ bg'[s] = "res"
      /\ SameCall(s) /\ SamePipe(s) /\ gone'[s] = gone[s]
  BY DEF StartWatch, TakeRequest, Selects, Shape, SameCall, SamePipe, client, First
<1> HIDE DEF w, id, sub, entry
<1>2. /\ DOMAIN With(watching[s], w, entry) = DOMAIN watching[s] \cup {w}
      /\ With(watching[s], w, entry)[w] = entry
      /\ \A v \in DOMAIN watching[s] : v # w => With(watching[s], w, entry)[v] = watching[s][v]
  BY DEF With
<1>3. /\ DOMAIN With(subs[s], id, sub) = DOMAIN subs[s] \cup {id}
      /\ With(subs[s], id, sub)[id] = sub
      /\ \A v \in DOMAIN subs[s] : v # id => With(subs[s], id, sub)[v] = subs[s][v]
  BY DEF With
<1>4. /\ DOMAIN watching'[s] = DOMAIN watching[s] \cup {w}
      /\ watching'[s][w] = entry
      /\ \A v \in DOMAIN watching[s] : watching'[s][v] = watching[s][v]
      /\ DOMAIN subs'[s] = DOMAIN subs[s] \cup {id}
      /\ subs'[s][id] = sub
      /\ \A n \in DOMAIN subs[s] : n # id => subs'[s][n] = subs[s][n]
  BY <1>1, <1>2, <1>3
<1> QED
  BY <1>1, <1>4 DEF w, id, sub, entry

\* FanOut, Offer and Send move events on; Close takes away what etcd had sent.
LEMMA PipeEffects ==
  ASSUME Shape, NEW s \in Streams
  PROVE  /\ FanOut(s) => /\ out[s] = << >> /\ streamCh[s] # << >>
                         /\ out'[s] = EventCopies(s, Head(streamCh[s]))
                         /\ streamCh'[s] = Tail(streamCh[s]) /\ hand'[s] = hand[s] /\ got'[s] = got[s]
         /\ Offer(s) => /\ out[s] # << >> /\ hand[s] = << >>
                        /\ hand'[s] = <<Head(out[s])>> /\ out'[s] = Tail(out[s])
                        /\ streamCh'[s] = streamCh[s] /\ got'[s] = got[s]
         /\ Send(s) => /\ hand'[s] = << >>
                       /\ got'[s] = IF gone[s] THEN got[s] ELSE got[s] \o hand[s]
                       /\ streamCh'[s] = streamCh[s] /\ out'[s] = out[s]
         /\ FanOut(s) \/ Offer(s) \/ Send(s) =>
              /\ rpc'[s] = rpc[s] /\ bg'[s] = bg[s] /\ req'[s] = req[s] /\ gone'[s] = gone[s]
              /\ Same(s) /\ SameCall(s)
         /\ Close(s) => /\ rpc[s] = "close" /\ rpc'[s] = "done" /\ bg[s] = "select" /\ bg'[s] = "gone"
                        /\ watching'[s] = watching[s] /\ subs'[s] = NoMap
                        /\ streamCh'[s] = << >> /\ out'[s] = out[s] /\ hand'[s] = hand[s]
                        /\ got'[s] = got[s] /\ gone'[s] = gone[s] /\ SameCall(s)
<1> USE DEF Shape, Same, SameCall, client, server, Selects
<1>1. CASE FanOut(s)
  BY <1>1 DEF FanOut, Offer, Send, Close
<1>2. CASE Offer(s)
  BY <1>2 DEF FanOut, Offer, Send, Close
<1>3. CASE Send(s)
  BY <1>3 DEF FanOut, Offer, Send, Close
<1>4. CASE Close(s)
  BY <1>4 DEF FanOut, Offer, Send, Close
<1> QED
  BY <1>1, <1>2, <1>3, <1>4

\* Catching up sends one batch, and changes one subscription.
LEMMA CatchUpEffect ==
  ASSUME Shape, NEW s \in Streams, NEW n \in DOMAIN subs[s], CatchUp(s, n)
  PROVE  /\ rpc'[s] = rpc[s] /\ bg'[s] = bg[s] /\ req'[s] = req[s] /\ gone'[s] = gone[s]
         /\ SameCall(s) /\ watching'[s] = watching[s]
         /\ ~subs[s][n].synced /\ DOMAIN subs'[s] = DOMAIN subs[s]
         /\ \A m \in DOMAIN subs[s] : /\ subs'[s][m].watch = subs[s][m].watch
                                      /\ subs'[s][m].first = subs[s][m].first
                                      /\ m # n => subs'[s][m] = subs[s][m]
         /\ hand'[s] = hand[s] /\ out'[s] = out[s] /\ got'[s] = got[s]
         /\ streamCh'[s] = IF Missed(subs[s][n]) = << >> THEN streamCh[s]
                           ELSE Append(streamCh[s], Missed(subs[s][n]))
<1>1. subs[s] \in Maps(Nat, Subs) /\ subs \in [Streams -> Maps(Nat, Subs)]
      /\ streamCh \in [Streams -> Seq(Seq(Revs))]
  BY DEF Shape
<1>2. /\ subs[s] = [m \in DOMAIN subs[s] |-> subs[s][m]] /\ \A m \in DOMAIN subs[s] : subs[s][m] \in Subs
  BY <1>1, MapsType
<1>3. subs'[s] = [subs[s] EXCEPT ![n].synced = TRUE]
  BY <1>1 DEF CatchUp
<1>4. subs'[s][n] = [subs[s][n] EXCEPT !.synced = TRUE] /\ DOMAIN subs'[s] = DOMAIN subs[s]
      /\ \A m \in DOMAIN subs[s] : m # n => subs'[s][m] = subs[s][m]
  BY <1>2, <1>3
<1>5. subs'[s][n].watch = subs[s][n].watch /\ subs'[s][n].first = subs[s][n].first
  BY <1>2, <1>4 DEF Subs
<1>6. /\ rpc'[s] = rpc[s] /\ bg'[s] = bg[s] /\ req'[s] = req[s] /\ gone'[s] = gone[s]
      /\ SameCall(s) /\ watching'[s] = watching[s] /\ ~subs[s][n].synced
      /\ hand'[s] = hand[s] /\ out'[s] = out[s] /\ got'[s] = got[s]
  BY DEF CatchUp, client, SameCall
<1>7. streamCh'[s] = IF Missed(subs[s][n]) = << >> THEN streamCh[s]
                     ELSE Append(streamCh[s], Missed(subs[s][n]))
  BY <1>1 DEF CatchUp
<1> QED
  BY <1>4, <1>5, <1>6, <1>7

\* The books of a stream: its goroutines, its map, etcd's subscriptions and what
\* the client has asked for.
Books(s) == InStep(s) /\ Numbered(s) /\ Recorded(s) /\ Agreed(s)

\* The types of the entries of both maps.
LEMMA BookTypes ==
  ASSUME Shape, NEW s \in Streams
  PROVE  /\ asked[s] \in Nat /\ DOMAIN watching[s] \subseteq Watches /\ want[s] \subseteq Watches
         /\ \A w \in DOMAIN watching[s] : watching[s][w].id \in Nat /\ watching[s][w].since \in Nat \ {0}
         /\ DOMAIN subs[s] \subseteq Nat
<1>1. /\ DOMAIN watching[s] \subseteq Watches
      /\ \A w \in DOMAIN watching[s] : watching[s][w] \in Entries
      /\ DOMAIN subs[s] \subseteq Nat
  BY MapsType DEF Shape
<1> QED
  BY <1>1, AsksAssumption DEF Shape, Entries

\* The books are kept if nobody writes them.
LEMMA SameBooks ==
  ASSUME NEW s \in Streams, Books(s), Same(s), SameCall(s),
         rpc'[s] = rpc[s], bg'[s] = bg[s], req'[s] = req[s]
  PROVE  Books(s)'
<1>1. InStep(s)'
  BY DEF Books, InStep, SameCall
<1>2. Numbered(s)'
  BY DEF Books, Numbered, Taken, Same, SameCall
<1>3. Recorded(s)'
  BY DEF Books, Recorded, Runs, Ids, Same
<1>4. Agreed(s)'
  BY DEF Books, Agreed, AsksFor, Same, SameCall
<1> QED
  BY <1>1, <1>2, <1>3, <1>4 DEF Books

\* ... when the handler starts, fails or is answered, and when the client goes.
LEMMA QuietBooks ==
  ASSUME Shape, NEW s \in Streams, Books(s),
         Open(s) \/ Disconnect(s) \/ RecvErr(s) \/ Answer(s) \/ Duplicate(s)
  PROVE  Books(s)'
<1>0. asked[s] \in Nat /\ \A w \in DOMAIN watching[s] : watching[s][w].id \in Nat
  BY BookTypes
<1>1. CASE Open(s)
  <2> USE DEF Books, InStep, Numbered, Recorded, Agreed, Taken, Ids, AsksFor, Runs, Same, SameCall
  <2> QED
    BY <1>0, <1>1, QuietEffects
<1>2. CASE Disconnect(s)
  BY <1>2, QuietEffects, SameBooks
<1>3. CASE RecvErr(s) \/ Answer(s) \/ Duplicate(s)
  <2>1. /\ Same(s) /\ SameCall(s) /\ Runs(s) /\ Runs(s)' /\ bg'[s] # "none" /\ rpc'[s] # "req"
        /\ rpc'[s] \in {"close", "recv", "res"} /\ (rpc'[s] = "res" <=> bg'[s] = "res")
        /\ bg'[s] \in {"select", "res"}
        /\ rpc[s] = "req" => ~req[s].cancel /\ req[s].watch \in DOMAIN watching[s]
    BY <1>3, QuietEffects DEF Runs, Books, InStep, Shape
  <2>2. InStep(s)'
    BY <2>1 DEF InStep
  <2>3. Taken(s) \in Int /\ Taken(s) <= Taken(s)' /\ Taken(s)' \in Int
    BY <1>0, <2>1 DEF Taken, SameCall
  <2>4. Numbered(s)'
    BY <1>0, <2>1, <2>3 DEF Books, Numbered, Same
  <2>5. Recorded(s)'
    BY <2>1 DEF Books, Recorded, Ids, Same
  <2>6. Agreed(s)'
    BY <2>1 DEF Books, Agreed, AsksFor, Same, SameCall
  <2> QED
    BY <2>2, <2>4, <2>5, <2>6 DEF Books
<1> QED
  BY <1>1, <1>2, <1>3

\* ... when a request comes in: what is asked for is what will be watched.
LEMMA RecvBooks ==
  ASSUME Shape, NEW s \in Streams, Books(s), NEW r \in Asks, Recv(s, r)
  PROVE  Books(s)'
<1>0. asked[s] \in Nat /\ \A w \in DOMAIN watching[s] : watching[s][w].id \in Nat
  BY BookTypes
<1>a. /\ rpc[s] = "recv" /\ rpc'[s] = "req" /\ req'[s] = r /\ bg'[s] = bg[s]
      /\ asked'[s] = asked[s] + 1 /\ Same(s)
  BY RecvEffect
<1>1. InStep(s)'
  BY <1>0, <1>a DEF Books, InStep
<1>2. Numbered(s)'
  <2>1. Taken(s)' = Taken(s)
    BY <1>0, <1>a DEF Taken
  <2> QED
    BY <1>0, <1>a, <2>1 DEF Books, Numbered, Same
<1>3. Recorded(s)'
  BY <1>a DEF Books, Recorded, Ids, Runs, Same
<1>4. Agreed(s)'
  BY RecvEffect DEF Books, Agreed, AsksFor, Same
<1> QED
  BY <1>1, <1>2, <1>3, <1>4 DEF Books

\* ... when a watch is cancelled: its subscription goes with it and, as ids are
\* distinct, no other.
LEMMA CancelBooks ==
  ASSUME Shape, NEW s \in Streams, Books(s), Cancel(s)
  PROVE  Books(s)'
<1> DEFINE w == req[s].watch
<1>1. /\ w \in DOMAIN watching[s] /\ req[s].cancel /\ rpc[s] = "req" /\ bg[s] = "select"
      /\ rpc'[s] = "res" /\ bg'[s] = "res"
      /\ DOMAIN watching'[s] = DOMAIN watching[s] \ {w}
      /\ \A v \in DOMAIN watching'[s] : watching'[s][v] = watching[s][v]
      /\ DOMAIN subs'[s] = DOMAIN subs[s] \ {watching[s][w].id}
      /\ \A n \in DOMAIN subs'[s] : subs'[s][n] = subs[s][n]
      /\ asked'[s] = asked[s] /\ want'[s] = want[s]
      /\ asked[s] \in Nat /\ \A v \in DOMAIN watching[s] : watching[s][v].id \in Nat
  BY CancelEffect, BookTypes DEF SameCall
<1>2. InStep(s)'
  BY <1>1 DEF Books, InStep
<1>3. Agreed(s)'
  BY <1>1 DEF Books, Agreed, AsksFor
<1> HIDE DEF w
<1>4. IsFiniteSet(DOMAIN watching'[s]) /\ IsFiniteSet(DOMAIN subs'[s])
  BY <1>1, FS_Subset DEF Books, Numbered
<1>5. Numbered(s)'
  BY <1>1, <1>4 DEF Books, Numbered, Taken
<1>6. \A v \in DOMAIN watching'[s] : watching[s][v].id # watching[s][w].id
  BY <1>1 DEF Books, Numbered
<1>7. DOMAIN subs'[s] = Ids(s)'
  BY <1>1, <1>6 DEF Books, Recorded, Runs, Ids
<1>8. \A v \in DOMAIN watching'[s] : LET m == watching'[s][v] IN
        subs'[s][m.id].watch = v /\ subs'[s][m.id].first = m.since
  BY <1>1, <1>7 DEF Books, Recorded, Runs, Ids
<1>9. Recorded(s)'
  BY <1>1, <1>7, <1>8 DEF Recorded, Runs
<1> QED
  BY <1>2, <1>3, <1>5, <1>9 DEF Books

\* ... when a watch is added: its id is newer than all those in use.
LEMMA StartBooks ==
  ASSUME WatchInv, NEW s \in Streams, Books(s), StartWatch(s)
  PROVE  Books(s)'
<1> DEFINE w  == req[s].watch
           id == asked[s] - 1
<1>1. /\ w \notin DOMAIN watching[s] /\ rpc[s] = "req" /\ bg[s] = "select"
      /\ rpc'[s] = "res" /\ bg'[s] = "res"
      /\ DOMAIN watching'[s] = DOMAIN watching[s] \cup {w}
      /\ watching'[s][w] = [id |-> id, since |-> First(s)]
      /\ \A v \in DOMAIN watching[s] : watching'[s][v] = watching[s][v]
      /\ DOMAIN subs'[s] = DOMAIN subs[s] \cup {id}
      /\ subs'[s][id] = [watch |-> w, first |-> First(s), synced |-> First(s) > Len(log)]
      /\ \A n \in DOMAIN subs[s] : n # id => subs'[s][n] = subs[s][n]
      /\ asked'[s] = asked[s] /\ want'[s] = want[s]
      /\ asked[s] \in Nat /\ \A v \in DOMAIN watching[s] : watching[s][v].id \in Nat
  BY StartEffect, BookTypes DEF SameCall, WatchInv
<1>2. InStep(s)'
  BY <1>1 DEF Books, InStep
<1>3. Agreed(s)'
  BY <1>1 DEF Books, Agreed, AsksFor
<1>4. IsFiniteSet(DOMAIN watching'[s]) /\ IsFiniteSet(DOMAIN subs'[s])
  <2>1. IsFiniteSet(DOMAIN watching[s]) /\ IsFiniteSet(DOMAIN subs[s])
    BY DEF Books, Numbered
  <2>2. IsFiniteSet(DOMAIN watching[s] \cup {w}) /\ IsFiniteSet(DOMAIN subs[s] \cup {id})
    BY <2>1, FS_AddElement
  <2> QED
    BY <1>1, <2>2
<1>5. id \in Int /\ \A v \in DOMAIN watching[s] : watching[s][v].id < id
  BY <1>1 DEF Books, Numbered, Taken
<1>6. id < asked[s]
  BY <1>1
<1>7. watching'[s][w].id = id /\ watching'[s][w].since = First(s)
  BY <1>1
<1> HIDE DEF w, id
<1>8. \A v \in DOMAIN watching'[s] : watching'[s][v].id < asked'[s]
  BY <1>1, <1>5, <1>6, <1>7
<1>9. \A u, v \in DOMAIN watching'[s] : watching'[s][u].id = watching'[s][v].id => u = v
  BY <1>1, <1>5, <1>7 DEF Books, Numbered
<1>10. Numbered(s)'
  BY <1>1, <1>4, <1>8, <1>9 DEF Numbered, Taken
<1>11. DOMAIN subs'[s] = Ids(s)'
  BY <1>1, <1>7 DEF Books, Recorded, Runs, Ids
<1>12. \A v \in DOMAIN watching'[s] : LET m == watching'[s][v] IN
        subs'[s][m.id].watch = v /\ subs'[s][m.id].first = m.since
  <2>1. ASSUME NEW v \in DOMAIN watching[s]
        PROVE  /\ subs'[s][watching'[s][v].id].watch = v
               /\ subs'[s][watching'[s][v].id].first = watching'[s][v].since
    <3>1. watching[s][v].id \in DOMAIN subs[s] /\ watching[s][v].id # id
      BY <1>1, <1>5 DEF Books, Recorded, Runs, Ids
    <3> QED
      BY <1>1, <3>1 DEF Books, Recorded, Runs
  <2>2. subs'[s][id].watch = w /\ subs'[s][id].first = First(s)
    BY <1>1
  <2> QED
    BY <1>1, <1>7, <2>1, <2>2
<1>13. Recorded(s)'
  BY <1>1, <1>11, <1>12 DEF Recorded, Runs
<1> QED
  BY <1>2, <1>3, <1>10, <1>13 DEF Books

\* ... when events move on, and when all subscriptions end with the watcher.
LEMMA PipeBooks ==
  ASSUME Shape, NEW s \in Streams, Books(s), FanOut(s) \/ Offer(s) \/ Send(s) \/ Close(s)
  PROVE  Books(s)'
<1>1. CASE FanOut(s) \/ Offer(s) \/ Send(s)
  BY <1>1, PipeEffects, SameBooks
<1>2. CASE Close(s)
  <2>1. /\ rpc[s] = "close" /\ rpc'[s] = "done" /\ bg[s] = "select" /\ bg'[s] = "gone"
        /\ watching'[s] = watching[s] /\ DOMAIN subs'[s] = {} /\ SameCall(s)
    BY <1>2, PipeEffects, EmptyMap
  <2>2. InStep(s)'
    BY <2>1 DEF Books, InStep
  <2>3. Numbered(s)'
    <3>1. IsFiniteSet(DOMAIN subs'[s])
      BY <2>1, FS_EmptySet
    <3> QED
      BY <2>1, <3>1 DEF Books, Numbered, Taken, SameCall
  <2>4. Recorded(s)'
    BY <2>1 DEF Recorded, Runs
  <2>5. Agreed(s)'
    BY <2>1 DEF Books, Agreed, AsksFor, SameCall
  <2> QED
    BY <2>2, <2>3, <2>4, <2>5 DEF Books
<1> QED
  BY <1>1, <1>2

\* ... when a subscription catches up.
LEMMA CatchUpBooks ==
  ASSUME Shape, NEW s \in Streams, Books(s), NEW n \in DOMAIN subs[s], CatchUp(s, n)
  PROVE  Books(s)'
<1>1. /\ rpc'[s] = rpc[s] /\ bg'[s] = bg[s] /\ req'[s] = req[s] /\ SameCall(s)
      /\ watching'[s] = watching[s] /\ DOMAIN subs'[s] = DOMAIN subs[s]
      /\ \A m \in DOMAIN subs[s] : /\ subs'[s][m].watch = subs[s][m].watch
                                   /\ subs'[s][m].first = subs[s][m].first
  BY CatchUpEffect
<1>2. InStep(s)'
  BY <1>1 DEF Books, InStep, SameCall
<1>3. Numbered(s)'
  BY <1>1 DEF Books, Numbered, Taken, SameCall
<1>4. Agreed(s)'
  BY <1>1 DEF Books, Agreed, AsksFor, SameCall
<1>5. Recorded(s)'
  BY <1>1 DEF Books, Recorded, Runs, Ids
<1> QED
  BY <1>2, <1>3, <1>4, <1>5 DEF Books

\* ... by every step.
LEMMA BooksStep ==
  ASSUME WatchInv, NEW s \in Streams, StreamStep(s)
  PROVE  Books(s)'
<1>1. Shape /\ Books(s)
  BY DEF WatchInv, StreamInv, Books
<1> QED
  BY <1>1, QuietBooks, RecvBooks, CancelBooks, StartBooks, PipeBooks, CatchUpBooks DEF StreamStep

\* What a step puts into or takes out of what is on its way.
LEMMA SendCarries ==
  ASSUME Shape, NEW s \in Streams, Send(s)
  PROVE  /\ \A j : Carried(s, j)' => Carried(s, j)
         /\ ~gone[s] => \A j : Carried(s, j) => Carried(s, j)'
<1>1. /\ hand'[s] = << >> /\ got'[s] = IF gone[s] THEN got[s] ELSE got[s] \o hand[s]
      /\ streamCh'[s] = streamCh[s] /\ out'[s] = out[s]
  BY PipeEffects
<1>2. ToSet(got[s] \o hand[s]) = ToSet(got[s]) \cup ToSet(hand[s]) /\ ToSet(<< >>) = {}
  BY JoinSets, SetOfSmall DEF Shape
<1>3. CASE gone[s]
  BY <1>1, <1>2, <1>3 DEF Carried
<1>4. CASE ~gone[s]
  <2>1. ToSet(got'[s]) = ToSet(got[s]) \cup ToSet(hand[s]) /\ ToSet(hand'[s]) = {}
    BY <1>1, <1>2, <1>4
  <2> QED
    BY <1>1, <1>4, <2>1 DEF Carried
<1> QED
  BY <1>3, <1>4

\* A copy that the sender takes is not lost.
LEMMA OfferCarries ==
  ASSUME Shape, NEW s \in Streams, Offer(s)
  PROVE  \A j : Carried(s, j)' <=> Carried(s, j)
<1>1. /\ out[s] # << >> /\ hand[s] = << >> /\ hand'[s] = <<Head(out[s])>> /\ out'[s] = Tail(out[s])
      /\ streamCh'[s] = streamCh[s] /\ got'[s] = got[s]
  BY PipeEffects
<1>2. out[s] \in Seq(Revs)
  BY DEF Shape
<1>3. \A j : j \in ToSet(out[s]) <=> j = Head(out[s]) \/ j \in ToSet(Tail(out[s]))
  BY <1>1, <1>2, SetOfTail
<1>4. ToSet(hand'[s]) = {Head(out[s])} /\ ToSet(hand[s]) = {}
  BY <1>1, SetOfSmall
<1> QED
  BY <1>1, <1>3, <1>4 DEF Carried

\* The first batch of etcd's channel, and the others.
LEMMA StreamTail ==
  ASSUME Shape, NEW s \in Streams, streamCh[s] # << >>
  PROVE  /\ Head(streamCh[s]) \in Seq(Revs) /\ Tail(streamCh[s]) \in Seq(Seq(Revs))
         /\ Len(streamCh[s]) \in Nat /\ Len(Tail(streamCh[s])) = Len(streamCh[s]) - 1
         /\ \A i \in 1 .. Len(Tail(streamCh[s])) : Tail(streamCh[s])[i] = streamCh[s][i + 1]
         /\ Head(streamCh[s]) = streamCh[s][1] /\ 1 \in 1 .. Len(streamCh[s])
<1>1. streamCh[s] \in Seq(Seq(Revs))
  BY DEF Shape
<1> QED
  BY <1>1, SetOfTail, SetOfSeq

\* Taking a batch from etcd loses no event that a watch of the stream asks for:
\* there is a copy for each.
LEMMA FanOutCarries ==
  ASSUME Shape, NEW s \in Streams, Numbered(s), FanOut(s)
  PROVE  /\ \A j : Carried(s, j)' => Carried(s, j)
         /\ \A w \in DOMAIN watching[s] : \A j : Matches(w, log[j]) /\ Carried(s, j) => Carried(s, j)'
<1> DEFINE b == Head(streamCh[s])
           t == Tail(streamCh[s])
<1>1. /\ out[s] = << >> /\ streamCh[s] # << >> /\ out'[s] = EventCopies(s, b)
      /\ streamCh'[s] = t /\ hand'[s] = hand[s] /\ got'[s] = got[s]
  BY PipeEffects
<1>2. /\ b \in Seq(Revs) /\ Len(streamCh[s]) \in Nat /\ Len(t) = Len(streamCh[s]) - 1
      /\ \A i \in 1 .. Len(t) : t[i] = streamCh[s][i + 1]
      /\ b = streamCh[s][1] /\ 1 \in 1 .. Len(streamCh[s])
  BY <1>1, StreamTail
<1> HIDE DEF b, t
<1>3. /\ ToSet(EventCopies(s, b)) \subseteq ToSet(b)
      /\ \A w \in DOMAIN watching[s], j \in ToSet(b) :
           Matches(w, log[j]) => j \in ToSet(EventCopies(s, b))
  BY <1>2, EventCopiesOf DEF Numbered
<1>4. ToSet(out[s]) = {}
  BY <1>1, SetOfSmall
<1>5. ASSUME NEW j, Carried(s, j)' PROVE Carried(s, j)
  <2>1. CASE j \in ToSet(got'[s]) \/ j \in ToSet(hand'[s])
    BY <1>1, <2>1 DEF Carried
  <2>2. CASE j \in ToSet(out'[s])
    BY <1>1, <1>2, <1>3, <2>2 DEF Carried
  <2>3. ASSUME NEW i \in 1 .. Len(t), j \in ToSet(t[i]) PROVE Carried(s, j)
    <3>1. i + 1 \in 1 .. Len(streamCh[s]) /\ j \in ToSet(streamCh[s][i + 1])
      BY <1>2, <2>3
    <3> QED
      BY <3>1 DEF Carried
  <2> QED
    BY <1>1, <1>5, <2>1, <2>2, <2>3 DEF Carried
<1>6. ASSUME NEW w \in DOMAIN watching[s], NEW j, Matches(w, log[j]), Carried(s, j)
      PROVE  Carried(s, j)'
  <2>1. CASE j \in ToSet(got[s]) \/ j \in ToSet(hand[s])
    BY <1>1, <2>1 DEF Carried
  <2>2. ASSUME NEW i \in 1 .. Len(streamCh[s]), j \in ToSet(streamCh[s][i]) PROVE Carried(s, j)'
    <3>1. CASE i = 1
      <4>1. j \in ToSet(out'[s])
        BY <1>1, <1>2, <1>3, <1>6, <2>2, <3>1
      <4> QED
        BY <4>1 DEF Carried
    <3>2. CASE i # 1
      <4>1. i - 1 \in 1 .. Len(t) /\ (i - 1) + 1 = i
        BY <1>2, <3>2
      <4>2. j \in ToSet(t[i - 1])
        BY <1>2, <2>2, <4>1
      <4> QED
        BY <1>1, <4>1, <4>2 DEF Carried
    <3> QED
      BY <3>1, <3>2
  <2> QED
    BY <1>4, <1>6, <2>1, <2>2 DEF Carried
<1> QED
  BY <1>5, <1>6

\* Catching up adds what the subscription has missed.
LEMMA CatchUpCarries ==
  ASSUME Shape, NEW s \in Streams, NEW n \in DOMAIN subs[s], CatchUp(s, n)
  PROVE  \A j : Carried(s, j)' <=>
           \/ Carried(s, j)
           \/ /\ j \in 1 .. Len(log) /\ j >= subs[s][n].first
              /\ log[j] \in EtcdRange[subs[s][n].watch]
<1> DEFINE m == Missed(subs[s][n])
<1>1. /\ hand'[s] = hand[s] /\ out'[s] = out[s] /\ got'[s] = got[s]
      /\ streamCh'[s] = IF m = << >> THEN streamCh[s] ELSE Append(streamCh[s], m)
  BY CatchUpEffect
<1>2. subs[s][n] \in Subs /\ streamCh[s] \in Seq(Seq(Revs))
  BY MapsType DEF Shape
<1>3. /\ m \in Seq(Revs)
      /\ \A j : j \in ToSet(m) <=> /\ j \in 1 .. Len(log) /\ j >= subs[s][n].first
                                   /\ log[j] \in EtcdRange[subs[s][n].watch]
  BY <1>2, MissedBy DEF Shape
<1> HIDE DEF m
<1>4. CASE m = << >>
  <2>1. ToSet(m) = {}
    BY <1>4, SetOfSmall
  <2> QED
    BY <1>1, <1>3, <1>4, <2>1 DEF Carried
<1>5. CASE m # << >>
  <2>1. /\ Len(streamCh'[s]) = Len(streamCh[s]) + 1 /\ Len(streamCh[s]) \in Nat
        /\ \A i \in 1 .. Len(streamCh[s]) : streamCh'[s][i] = streamCh[s][i]
        /\ streamCh'[s][Len(streamCh[s]) + 1] = m
    BY <1>1, <1>2, <1>3, <1>5, SetOfAppend, SetOfSeq
  <2>2. \A i : i \in 1 .. Len(streamCh'[s]) <=> i \in 1 .. Len(streamCh[s]) \/ i = Len(streamCh[s]) + 1
    BY <2>1
  <2>3. ASSUME NEW j
        PROVE  (\E i \in 1 .. Len(streamCh'[s]) : j \in ToSet(streamCh'[s][i])) <=>
               (\E i \in 1 .. Len(streamCh[s]) : j \in ToSet(streamCh[s][i])) \/ j \in ToSet(m)
    BY <2>1, <2>2
  <2> QED
    BY <1>1, <1>3, <2>3 DEF Carried
<1> QED
  BY <1>4, <1>5

\* A change reaches every stream that has a subscription for it.
Reached(s, k) == {n \in DOMAIN subs[s] : Receives(subs[s][n], k)}
\* One batch with the new revision for each subscription that is reached.
LEMMA ChangeEffect ==
  ASSUME Shape, NEW k \in Keys, Change(k), NEW s \in Streams, Numbered(s)
  PROVE  LET c == Cardinality(Reached(s, k))
             l == Len(streamCh[s])
         IN  /\ log' = Append(log, k) /\ Len(log) \in Nat /\ Len(log') = Len(log) + 1
             /\ \A j \in 1 .. Len(log) : log'[j] = log[j]
             /\ log'[Len(log) + 1] = k
             /\ rpc'[s] = rpc[s] /\ bg'[s] = bg[s] /\ req'[s] = req[s]
             /\ Same(s) /\ SameCall(s) /\ gone'[s] = gone[s]
             /\ out'[s] = out[s] /\ hand'[s] = hand[s] /\ got'[s] = got[s]
             /\ c \in Nat /\ l \in Nat /\ Len(streamCh'[s]) = l + c /\ Len(log) + 1 \in Revs
             /\ \A i \in 1 .. l : streamCh'[s][i] = streamCh[s][i]
             /\ \A i \in 1 .. l + c : i > l => streamCh'[s][i] = <<Len(log) + 1>>
             /\ Reached(s, k) # {} => c # 0
<1> DEFINE c == Cardinality(Reached(s, k))
           l == Len(streamCh[s])
           x == <<Len(log) + 1>>
           more == [i \in 1 .. c |-> x]
<1>1. /\ log' = Append(log, k) /\ Len(log) \in Nat /\ Len(log') = Len(log) + 1
      /\ \A j \in 1 .. Len(log) : log'[j] = log[j]
      /\ log'[Len(log) + 1] = k
  BY SetOfAppend, SetOfSeq DEF Change, Shape
<1>2. /\ rpc'[s] = rpc[s] /\ bg'[s] = bg[s] /\ req'[s] = req[s]
      /\ Same(s) /\ SameCall(s) /\ gone'[s] = gone[s]
      /\ out'[s] = out[s] /\ hand'[s] = hand[s] /\ got'[s] = got[s]
  BY DEF Change, Same, SameCall, client
<1>3. IsFiniteSet(Reached(s, k))
  BY FS_Subset DEF Reached, Numbered
<1>4. c \in Nat /\ (Reached(s, k) # {} => c # 0)
  BY <1>3, FS_CardinalityType, FS_EmptySet
<1>5. Len(log) + 1 \in Revs
  BY <1>1, AsksAssumption DEF Change, Revs
<1>6. streamCh'[s] = streamCh[s] \o more
  BY DEF Change, Reached
<1>7. x \in Seq(Revs)
  BY <1>5, SetOfSmall
<1> HIDE DEF c, x
<1>8. more \in Seq(Seq(Revs)) /\ Len(more) = c /\ \A i \in 1 .. c : more[i] = x
  <2>1. more \in Seq(Seq(Revs)) /\ Len(more) = c
    BY <1>4, <1>7, ConstantSeq
  <2> QED
    BY <2>1
<1> HIDE DEF more
<1>9. /\ l \in Nat /\ Len(streamCh'[s]) = l + c
      /\ \A i \in 1 .. l + c : streamCh'[s][i] = IF i <= l THEN streamCh[s][i] ELSE more[i - l]
  BY <1>6, <1>8, ConcatProperties, LenProperties DEF Shape
<1> HIDE DEF l
<1>10. ASSUME NEW i \in 1 .. l + c, i > l PROVE streamCh'[s][i] = x
  <2>1. i - l \in 1 .. c /\ ~(i <= l)
    BY <1>4, <1>9, <1>10
  <2> QED
    BY <1>8, <1>9, <2>1
<1>11. ASSUME NEW i \in 1 .. l PROVE streamCh'[s][i] = streamCh[s][i]
  BY <1>4, <1>9
<1> QED
  BY <1>1, <1>2, <1>4, <1>5, <1>9, <1>10, <1>11 DEF c, l, x

\* A change adds its revision, if a subscription is reached, and loses nothing.
LEMMA ChangeCarries ==
  ASSUME Shape, NEW k \in Keys, Change(k), NEW s \in Streams, Numbered(s)
  PROVE  /\ \A j : Carried(s, j) => Carried(s, j)'
         /\ \A j : Carried(s, j)' => Carried(s, j) \/ j = Len(log) + 1
         /\ Reached(s, k) # {} => \A j : j = Len(log) + 1 => Carried(s, j)'
<1> DEFINE c == Cardinality(Reached(s, k))
           l == Len(streamCh[s])
           x == Len(log) + 1
<1>1. /\ out'[s] = out[s] /\ hand'[s] = hand[s] /\ got'[s] = got[s]
      /\ c \in Nat /\ l \in Nat /\ Len(streamCh'[s]) = l + c
      /\ \A i \in 1 .. l : streamCh'[s][i] = streamCh[s][i]
      /\ \A i \in 1 .. l + c : i > l => streamCh'[s][i] = <<x>>
      /\ Reached(s, k) # {} => c # 0
  BY ChangeEffect
<1> HIDE DEF c, x
<1>2. ASSUME NEW j, Carried(s, j) PROVE Carried(s, j)'
  <2>1. \A i \in 1 .. l : i \in 1 .. l + c
    BY <1>1
  <2> QED
    BY <1>1, <1>2, <2>1 DEF Carried
<1>3. ASSUME NEW j, Carried(s, j)' PROVE Carried(s, j) \/ j = x
  <2>1. CASE j \in ToSet(got[s]) \/ j \in ToSet(hand[s]) \/ j \in ToSet(out[s])
    BY <2>1 DEF Carried
  <2>2. ASSUME NEW i \in 1 .. l + c, j \in ToSet(streamCh'[s][i]) PROVE Carried(s, j) \/ j = x
    <3>1. CASE i <= l
      <4>1. i \in 1 .. l
        BY <1>1, <3>1
      <4> QED
        BY <1>1, <2>2, <4>1 DEF Carried
    <3>2. CASE ~(i <= l)
      <4>1. i > l
        BY <1>1, <3>2
      <4>2. j \in ToSet(<<x>>)
        BY <1>1, <2>2, <4>1
      <4> QED
        BY <4>2, SetOfSmall
    <3> QED
      BY <3>1, <3>2
  <2> QED
    BY <1>1, <1>3, <2>1, <2>2 DEF Carried
<1>4. ASSUME c # 0, NEW j, j = x PROVE Carried(s, j)'
  <2>1. l + 1 \in 1 .. l + c /\ l + 1 > l
    BY <1>1, <1>4
  <2>a. streamCh'[s][l + 1] = <<x>>
    BY <1>1, <2>1
  <2>2. j \in ToSet(streamCh'[s][l + 1])
    BY <1>4, <2>a, SetOfSmall
  <2> QED
    BY <1>1, <2>1, <2>2 DEF Carried
<1> QED
  BY <1>1, <1>2, <1>3, <1>4 DEF x

\* A watch w of stream s has no gap.
Seen(s, w) ==
  LET m == watching[s][w]
  IN  subs[s][m.id].synced =>
        \A j \in m.since .. Len(log) : Expected(w, log[j]) => Carried(s, j)

\* A watch that was there before goes on without a gap when nothing it has asked
\* for gets lost.
LEMMA SeenKept ==
  ASSUME NEW s \in Streams, NEW w, Seen(s, w), log' = log,
         watching'[s][w] = watching[s][w],
         subs'[s][watching[s][w].id].synced => subs[s][watching[s][w].id].synced,
         \A j : Matches(w, log[j]) /\ Carried(s, j) => Carried(s, j)'
  PROVE  Seen(s, w)'
<1>1. SUFFICES ASSUME subs'[s][watching[s][w].id].synced,
                      NEW j \in watching[s][w].since .. Len(log), Expected(w, log[j])
               PROVE  Carried(s, j)'
  BY DEF Seen, Expected, Matches
<1> QED
  BY <1>1 DEF Seen, Expected

\* No step of a stream loses an event that one of its watches asks for.
LEMMA CoveredStep ==
  ASSUME WatchInv, NEW s \in Streams, StreamStep(s)
  PROVE  Covered(s)'
<1>0. /\ Shape /\ InStep(s) /\ Numbered(s) /\ Recorded(s) /\ log' = log
      /\ Live(s) => \A w \in DOMAIN watching[s] : Seen(s, w)
      /\ asked[s] \in Nat /\ Len(log) \in Nat
      /\ \A w \in DOMAIN watching[s] : watching[s][w].id \in Nat
  BY Frame, BookTypes, SetOfSeq DEF WatchInv, StreamInv, Covered, Seen, Shape
<1>1. SUFFICES ASSUME Live(s)', NEW w \in DOMAIN watching'[s]
               PROVE  Seen(s, w)'
  BY DEF Covered, Seen
<1>2. CASE Open(s)
  <2>1. DOMAIN watching'[s] = {}
    BY <1>0, <1>2, QuietEffects DEF InStep, Numbered, Same
  <2> QED
    BY <1>1, <2>1
<1>3. CASE Disconnect(s)
  BY <1>1, <1>3, <1>0, QuietEffects DEF Live
<1>4. CASE RecvErr(s) \/ Answer(s) \/ Duplicate(s)
  <2>1. Live(s) /\ Same(s) /\ SamePipe(s)
    BY <1>0, <1>1, <1>4, QuietEffects DEF Live
  <2>2. \A j : Carried(s, j) => Carried(s, j)'
    BY <2>1 DEF Carried, SamePipe
  <2> QED
    BY <1>0, <1>1, <2>1, <2>2, SeenKept DEF Same
<1>5. CASE \E r \in Asks : Recv(s, r)
  <2>1. Live(s) /\ Same(s) /\ SamePipe(s)
    BY <1>0, <1>1, <1>5, RecvEffect DEF Live
  <2>2. \A j : Carried(s, j) => Carried(s, j)'
    BY <2>1 DEF Carried, SamePipe
  <2> QED
    BY <1>0, <1>1, <2>1, <2>2, SeenKept DEF Same
<1>6. CASE Cancel(s)
  <2>1. Runs(s) /\ Runs(s)' /\ Live(s) /\ SamePipe(s) /\ w \in DOMAIN watching[s]
        /\ watching'[s][w] = watching[s][w]
        /\ \A n \in DOMAIN subs'[s] : subs'[s][n] = subs[s][n]
    BY <1>0, <1>1, <1>6, CancelEffect DEF Live, Runs
  <2>2. watching[s][w].id \in DOMAIN subs'[s]
    <3>1. Recorded(s)'
      BY <1>6, BooksStep DEF StreamStep, Books
    <3> QED
      BY <1>1, <2>1, <3>1 DEF Recorded, Ids
  <2>3. \A j : Carried(s, j) => Carried(s, j)'
    BY <2>1 DEF Carried, SamePipe
  <2> QED
    BY <1>0, <2>1, <2>2, <2>3, SeenKept
<1>7. CASE StartWatch(s)
  <2> DEFINE v  == req[s].watch
             id == asked[s] - 1
  <2>1. /\ v \notin DOMAIN watching[s] /\ rpc[s] = "req" /\ Live(s) /\ Runs(s) /\ SamePipe(s)
        /\ DOMAIN watching'[s] = DOMAIN watching[s] \cup {v}
        /\ watching'[s][v] = [id |-> id, since |-> First(s)]
        /\ \A u \in DOMAIN watching[s] : watching'[s][u] = watching[s][u]
        /\ subs'[s][id] = [watch |-> v, first |-> First(s), synced |-> First(s) > Len(log)]
        /\ \A n \in DOMAIN subs[s] : n # id => subs'[s][n] = subs[s][n]
    BY <1>0, <1>1, <1>7, StartEffect DEF Live, Runs
  <2>2. First(s) \in Nat
    BY <1>7, NewWatch DEF First
  <2> HIDE DEF v
  <2>3. CASE w = v
    <3>1. watching'[s][w].id = id /\ watching'[s][w].since = First(s)
      BY <2>1, <2>3
    <3>a. subs'[s][id].synced = (First(s) > Len(log))
      BY <2>1
    <3>2. subs'[s][id].synced => \A j : j \notin First(s) .. Len(log')
      <4>1. ASSUME subs'[s][id].synced PROVE First(s) > Len(log)
        BY <3>a, <4>1, Zenon
      <4>2. Len(log') = Len(log)
        BY <1>0
      <4>3. First(s) > Len(log) => \A j : j \notin First(s) .. Len(log)
        BY <1>0, <2>2
      <4> QED
        BY <4>1, <4>2, <4>3, Zenon
    <3> QED
      BY <3>1, <3>2 DEF Seen
  <2>4. CASE w # v
    <3>1. /\ w \in DOMAIN watching[s] /\ watching[s][w].id \in DOMAIN subs[s]
          /\ watching[s][w].id # id
      BY <1>0, <1>1, <2>1, <2>4 DEF Recorded, Ids, Numbered, Taken
    <3>2. \A j : Carried(s, j) => Carried(s, j)'
      BY <2>1 DEF Carried, SamePipe
    <3> QED
      BY <1>0, <2>1, <3>1, <3>2, SeenKept
  <2> QED
    BY <2>3, <2>4
<1>8. CASE FanOut(s)
  <2>1. Live(s) /\ Same(s)
    BY <1>0, <1>1, <1>8, PipeEffects DEF Live
  <2> QED
    BY <1>0, <1>1, <1>8, <2>1, FanOutCarries, SeenKept DEF Same
<1>9. CASE Offer(s)
  <2>1. Live(s) /\ Same(s)
    BY <1>0, <1>1, <1>9, PipeEffects DEF Live
  <2> QED
    BY <1>0, <1>1, <1>9, <2>1, OfferCarries, SeenKept DEF Same
<1>10. CASE Send(s)
  <2>1. Live(s) /\ Same(s) /\ ~gone[s]
    BY <1>0, <1>1, <1>10, PipeEffects DEF Live
  <2> QED
    BY <1>0, <1>1, <1>10, <2>1, SendCarries, SeenKept DEF Same
<1>11. CASE Close(s)
  BY <1>0, <1>1, <1>11, PipeEffects DEF Live
<1>12. ASSUME NEW n \in DOMAIN subs[s], CatchUp(s, n) PROVE Seen(s, w)'
  <2>1. /\ Live(s) /\ Runs(s) /\ watching'[s] = watching[s]
        /\ \A m \in DOMAIN subs[s] : m # n => subs'[s][m] = subs[s][m]
    BY <1>0, <1>1, <1>12, CatchUpEffect DEF Live, Runs
  <2>2. \A j : Carried(s, j)' <=>
           \/ Carried(s, j)
           \/ /\ j \in 1 .. Len(log) /\ j >= subs[s][n].first
              /\ log[j] \in EtcdRange[subs[s][n].watch]
    BY <1>0, <1>12, CatchUpCarries
  <2>3. w \in DOMAIN watching[s] /\ watching[s][w].id \in DOMAIN subs[s]
    BY <1>0, <1>1, <2>1 DEF Recorded, Ids
  <2>4. CASE watching[s][w].id = n
    <3>1. subs[s][n].watch = w /\ subs[s][n].first = watching[s][w].since /\ w \in Watches
          /\ watching[s][w].since \in Nat \ {0}
      BY <1>0, <2>1, <2>3, <2>4, BookTypes DEF Recorded
    <3>2. SUFFICES ASSUME NEW j \in watching[s][w].since .. Len(log), Expected(w, log[j])
                   PROVE  Carried(s, j)'
      BY <1>0, <2>1 DEF Seen, Expected, Matches
    <3>3. j \in 1 .. Len(log) /\ j >= watching[s][w].since
      BY <1>0, <3>1, <3>2
    <3>4. log[j] \in Keys
      BY <1>0, <3>3, ElementOfSeq DEF Shape
    <3>5. log[j] \in EtcdRange[w]
      BY <3>1, <3>2, <3>4, RangesAssumption
    <3> QED
      BY <2>2, <3>1, <3>3, <3>5
  <2>5. CASE watching[s][w].id # n
    BY <1>0, <2>1, <2>2, <2>3, <2>5, SeenKept
  <2> QED
    BY <2>4, <2>5
<1> QED
  BY <1>2, <1>3, <1>4, <1>5, <1>6, <1>7, <1>8, <1>9, <1>10, <1>11, <1>12 DEF StreamStep

\* Only what has happened is sent.
LEMMA HappenedStep ==
  ASSUME WatchInv, NEW s \in Streams, StreamStep(s)
  PROVE  Happened(s)'
<1>0. Shape /\ Numbered(s) /\ Happened(s) /\ log' = log
  BY Frame DEF WatchInv, StreamInv
<1>1. SUFFICES ASSUME NEW j \in Revs, Carried(s, j)'
               PROVE  Carried(s, j) \/ j <= Len(log)
  BY <1>0 DEF Happened, Revs
<1>2. CASE Open(s) \/ Disconnect(s) \/ RecvErr(s) \/ Answer(s) \/ Duplicate(s)
  BY <1>0, <1>1, <1>2, QuietEffects DEF Carried, SamePipe
<1>3. CASE \E r \in Asks : Recv(s, r)
  BY <1>0, <1>1, <1>3, RecvEffect DEF Carried, SamePipe
<1>4. CASE Cancel(s)
  BY <1>0, <1>1, <1>4, CancelEffect DEF Carried, SamePipe
<1>5. CASE StartWatch(s)
  BY <1>0, <1>1, <1>5, StartEffect DEF Carried, SamePipe
<1>6. CASE FanOut(s) \/ Offer(s) \/ Send(s)
  BY <1>0, <1>1, <1>6, FanOutCarries, OfferCarries, SendCarries
<1>7. CASE Close(s)
  <2>1. streamCh'[s] = << >> /\ out'[s] = out[s] /\ hand'[s] = hand[s] /\ got'[s] = got[s]
    BY <1>0, <1>7, PipeEffects
  <2>2. \A i : i \notin 1 .. Len(streamCh'[s])
    BY <2>1, SetOfSmall
  <2> QED
    BY <1>1, <2>1, <2>2 DEF Carried
<1>8. CASE \E n \in DOMAIN subs[s] : CatchUp(s, n)
  BY <1>0, <1>1, <1>8, CatchUpCarries
<1> QED
  BY <1>2, <1>3, <1>4, <1>5, <1>6, <1>7, <1>8 DEF StreamStep

\* What is in line stays in line as it moves on.
LEMMA SendInLine ==
  ASSUME Shape, NEW s \in Streams, Send(s), InLine(s)
  PROVE  InLine(s)'
<1>1. /\ hand'[s] = << >> /\ got'[s] = IF gone[s] THEN got[s] ELSE got[s] \o hand[s]
      /\ streamCh'[s] = streamCh[s] /\ out'[s] = out[s]
  BY PipeEffects
<1>2. /\ ToSet(got[s] \o hand[s]) = ToSet(got[s]) \cup ToSet(hand[s]) /\ ToSet(<< >>) = {}
      /\ \A i : i \notin 1 .. Len(<< >>)
  BY JoinSets, SetOfSmall DEF Shape
<1>3. Sorted(got[s] \o hand[s])
  <2>1. Revs \subseteq Nat /\ got[s] \in Seq(Revs) /\ hand[s] \in Seq(Revs)
    BY AsksAssumption DEF Revs, Shape
  <2> QED
    BY <2>1, SortedConcat DEF InLine
<1>4. Sorted(got'[s]) /\ Sorted(hand'[s]) /\ ToSet(hand'[s]) = {}
      /\ ToSet(got'[s]) \subseteq ToSet(got[s]) \cup ToSet(hand[s])
  <2>1. Sorted(hand'[s]) /\ ToSet(hand'[s]) = {}
    BY <1>1, <1>2 DEF Sorted
  <2>2. CASE gone[s]
    BY <1>1, <2>1, <2>2 DEF InLine
  <2>3. CASE ~gone[s]
    BY <1>1, <1>2, <1>3, <2>1, <2>3
  <2> QED
    BY <2>2, <2>3
<1>5. Below(got'[s], hand'[s]) /\ Below(got'[s], out[s]) /\ Below(hand'[s], out[s])
  BY <1>4 DEF InLine, Below
<1>6. \A i \in 1 .. Len(streamCh[s]) : /\ Below(got'[s], streamCh[s][i])
                                       /\ Below(hand'[s], streamCh[s][i])
  BY <1>4 DEF InLine, Below
<1> QED
  BY <1>1, <1>4, <1>5, <1>6 DEF InLine

\* ... when the sender takes the next copy.
LEMMA OfferInLine ==
  ASSUME Shape, NEW s \in Streams, Offer(s), InLine(s)
  PROVE  InLine(s)'
<1>1. /\ out[s] # << >> /\ hand'[s] = <<Head(out[s])>> /\ out'[s] = Tail(out[s])
      /\ streamCh'[s] = streamCh[s] /\ got'[s] = got[s] /\ out[s] \in Seq(Revs) /\ Revs \subseteq Nat
  BY PipeEffects, AsksAssumption DEF Shape, Revs
<1>2. /\ Tail(out[s]) \in Seq(Revs) /\ Len(out[s]) \in Nat /\ Len(Tail(out[s])) = Len(out[s]) - 1
      /\ \A i \in 1 .. Len(Tail(out[s])) : Tail(out[s])[i] = out[s][i + 1]
      /\ Head(out[s]) = out[s][1] /\ 1 \in 1 .. Len(out[s]) /\ Head(out[s]) \in Nat
      /\ \A x : x \in ToSet(out[s]) <=> x = Head(out[s]) \/ x \in ToSet(Tail(out[s]))
  BY <1>1, SetOfTail, SetOfSeq
<1>3. ToSet(hand'[s]) = {Head(out[s])} /\ Sorted(hand'[s])
  <2>1. ToSet(hand'[s]) = {Head(out[s])} /\ Len(hand'[s]) = 1 /\ hand'[s][1] = Head(out[s])
    BY <1>1, SetOfSmall
  <2>2. \A i \in 1 .. Len(hand'[s]) : hand'[s][i] = Head(out[s])
    BY <2>1
  <2> QED
    BY <1>2, <2>1, <2>2 DEF Sorted
<1>4. Sorted(Tail(out[s]))
  <2>1. ASSUME NEW i \in 1 .. Len(Tail(out[s])), NEW j \in 1 .. Len(Tail(out[s])), i <= j
        PROVE  Tail(out[s])[i] <= Tail(out[s])[j]
    <3>1. i + 1 \in 1 .. Len(out[s]) /\ j + 1 \in 1 .. Len(out[s]) /\ i + 1 <= j + 1
      BY <1>2, <2>1
    <3>2. out[s][i + 1] <= out[s][j + 1]
      BY <3>1 DEF InLine, Sorted
    <3> QED
      BY <1>2, <3>2
  <2> QED
    BY <2>1 DEF Sorted
<1>5. Below(hand'[s], Tail(out[s]))
  <2>1. ASSUME NEW y \in ToSet(Tail(out[s])) PROVE Head(out[s]) <= y
    <3>0. \A q \in Seq(Revs) : \A x : x \in ToSet(q) <=> \E i \in 1 .. Len(q) : x = q[i]
      BY SetOfSeq, Zenon
    <3>1. Tail(out[s]) \in Seq(Revs) /\ y \in ToSet(Tail(out[s]))
      BY <1>2
    <3>a. \E i \in 1 .. Len(Tail(out[s])) : y = Tail(out[s])[i]
      BY <3>0, <3>1, Zenon
    <3>b. PICK i \in 1 .. Len(Tail(out[s])) : y = Tail(out[s])[i]
      BY <3>a
    <3>2. i + 1 \in 1 .. Len(out[s]) /\ 1 <= i + 1 /\ y = out[s][i + 1]
      BY <1>2, <3>b
    <3>3. out[s][1] <= out[s][i + 1]
      BY <1>2, <3>2 DEF InLine, Sorted
    <3> QED
      BY <1>2, <3>2, <3>3
  <2> QED
    BY <1>3, <2>1 DEF Below
<1>6. /\ Below(got[s], hand'[s]) /\ Below(got[s], Tail(out[s]))
      /\ \A i \in 1 .. Len(streamCh[s]) : /\ Below(hand'[s], streamCh[s][i])
                                          /\ Below(Tail(out[s]), streamCh[s][i])
  BY <1>2, <1>3 DEF InLine, Below
<1> QED
  BY <1>1, <1>3, <1>4, <1>5, <1>6 DEF InLine

\* ... when the copies of the next batch are made.
LEMMA FanOutInLine ==
  ASSUME Shape, NEW s \in Streams, Numbered(s), FanOut(s), InLine(s)
  PROVE  InLine(s)'
<1> DEFINE b == Head(streamCh[s])
           t == Tail(streamCh[s])
<1>1. /\ streamCh[s] # << >> /\ out'[s] = EventCopies(s, b)
      /\ streamCh'[s] = t /\ hand'[s] = hand[s] /\ got'[s] = got[s]
  BY PipeEffects
<1>2. /\ b \in Seq(Revs) /\ Len(streamCh[s]) \in Nat /\ Len(t) = Len(streamCh[s]) - 1
      /\ \A i \in 1 .. Len(t) : t[i] = streamCh[s][i + 1]
      /\ b = streamCh[s][1] /\ 1 \in 1 .. Len(streamCh[s])
  BY <1>1, StreamTail
<1>3. \A i \in 1 .. Len(t) : i + 1 \in 1 .. Len(streamCh[s]) /\ 1 < i + 1
  BY <1>2
<1> HIDE DEF b, t
<1>4. /\ Sorted(b) /\ Below(got[s], b) /\ Below(hand[s], b)
      /\ \A i \in 1 .. Len(t) : Below(b, t[i]) /\ Below(got[s], t[i]) /\ Below(hand[s], t[i])
  BY <1>2, <1>3 DEF InLine, Ordered
<1>5. Sorted(out'[s]) /\ ToSet(out'[s]) \subseteq ToSet(b)
  BY <1>1, <1>2, <1>4, EventCopiesOf DEF Numbered
<1>6. Ordered(t)
  <2>1. \A i \in 1 .. Len(t) : Sorted(t[i])
    BY <1>2, <1>3 DEF InLine, Ordered
  <2>2. ASSUME NEW i \in 1 .. Len(t), NEW j \in 1 .. Len(t), i < j PROVE Below(t[i], t[j])
    <3>1. i + 1 \in 1 .. Len(streamCh[s]) /\ j + 1 \in 1 .. Len(streamCh[s]) /\ i + 1 < j + 1
      BY <1>3, <2>2
    <3>2. Below(streamCh[s][i + 1], streamCh[s][j + 1])
      BY <3>1 DEF InLine, Ordered
    <3> QED
      BY <1>2, <3>2
  <2> QED
    BY <2>1, <2>2 DEF Ordered
<1>7. /\ Below(got[s], out'[s]) /\ Below(hand[s], out'[s])
      /\ \A i \in 1 .. Len(t) : Below(out'[s], t[i])
  BY <1>4, <1>5 DEF Below
<1> QED
  BY <1>1, <1>4, <1>5, <1>6, <1>7 DEF InLine

\* A stream stays in order, as long as no old revision is asked for.
LEMMA LinedStep ==
  ASSUME WatchInv, NEW s \in Streams, StreamStep(s)
  PROVE  Lined(s)'
<1>0. /\ Shape /\ Numbered(s) /\ Lined(s) /\ log' = log /\ InStep(s) /\ Len(log) \in Nat
      /\ past[s] \in BOOLEAN
  BY Frame, SetOfSeq DEF WatchInv, StreamInv, Shape
<1>a. SamePipe(s) /\ InLine(s) => InLine(s)'
  BY DEF SamePipe, InLine
<1>1. CASE Open(s) \/ Disconnect(s) \/ RecvErr(s) \/ Answer(s) \/ Duplicate(s)
  <2>1. /\ Same(s) /\ SameCall(s) /\ SamePipe(s)
        /\ rpc'[s] = "req" => rpc[s] = "req" /\ req'[s] = req[s]
    BY <1>0, <1>1, QuietEffects
  <2> QED
    BY <1>0, <1>a, <2>1 DEF Lined, Same, SameCall
<1>2. ASSUME NEW r \in Asks, Recv(s, r) PROVE Lined(s)'
  <2>1. Same(s) /\ SamePipe(s) /\ past'[s] = (past[s] \/ r.rev > 0) /\ req'[s] = r /\ r.rev \in Nat
    BY <1>0, <1>2, RecvEffect, AsksAssumption
  <2>2. ~past'[s] => ~past[s] /\ ~(r.rev > 0)
    BY <2>1, Zenon
  <2>3. ~(r.rev > 0) => r.rev = 0
    BY <2>1
  <2>4. ~past'[s] => ~past[s] /\ req'[s].rev = 0
    BY <2>1, <2>2, <2>3, Zenon
  <2> QED
    BY <1>0, <1>a, <2>1, <2>4 DEF Lined, Same
<1>3. CASE Cancel(s)
  <2>1. /\ SameCall(s) /\ SamePipe(s) /\ rpc'[s] = "res"
        /\ DOMAIN subs'[s] \subseteq DOMAIN subs[s]
        /\ \A n \in DOMAIN subs'[s] : subs'[s][n] = subs[s][n]
    BY <1>0, <1>3, CancelEffect
  <2> QED
    BY <1>0, <1>a, <2>1 DEF Lined, SameCall
<1>4. CASE StartWatch(s)
  <2> DEFINE id == asked[s] - 1
  <2>1. /\ SameCall(s) /\ SamePipe(s) /\ rpc[s] = "req" /\ rpc'[s] = "res"
        /\ DOMAIN subs'[s] = DOMAIN subs[s] \cup {id}
        /\ subs'[s][id] = [watch |-> req[s].watch, first |-> First(s), synced |-> First(s) > Len(log)]
        /\ \A n \in DOMAIN subs[s] : n # id => subs'[s][n] = subs[s][n]
    BY <1>0, <1>4, StartEffect
  <2> HIDE DEF id
  <2>a. subs'[s][id].synced = (First(s) > Len(log))
    BY <2>1
  <2>2. ASSUME ~past[s] PROVE subs'[s][id].synced
    <3>1. First(s) > Len(log)
      BY <1>0, <2>1, <2>2 DEF Lined, First
    <3> QED
      BY <2>a, <3>1, Zenon
  <2>3. ~past[s] => \A n \in DOMAIN subs'[s] : subs'[s][n].synced
    BY <1>0, <2>1, <2>2 DEF Lined
  <2> QED
    BY <1>0, <1>a, <2>1, <2>3 DEF Lined, SameCall
<1>5. CASE FanOut(s) \/ Offer(s) \/ Send(s)
  <2>1. /\ Same(s) /\ SameCall(s) /\ rpc'[s] = rpc[s] /\ req'[s] = req[s]
    BY <1>0, <1>5, PipeEffects
  <2>2. InLine(s) => InLine(s)'
    BY <1>0, <1>5, FanOutInLine, OfferInLine, SendInLine
  <2> QED
    BY <1>0, <2>1, <2>2 DEF Lined, Same, SameCall
<1>6. CASE Close(s)
  <2>1. /\ rpc'[s] = "done" /\ DOMAIN subs'[s] = {} /\ streamCh'[s] = << >> /\ out'[s] = out[s]
        /\ hand'[s] = hand[s] /\ got'[s] = got[s] /\ SameCall(s)
    BY <1>0, <1>6, PipeEffects, EmptyMap
  <2>2. \A i : i \notin 1 .. Len(streamCh'[s])
    BY <2>1, SetOfSmall
  <2>3. InLine(s) => InLine(s)'
    BY <2>1, <2>2 DEF InLine, Ordered
  <2> QED
    BY <1>0, <2>1, <2>3 DEF Lined, SameCall
<1>7. ASSUME NEW n \in DOMAIN subs[s], CatchUp(s, n) PROVE Lined(s)'
  BY <1>0, <1>7, CatchUpEffect DEF Lined, SameCall
<1> QED
  BY <1>1, <1>2, <1>3, <1>4, <1>5, <1>6, <1>7 DEF StreamStep

\* A change reaches every watch that asks for it, in order.
LEMMA ChangeCovered ==
  ASSUME WatchInv, NEW k \in Keys, Change(k), NEW s \in Streams
  PROVE  Covered(s)'
<1>1. /\ Shape /\ Numbered(s) /\ Recorded(s) /\ Covered(s) /\ InStep(s)
  BY DEF WatchInv, StreamInv
<1>2. /\ Len(log) \in Nat /\ Len(log') = Len(log) + 1
      /\ \A j \in 1 .. Len(log) : log'[j] = log[j]
      /\ \A j : j = Len(log) + 1 => log'[j] = k
      /\ bg'[s] = bg[s] /\ gone'[s] = gone[s] /\ Same(s)
  BY <1>1, ChangeEffect
<1>3. SUFFICES ASSUME Live(s), NEW w \in DOMAIN watching[s],
                      subs[s][watching[s][w].id].synced,
                      NEW j \in watching[s][w].since .. Len(log'), Expected(w, log'[j])
               PROVE  Carried(s, j)'
  <2>1. Live(s)' <=> Live(s)
    BY <1>2 DEF Live
  <2> QED
    BY <1>2, <2>1 DEF Covered, Same, Expected, Matches
<1>4. /\ watching[s][w].since \in Nat \ {0} /\ w \in Watches
      /\ watching[s][w].id \in DOMAIN subs[s] /\ subs[s][watching[s][w].id].watch = w
      /\ subs[s][watching[s][w].id].first = watching[s][w].since
  BY <1>1, <1>3, BookTypes DEF Recorded, Ids, Live, Runs
<1>5. j \in 1 .. Len(log) \/ j = Len(log) + 1
  BY <1>2, <1>4
<1>6. CASE j \in 1 .. Len(log)
  <2>1. j \in watching[s][w].since .. Len(log) /\ Expected(w, log[j])
    BY <1>2, <1>3, <1>4, <1>6
  <2>2. Carried(s, j)
    BY <1>1, <1>3, <2>1 DEF Covered
  <2> QED
    BY <1>1, <2>2, ChangeCarries
<1>7. CASE j = Len(log) + 1
  <2>1. k \in EtcdRange[w]
    BY <1>2, <1>3, <1>4, <1>7, RangesAssumption
  <2>2. Len(log) + 1 >= watching[s][w].since
    BY <1>2, <1>4, <1>7
  <2>3. Receives(subs[s][watching[s][w].id], k)
    BY <1>3, <1>4, <2>1, <2>2 DEF Receives
  <2>4. Reached(s, k) # {}
    BY <1>4, <2>3 DEF Reached
  <2> QED
    BY <1>1, <1>7, <2>4, ChangeCarries
<1> QED
  BY <1>5, <1>6, <1>7

\* A new revision comes behind all that is on its way.
LEMMA ChangeInLine ==
  ASSUME WatchInv, NEW k \in Keys, Change(k), NEW s \in Streams, InLine(s)
  PROVE  InLine(s)'
<1> DEFINE l == Len(streamCh[s])
           m == Len(streamCh'[s])
           x == Len(log) + 1
<1>1. Shape /\ Numbered(s) /\ Happened(s)
  BY DEF WatchInv, StreamInv
<1>2. /\ out'[s] = out[s] /\ hand'[s] = hand[s] /\ got'[s] = got[s]
      /\ l \in Nat /\ m \in Nat /\ l <= m /\ x \in Nat /\ Len(log) \in Nat
      /\ \A i \in 1 .. l : streamCh'[s][i] = streamCh[s][i]
      /\ \A i \in 1 .. m : i > l => streamCh'[s][i] = <<x>>
  BY <1>1, ChangeEffect
<1>3. /\ ToSet(got[s]) \subseteq Revs /\ ToSet(hand[s]) \subseteq Revs /\ ToSet(out[s]) \subseteq Revs
      /\ \A i \in 1 .. l : ToSet(streamCh[s][i]) \subseteq Revs
  <2>1. \A q \in Seq(Revs) : ToSet(q) \subseteq Revs
    BY SetOfSeq, Zenon
  <2>2. \A i \in 1 .. l : streamCh[s][i] \in Seq(Revs)
    BY <1>1, ElementOfSeq DEF Shape
  <2> QED
    BY <1>1, <2>1, <2>2 DEF Shape
<1>4. \A j : Carried(s, j) => j \in Int /\ j <= x
  <2>1. \A j : Carried(s, j) => j \in Revs
    BY <1>1, <1>3 DEF Carried
  <2>2. \A j \in Revs : j \in Int
    BY DEF Revs
  <2> QED
    BY <1>1, <1>2, <2>1, <2>2 DEF Happened
<1>5. \A q : ToSet(q) \subseteq {j \in Int : j <= x} => Below(q, <<x>>)
  <2>1. ToSet(<<x>>) = {x}
    BY SetOfSmall, Zenon
  <2> QED
    BY <2>1 DEF Below
<1>6. /\ Below(got[s], <<x>>) /\ Below(hand[s], <<x>>) /\ Below(out[s], <<x>>)
      /\ \A i \in 1 .. l : Below(streamCh[s][i], <<x>>)
      /\ Below(<<x>>, <<x>>) /\ Sorted(<<x>>)
  <2>1. \A j : j \in ToSet(got[s]) \/ j \in ToSet(hand[s]) \/ j \in ToSet(out[s]) =>
               j \in Int /\ j <= x
    BY <1>4 DEF Carried
  <2>2. \A i \in 1 .. l : \A j \in ToSet(streamCh[s][i]) : j \in Int /\ j <= x
    BY <1>4 DEF Carried
  <2>3. ToSet(<<x>>) \subseteq {j \in Int : j <= x}
    <3>1. ToSet(<<x>>) = {x}
      BY SetOfSmall, Zenon
    <3> QED
      BY <1>2, <3>1
  <2>4. Sorted(<<x>>)
    <3>1. Len(<<x>>) = 1 /\ <<x>>[1] = x
      BY SMT
    <3> QED
      BY <1>2, <3>1 DEF Sorted
  <2> QED
    BY <1>5, <2>1, <2>2, <2>3, <2>4
<1> HIDE DEF l, m, x
<1>7. \A i \in 1 .. m : \/ i \in 1 .. l /\ streamCh'[s][i] = streamCh[s][i]
                        \/ i > l /\ streamCh'[s][i] = <<x>>
  BY <1>2
<1>8. \A i \in 1 .. m : /\ Sorted(streamCh'[s][i]) /\ Below(got[s], streamCh'[s][i])
                        /\ Below(hand[s], streamCh'[s][i]) /\ Below(out[s], streamCh'[s][i])
  BY <1>6, <1>7 DEF InLine, Ordered, l
<1>9. ASSUME NEW i \in 1 .. m, NEW j \in 1 .. m, i < j
      PROVE  Below(streamCh'[s][i], streamCh'[s][j])
  <2>1. CASE j \in 1 .. l
    <3>1. i \in 1 .. l
      BY <1>2, <1>9, <2>1
    <3>2. Below(streamCh[s][i], streamCh[s][j])
      BY <1>9, <2>1, <3>1 DEF InLine, Ordered, l
    <3> QED
      BY <1>2, <2>1, <3>1, <3>2
  <2>2. CASE streamCh'[s][j] = <<x>>
    BY <1>6, <1>7, <1>9, <2>2
  <2> QED
    BY <1>7, <2>1, <2>2
<1>10. Ordered(streamCh'[s])
  BY <1>8, <1>9 DEF Ordered, m
<1> QED
  BY <1>2, <1>8, <1>10 DEF InLine, m

\* A change keeps the invariant of every stream.
LEMMA ChangeStep ==
  ASSUME WatchInv, NEW k \in Keys, Change(k), NEW s \in Streams
  PROVE  StreamInv(s)'
<1>1. Shape /\ Numbered(s) /\ Happened(s) /\ Lined(s) /\ Books(s)
  BY DEF WatchInv, StreamInv, Books
<1>2. /\ Len(log) \in Nat /\ Len(log') = Len(log) + 1
      /\ rpc'[s] = rpc[s] /\ bg'[s] = bg[s] /\ req'[s] = req[s] /\ Same(s) /\ SameCall(s)
  BY <1>1, ChangeEffect
<1>3. Books(s)'
  BY <1>1, <1>2, SameBooks
<1>4. Happened(s)'
  <2>1. SUFFICES ASSUME NEW j \in Revs, Carried(s, j)' PROVE j <= Len(log')
    BY DEF Happened, Revs
  <2>2. Carried(s, j) \/ j = Len(log) + 1
    BY <1>1, <2>1, ChangeCarries
  <2>3. j \in Int
    BY DEF Revs
  <2> QED
    BY <1>1, <1>2, <2>2, <2>3 DEF Happened
<1>5. Lined(s)'
  BY <1>1, <1>2, ChangeInLine DEF Lined, Same, SameCall
<1> QED
  BY <1>3, <1>4, <1>5, ChangeCovered DEF StreamInv, Books

-----------------------------------------------------------------------------
(* The theorems.                                                           *)

\* Every step keeps the invariant.
LEMMA WatchStep == ASSUME WatchInv, [Next]_vars PROVE WatchInv'
<1>1. CASE UNCHANGED vars
  <2>1. \A s \in Streams : log' = log /\ Untouched(s)
    BY <1>1 DEF vars, Untouched
  <2>2. \A s \in Streams : StreamInv(s)'
    BY <2>1, UntouchedKept DEF WatchInv
  <2>3. Shape'
    BY <1>1 DEF WatchInv, Shape, vars
  <2> QED
    BY <2>2, <2>3 DEF WatchInv
<1>2. ASSUME NEW k \in Keys, Change(k) PROVE WatchInv'
  BY <1>2, ChangeShape, ChangeStep DEF WatchInv
<1>3. ASSUME NEW s \in Streams, StreamStep(s) PROVE WatchInv'
  <2>1. Shape'
    BY <1>3, ShapeStep
  <2>2. StreamInv(s)'
    BY <1>3, BooksStep, CoveredStep, HappenedStep, LinedStep DEF StreamInv, Books
  <2>3. ASSUME NEW t \in Streams, t # s PROVE StreamInv(t)'
    <3>1. log' = log /\ Untouched(t)
      BY <1>3, <2>3, Frame DEF WatchInv
    <3> QED
      BY <3>1, UntouchedKept DEF WatchInv
  <2> QED
    BY <2>1, <2>2, <2>3 DEF WatchInv
<1> QED
  BY <1>1, <1>2, <1>3, WatchSteps

\* The books of the two sides of every stream agree, every change that a watch
\* asks for is carried to its client, and in order.
THEOREM WatchInvariant == Spec => []WatchInv
  BY WatchInit, WatchStep, PTL DEF Spec

\* Every variable of the watchers has its type; the sender holds one copy at most.
THEOREM WatchTypes == Spec => []TypeOK
<1>1. WatchInv => TypeOK
  <2>1. SUFFICES ASSUME WatchInv PROVE TypeOK
    OBVIOUS
  <2>2. ASSUME NEW s \in Streams
        PROVE  /\ DOMAIN watching[s] \subseteq Watches
               /\ \A w \in DOMAIN watching[s] :
                    watching[s][w].id \in Nat /\ watching[s][w].since \in Nat
               /\ DOMAIN subs[s] \subseteq Nat
               /\ \A n \in DOMAIN subs[s] : subs[s][n] \in Subs
    <3>1. watching[s] \in Maps(Watches, Entries) /\ subs[s] \in Maps(Nat, Subs)
      BY <2>1 DEF WatchInv, Shape
    <3>2. /\ DOMAIN watching[s] \subseteq Watches
          /\ \A w \in DOMAIN watching[s] : watching[s][w] \in Entries
          /\ DOMAIN subs[s] \subseteq Nat
          /\ \A n \in DOMAIN subs[s] : subs[s][n] \in Subs
      BY <3>1, MapsType
    <3> QED
      BY <3>2 DEF Entries
  <2>3. ASSUME NEW s \in Streams
        PROVE  /\ streamCh[s] \in Seq(Seq(Revs)) /\ out[s] \in Seq(Revs) /\ got[s] \in Seq(Revs)
               /\ hand[s] \in Seq(Revs) /\ Len(hand[s]) <= 1
    BY <2>1 DEF WatchInv, Shape
  <2> QED
    BY <2>1, <2>2, <2>3 DEF WatchInv, Shape, TypeOK, Subs
<1> QED
  BY <1>1, WatchInvariant, PTL

\* backgroundProcess watches what a polite client asked for, whatever the order
\* of its requests, once the request under way has been taken care of.
THEOREM AgreedWatches == Polite => (Spec => []WatchingAsAsked)
<1>1. SUFFICES ASSUME Polite PROVE Spec => []WatchingAsAsked
  OBVIOUS
<1>2. WatchInv => WatchingAsAsked
  BY <1>1 DEF WatchInv, StreamInv, Agreed, AsksFor, WatchingAsAsked
<1> QED
  BY <1>2, WatchInvariant, PTL

\* handleWatchRequest and Close cancel every subscription they should, and no
\* other, for any number of watches, streams and requests.
THEOREM NoSubscriptionStrays == Spec => []NoStray
<1>1. WatchInv => NoStray
  BY DEF WatchInv, StreamInv, Recorded, Ids, Runs, NoStray
<1> QED
  BY <1>1, WatchInvariant, PTL

\* What is on its way to a client is what the pipeline holds.
LEMMA PipelineCarries ==
  ASSUME Shape, NEW s \in Streams, NEW j, Carried(s, j)
  PROVE  j \in ToSet(Pipeline(s))
<1>1. /\ got[s] \in Seq(Revs) /\ hand[s] \in Seq(Revs) /\ out[s] \in Seq(Revs)
      /\ streamCh[s] \in Seq(Seq(Revs))
  BY DEF Shape
<1>2. /\ FlattenSeq(streamCh[s]) \in Seq(Revs)
      /\ \A x : x \in ToSet(FlattenSeq(streamCh[s])) <=>
                \E i \in 1 .. Len(streamCh[s]) : x \in ToSet(streamCh[s][i])
  BY <1>1, FlattenElements
<1>3. \A p, q \in Seq(Revs) : p \o q \in Seq(Revs) /\ ToSet(p \o q) = ToSet(p) \cup ToSet(q)
  BY JoinSets, ConcatProperties
<1>4. ToSet(Pipeline(s)) = ((ToSet(got[s]) \cup ToSet(hand[s])) \cup ToSet(out[s]))
                            \cup ToSet(FlattenSeq(streamCh[s]))
  <2> DEFINE p == got[s] \o hand[s]
             q == p \o out[s]
             r == FlattenSeq(streamCh[s])
  <2>1. p \in Seq(Revs) /\ ToSet(p) = ToSet(got[s]) \cup ToSet(hand[s])
    BY <1>1, <1>3
  <2> HIDE DEF p
  <2>2. q \in Seq(Revs) /\ ToSet(q) = ToSet(p) \cup ToSet(out[s])
    BY <1>1, <1>3, <2>1
  <2> HIDE DEF q
  <2>3. r \in Seq(Revs)
    BY <1>2
  <2> HIDE DEF r
  <2>4. ToSet(q \o r) = ToSet(q) \cup ToSet(r)
    BY <1>3, <2>2, <2>3
  <2> QED
    BY <2>1, <2>2, <2>4 DEF Pipeline, p, q, r
<1> QED
  BY <1>2, <1>4 DEF Carried

\* A change of a watched key is with the client or on its way, from the revision
\* from which it is watched on: no batch, no copy, no request loses it.
THEOREM NoChangeLost == Spec => []NoGap
<1>1. WatchInv => NoGap
  <2>1. SUFFICES ASSUME WatchInv, NEW s \in Streams, Live(s), NEW w \in DOMAIN watching[s]
                 PROVE  LET m == watching[s][w]
                        IN  /\ m.id \in DOMAIN subs[s]
                            /\ subs[s][m.id].synced =>
                                 \A j \in m.since .. Len(log) :
                                   Expected(w, log[j]) => j \in ToSet(Pipeline(s))
    BY DEF NoGap
  <2>2. watching[s][w].id \in DOMAIN subs[s]
    BY <2>1 DEF WatchInv, StreamInv, Recorded, Ids, Live, Runs
  <2> QED
    BY <2>1, <2>2, PipelineCarries DEF WatchInv, StreamInv, Covered
<1> QED
  BY <1>1, WatchInvariant, PTL

\* A client gets changes in the order in which they were made, if it asks for no
\* old revision: no goroutine overtakes.
THEOREM ChangesInOrder == Spec => []InOrder
<1>1. WatchInv => InOrder
  <2>1. SUFFICES ASSUME WatchInv, NEW s \in Streams, ~past[s] PROVE Sorted(Pipeline(s))
    BY DEF InOrder, Sorted
  <2>2. /\ got[s] \in Seq(Revs) /\ hand[s] \in Seq(Revs) /\ out[s] \in Seq(Revs)
        /\ streamCh[s] \in Seq(Seq(Revs)) /\ InLine(s) /\ Revs \subseteq Nat
    BY <2>1 DEF WatchInv, Shape, StreamInv, Lined, Revs
  <2>3. /\ FlattenSeq(streamCh[s]) \in Seq(Revs) /\ Sorted(FlattenSeq(streamCh[s]))
        /\ \A x : x \in ToSet(FlattenSeq(streamCh[s])) <=>
                  \E i \in 1 .. Len(streamCh[s]) : x \in ToSet(streamCh[s][i])
    BY <2>2, FlattenElements, FlattenSorted DEF InLine
  <2>4. \A p, q \in Seq(Revs) : /\ p \o q \in Seq(Revs) /\ ToSet(p \o q) = ToSet(p) \cup ToSet(q)
                                /\ Sorted(p) /\ Sorted(q) /\ Below(p, q) => Sorted(p \o q)
    <3>1. ASSUME NEW p \in Seq(Revs), NEW q \in Seq(Revs)
          PROVE  /\ p \o q \in Seq(Revs) /\ ToSet(p \o q) = ToSet(p) \cup ToSet(q)
                 /\ Sorted(p) /\ Sorted(q) /\ Below(p, q) => Sorted(p \o q)
      BY <2>2, JoinSets, ConcatProperties, SortedConcat
    <3> QED
      BY <3>1
  <2>5. /\ got[s] \o hand[s] \in Seq(Revs) /\ Sorted(got[s] \o hand[s])
        /\ ToSet(got[s] \o hand[s]) = ToSet(got[s]) \cup ToSet(hand[s])
    BY <2>2, <2>4 DEF InLine
  <2>6. Below(got[s] \o hand[s], out[s])
    BY <2>2, <2>5 DEF InLine, Below
  <2>7. /\ (got[s] \o hand[s]) \o out[s] \in Seq(Revs) /\ Sorted((got[s] \o hand[s]) \o out[s])
        /\ ToSet((got[s] \o hand[s]) \o out[s]) = (ToSet(got[s]) \cup ToSet(hand[s])) \cup ToSet(out[s])
    BY <2>2, <2>4, <2>5, <2>6 DEF InLine
  <2>8. Below((got[s] \o hand[s]) \o out[s], FlattenSeq(streamCh[s]))
    BY <2>2, <2>3, <2>7 DEF InLine, Below
  <2> QED
    BY <2>3, <2>4, <2>7, <2>8 DEF Pipeline
<1> QED
  BY <1>1, WatchInvariant, PTL
=============================================================================
