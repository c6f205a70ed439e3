---------------------------- MODULE InputsProofs ----------------------------
(***************************************************************************)
(* Theorems about the functions without state: what the run checks near    *)
(* the limits, for every path, name, time and constant.                    *)
(***************************************************************************)
EXTENDS MCInputs, SequenceTheorems, WellFoundedInduction, TLAPS

\* Where something is so, it is so somewhere first.
LEMMA HasLeast ==
  ASSUME NEW N \in SUBSET Nat, N # {}
  PROVE  \E n \in N : \A m \in N : n <= m
<1>1. PICK n \in N : \A m \in N : ~(<<m, n>> \in OpToRel(<, Nat))
  BY NatLessThanWellFounded, WFMin
<1>2. ASSUME NEW m \in N PROVE n <= m
  <2>1. m \in Nat /\ n \in Nat /\ <<m, n>> \notin OpToRel(<, Nat)
    BY <1>1
  <2> QED BY <2>1 DEF OpToRel
<1> QED BY <1>2

-----------------------------------------------------------------------------
(* Paths: fs.go                                                            *)

\* What filepath.Clean does with a path is what it does with each segment.
LEMMA WalkedStepwise ==
  ASSUME NEW S, NEW path \in Seq(S)
  PROVE  /\ Path!Walked(path)[0] = <<>>
         /\ \A n \in 1..Len(path) :
              Path!Walked(path)[n] = Path!Walk(Path!Walked(path)[n - 1], path[n])
<1> DEFINE N == Len(path)
           Upto(w, k) == w = [n \in 0..k |->
                               IF n = 0 THEN <<>> ELSE Path!Walk(w[n - 1], path[n])]
           Missing == {k \in 0..N : ~\E w : Upto(w, k)}
<1>1. N \in Nat
  OBVIOUS
<1>2. Missing = {}
  <2> SUFFICES ASSUME Missing # {} PROVE FALSE
    OBVIOUS
  <2>1. PICK k \in Missing : \A m \in Missing : k <= m
    <3>1. Missing \in SUBSET Nat
      BY <1>1
    <3> HIDE DEF Missing
    <3> QED BY <3>1, HasLeast
  <2>2. k # 0
    <3>1. Upto([n \in 0..0 |-> <<>>], 0)
      OBVIOUS
    <3> QED BY <3>1
  <2>3. k - 1 \in 0..N /\ k - 1 \notin Missing
    <3>1. k \in 0..N
      BY <2>1
    <3>2. k - 1 \in 0..N /\ ~(k <= k - 1)
      BY <1>1, <2>2, <3>1
    <3> HIDE DEF Missing
    <3> QED BY <2>1, <3>2
  <2>4. PICK w : Upto(w, k - 1)
    BY <2>3
  <2> DEFINE v == [n \in 0..k |-> IF n = k THEN Path!Walk(w[k - 1], path[k]) ELSE w[n]]
  <2>5. Upto(v, k)
    <3>1. \A n \in 0..k : v[n] = IF n = 0 THEN <<>> ELSE Path!Walk(v[n - 1], path[n])
      <4> SUFFICES ASSUME NEW n \in 0..k
                   PROVE  v[n] = IF n = 0 THEN <<>> ELSE Path!Walk(v[n - 1], path[n])
        OBVIOUS
      <4>1. CASE n = k
        <5>1. v[n - 1] = w[k - 1]
          BY <1>1, <2>2, <4>1
        <5> QED BY <2>2, <4>1, <5>1
      <4>2. CASE n # k
        <5>1. n \in 0..(k - 1) /\ v[n] = w[n]
          BY <1>1, <4>2
        <5>2. n # 0 => v[n - 1] = w[n - 1]
          BY <1>1, <4>2
        <5>3. w[n] = IF n = 0 THEN <<>> ELSE Path!Walk(w[n - 1], path[n])
          BY <2>4, <5>1
        <5> QED BY <5>1, <5>2, <5>3
      <4> QED BY <4>1, <4>2
    <3>2. v = [n \in 0..k |-> v[n]]
      OBVIOUS
    <3> QED BY <3>1, <3>2
  <2> QED BY <2>1, <2>5
<1>3. \E w : Upto(w, N)
  BY <1>1, <1>2
<1>4. Upto(Path!Walked(path), N)
  BY <1>3 DEF Path!Walked
<1>5. \A n \in 0..N : Path!Walked(path)[n] =
         IF n = 0 THEN <<>> ELSE Path!Walk(Path!Walked(path)[n - 1], path[n])
  BY <1>4
<1> QED BY <1>1, <1>5

\* How deep a path leads is what its segments add up to.
LEMMA DepthStepwise ==
  ASSUME NEW S, NEW path \in Seq(S)
  PROVE  /\ Path!Depth(path)[0] = 0
         /\ \A n \in 1..Len(path) :
              Path!Depth(path)[n] = Path!Depth(path)[n - 1] + Path!Rise(path[n])
<1> DEFINE N == Len(path)
           Upto(w, k) == w = [n \in 0..k |->
                               IF n = 0 THEN 0 ELSE w[n - 1] + Path!Rise(path[n])]
           Missing == {k \in 0..N : ~\E w : Upto(w, k)}
<1>1. N \in Nat
  OBVIOUS
<1>2. Missing = {}
  <2> SUFFICES ASSUME Missing # {} PROVE FALSE
    OBVIOUS
  <2>1. PICK k \in Missing : \A m \in Missing : k <= m
    <3>1. Missing \in SUBSET Nat
      BY <1>1
    <3> HIDE DEF Missing
    <3> QED BY <3>1, HasLeast
  <2>2. k # 0
    <3>1. Upto([n \in 0..0 |-> 0], 0)
      OBVIOUS
    <3> QED BY <3>1
  <2>3. k - 1 \in 0..N /\ k - 1 \notin Missing
    <3>1. k \in 0..N
      BY <2>1
    <3>2. k - 1 \in 0..N /\ ~(k <= k - 1)
      BY <1>1, <2>2, <3>1
    <3> HIDE DEF Missing
    <3> QED BY <2>1, <3>2
  <2>4. PICK w : Upto(w, k - 1)
    BY <2>3
  <2> DEFINE v == [n \in 0..k |-> IF n = k THEN w[k - 1] + Path!Rise(path[k]) ELSE w[n]]
  <2>5. Upto(v, k)
    <3>1. \A n \in 0..k : v[n] = IF n = 0 THEN 0 ELSE v[n - 1] + Path!Rise(path[n])
      <4> SUFFICES ASSUME NEW n \in 0..k
                   PROVE  v[n] = IF n = 0 THEN 0 ELSE v[n - 1] + Path!Rise(path[n])
        OBVIOUS
      <4>1. CASE n = k
        <5>1. v[n - 1] = w[k - 1]
          BY <1>1, <2>2, <4>1
        <5> QED BY <2>2, <4>1, <5>1
      <4>2. CASE n # k
        <5>1. n \in 0..(k - 1) /\ v[n] = w[n]
          BY <1>1, <4>2
        <5>2. n # 0 => v[n - 1] = w[n - 1]
          BY <1>1, <4>2
        <5>3. w[n] = IF n = 0 THEN 0 ELSE w[n - 1] + Path!Rise(path[n])
          BY <2>4, <5>1
        <5> QED BY <5>1, <5>2, <5>3
      <4> QED BY <4>1, <4>2
    <3>2. v = [n \in 0..k |-> v[n]]
      OBVIOUS
    <3> QED BY <3>1, <3>2
  <2> QED BY <2>1, <2>5
<1>3. \E w : Upto(w, N)
  BY <1>1, <1>2
<1>4. Upto(Path!Depth(path), N)
  BY <1>3 DEF Path!Depth
<1>5. \A n \in 0..N : Path!Depth(path)[n] =
         IF n = 0 THEN 0 ELSE Path!Depth(path)[n - 1] + Path!Rise(path[n])
  BY <1>4
<1> QED BY <1>1, <1>5

\* A depth is a number.
LEMMA DepthIsANumber ==
  ASSUME NEW S, NEW path \in Seq(S), NEW n \in 0..Len(path)
  PROVE  Path!Depth(path)[n] \in Int
<1> DEFINE Odd == {k \in 0..Len(path) : Path!Depth(path)[k] \notin Int}
<1>1. Odd = {}
  <2> SUFFICES ASSUME Odd # {} PROVE FALSE
    OBVIOUS
  <2>1. PICK k \in Odd : \A m \in Odd : k <= m
    <3>1. Odd \in SUBSET Nat
      OBVIOUS
    <3> HIDE DEF Odd
    <3> QED BY <3>1, HasLeast
  <2>2. k \in 1..Len(path)
    BY DepthStepwise
  <2>3. Path!Depth(path)[k - 1] \in Int
    <3>1. k - 1 \in 0..Len(path) /\ k - 1 \notin Odd
      BY <2>1, <2>2
    <3> QED BY <3>1
  <2>4. Path!Rise(path[k]) \in Int
    BY DEF Path!Rise
  <2>5. Path!Depth(path)[k] \in Int
    BY <2>2, <2>3, <2>4, DepthStepwise
  <2> QED BY <2>5
<1> QED BY <1>1

-----------------------------------------------------------------------------

\* A path that has not climbed above the root after n segments.
Stays(path, n) == \A k \in 1..n : Path!Depth(path)[k] >= 0

\* Segment k of the path leads to the depth, and no later one of the first n.
LeadsLast(path, n, d, k) ==
    /\ k \in Path!Rises(path, d) /\ k <= n
    /\ \A j \in Path!Rises(path, d) : j <= n => j <= k

\* What is left of a path that stays, and what is left of one that does not.
Kept(path, n) ==
    LET w == Path!Walked(path)[n] IN
    /\ Len(w) = Path!Depth(path)[n]
    /\ \A d \in 1..Len(w) : \E k \in 1..n : LeadsLast(path, n, d, k) /\ w[d] = path[k]
Climbed(path, n) ==
    LET w == Path!Walked(path)[n] IN w # <<>> /\ w[1] = ".."

WalkInv(path, n) ==
    /\ Path!Walked(path)[n] \in Seq({path[k] : k \in 1..Len(path)})
    /\ IF Stays(path, n) THEN Kept(path, n) ELSE Climbed(path, n)

\* The cases of a segment exclude each other.
LEMMA WalkIs ==
  ASSUME NEW done, NEW segment
  PROVE  LET up == segment = ".." /\ done # <<>> /\ Path!Last(done) # ".." IN
         /\ segment \in {Gap, "."} => Path!Walk(done, segment) = done
         /\ up => Path!Walk(done, segment) = Path!Front(done)
         /\ segment \notin {Gap, "."} /\ ~up => Path!Walk(done, segment) = Append(done, segment)
<1>1. CASE segment \in {Gap, "."}
  BY <1>1, InputsAssumption DEF Path!Walk
<1>2. CASE segment = ".." /\ done # <<>> /\ Path!Last(done) # ".."
  BY <1>2, InputsAssumption DEF Path!Walk
<1>3. CASE segment \notin {Gap, "."} /\ ~(segment = ".." /\ done # <<>> /\ Path!Last(done) # "..")
  BY <1>3 DEF Path!Walk
<1> QED BY <1>1, <1>2, <1>3, InputsAssumption

\* A segment that leads nowhere.
LEMMA WalkStands ==
  ASSUME NEW S, NEW path \in Seq(S), NEW n \in 1..Len(path),
         WalkInv(path, n - 1), path[n] \in {Gap, "."}
  PROVE  WalkInv(path, n)
<1>1. Path!Walked(path)[n] = Path!Walked(path)[n - 1]
  BY WalkedStepwise, WalkIs
<1>2. Path!Rise(path[n]) = 0 /\ Path!Depth(path)[n] = Path!Depth(path)[n - 1]
  <2>1. Path!Rise(path[n]) = 0
    BY DEF Path!Rise
  <2>2. n - 1 \in 0..Len(path)
    OBVIOUS
  <2> QED BY <2>1, <2>2, DepthStepwise, DepthIsANumber
<1>3. Stays(path, n) <=> Stays(path, n - 1)
  <2>1. CASE n = 1
    BY <1>2, <2>1, DepthStepwise DEF Stays
  <2>2. CASE n # 1
    <3>1. n - 1 \in 1..(n - 1) /\ 1..n = (1..(n - 1)) \cup {n}
      BY <2>2
    <3> QED BY <1>2, <3>1 DEF Stays
  <2> QED BY <2>1, <2>2
<1>4. ASSUME NEW d, NEW k \in 1..(n - 1), LeadsLast(path, n - 1, d, k)
      PROVE  k \in 1..n /\ LeadsLast(path, n, d, k)
  BY <1>2, <1>4 DEF LeadsLast, Path!Rises
<1>5. Kept(path, n - 1) => Kept(path, n)
  <2> HIDE DEF LeadsLast
  <2> QED BY <1>1, <1>2, <1>4 DEF Kept
<1> QED BY <1>1, <1>3, <1>5 DEF WalkInv, Climbed

\* A path that stays after n segments did so after every fewer.
LEMMA StaysBefore ==
  ASSUME NEW S, NEW path \in Seq(S), NEW n \in 1..Len(path)
  PROVE  Stays(path, n) <=> Stays(path, n - 1) /\ Path!Depth(path)[n] >= 0
<1>1. 1..n = (1..(n - 1)) \cup {n}
  OBVIOUS
<1> QED BY <1>1 DEF Stays

\* The depth before a segment, and what remains of the path before it.
LEMMA Before ==
  ASSUME NEW S, NEW path \in Seq(S), NEW n \in 1..Len(path), WalkInv(path, n - 1)
  PROVE  /\ Path!Depth(path)[n - 1] \in Int
         /\ Path!Depth(path)[n] = Path!Depth(path)[n - 1] + Path!Rise(path[n])
         /\ Stays(path, n - 1) => Path!Depth(path)[n - 1] >= 0
         /\ Path!Walked(path)[n - 1] \in Seq({path[k] : k \in 1..Len(path)})
         /\ path[n] \in {path[k] : k \in 1..Len(path)}
<1>1. n - 1 \in 0..Len(path)
  OBVIOUS
<1>2. Stays(path, n - 1) => Path!Depth(path)[n - 1] >= 0
  <2>1. CASE n - 1 = 0
    BY <2>1, DepthStepwise
  <2>2. CASE n - 1 # 0
    BY <2>2 DEF Stays
  <2> QED BY <2>1, <2>2
<1> QED BY <1>1, <1>2, DepthStepwise, DepthIsANumber DEF WalkInv

\* A segment that leads down.
LEMMA WalkDescends ==
  ASSUME NEW S, NEW path \in Seq(S), NEW n \in 1..Len(path),
         WalkInv(path, n - 1), path[n] \notin {Gap, ".", ".."}
  PROVE  WalkInv(path, n)
<1> DEFINE w == Path!Walked(path)[n - 1]
           P == {path[k] : k \in 1..Len(path)}
<1>1. Path!Walked(path)[n] = Append(w, path[n])
  BY WalkedStepwise, WalkIs
<1>2. Path!Rise(path[n]) = 1 /\ Path!Depth(path)[n] = Path!Depth(path)[n - 1] + 1
  <2>1. Path!Rise(path[n]) = 1
    BY DEF Path!Rise
  <2> QED BY <2>1, Before
<1>3. w \in Seq(P) /\ path[n] \in P /\ Append(w, path[n]) \in Seq(P)
  <2>1. w \in Seq(P) /\ path[n] \in P
    BY Before
  <2> HIDE DEF P, w
  <2> QED BY <2>1
<1>4. /\ Len(Append(w, path[n])) = Len(w) + 1 /\ Len(w) \in Nat
      /\ \A d \in 1..Len(w) : Append(w, path[n])[d] = w[d]
      /\ Append(w, path[n])[Len(w) + 1] = path[n]
  <2> HIDE DEF P, w
  <2> QED BY <1>3
<1>5. Stays(path, n) <=> Stays(path, n - 1)
  <2>1. Stays(path, n) <=> Stays(path, n - 1) /\ Path!Depth(path)[n] >= 0
    BY StaysBefore
  <2>2. Stays(path, n - 1) => Path!Depth(path)[n - 1] >= 0 /\ Path!Depth(path)[n - 1] \in Int
    BY Before
  <2> QED BY <1>2, <2>1, <2>2
<1>6. ASSUME Stays(path, n - 1), Kept(path, n - 1) PROVE Kept(path, n)
  <2>1. Len(w) = Path!Depth(path)[n - 1] /\ Path!Depth(path)[n] = Len(w) + 1
    BY <1>2, <1>6 DEF Kept
  <2>2. ASSUME NEW d \in 1..Len(w)
        PROVE  \E k \in 1..n : LeadsLast(path, n, d, k) /\ w[d] = path[k]
    <3>1. PICK k \in 1..(n - 1) : LeadsLast(path, n - 1, d, k) /\ w[d] = path[k]
      BY <1>6 DEF Kept
    <3>2. n \notin Path!Rises(path, d)
      BY <1>4, <2>1 DEF Path!Rises
    <3>3. LeadsLast(path, n, d, k)
      BY <3>1, <3>2 DEF LeadsLast, Path!Rises
    <3> QED BY <3>1, <3>3
  <2>3. LeadsLast(path, n, Len(w) + 1, n)
    BY <1>2, <2>1 DEF LeadsLast, Path!Rises
  <2>4. ASSUME NEW d \in 1..Len(Append(w, path[n]))
        PROVE  \E k \in 1..n : LeadsLast(path, n, d, k) /\ Append(w, path[n])[d] = path[k]
    <3> HIDE DEF w, P, LeadsLast
    <3>1. CASE d \in 1..Len(w)
      BY <1>4, <2>2, <3>1
    <3>2. CASE d = Len(w) + 1
      BY <1>4, <2>3, <3>2
    <3> QED BY <1>4, <3>1, <3>2
  <2> QED BY <1>1, <1>4, <2>1, <2>4 DEF Kept
<1>7. Climbed(path, n - 1) => Climbed(path, n)
  <2> SUFFICES ASSUME w # <<>>, w[1] = ".." PROVE Climbed(path, n)
    BY DEF Climbed
  <2>1. 1 \in 1..Len(w)
    <3> HIDE DEF w, P
    <3> QED BY <1>3
  <2>2. Append(w, path[n])[1] = ".." /\ Append(w, path[n]) # <<>>
    <3> HIDE DEF w, P
    <3> QED BY <1>3, <1>4, <2>1
  <2> QED BY <1>1, <2>2 DEF Climbed
<1> QED BY <1>1, <1>3, <1>5, <1>6, <1>7 DEF WalkInv

\* What a sequence is without its last element.
LEMMA FrontIs ==
  ASSUME NEW P, NEW w \in Seq(P), w # <<>>
  PROVE  /\ Len(w) \in Nat \ {0} /\ Path!Front(w) \in Seq(P)
         /\ Len(Path!Front(w)) = Len(w) - 1
         /\ \A d \in 1..(Len(w) - 1) : Path!Front(w)[d] = w[d]
         /\ Path!Last(w) = w[Len(w)]
<1>1. Len(w) \in Nat \ {0}
  OBVIOUS
<1>2. Path!Front(w) = SubSeq(w, 1, Len(w) - 1) /\ Path!Last(w) = w[Len(w)]
  BY DEF Path!Front, Path!Last
<1>3. PICK last \in Nat : last = Len(w) - 1
  BY <1>1
<1>4. \A d \in 1..last : w[d] \in P
  BY <1>1, <1>3
<1>5. SubSeq(w, 1, last) \in Seq(P)
  BY <1>1, <1>3, <1>4
<1>6. Len(SubSeq(w, 1, last)) = last
  BY <1>1, <1>3, <1>4
<1>7. \A d \in 1..last : SubSeq(w, 1, last)[d] = w[d]
  BY <1>1, <1>3, <1>4
<1> QED BY <1>1, <1>2, <1>3, <1>5, <1>6, <1>7

\* A segment that leads up takes back what led down, or leaves the root.
LEMMA WalkClimbs ==
  ASSUME NEW S, NEW path \in Seq(S), NEW n \in 1..Len(path),
         WalkInv(path, n - 1), path[n] = ".."
  PROVE  WalkInv(path, n)
<1> DEFINE w == Path!Walked(path)[n - 1]
           P == {path[k] : k \in 1..Len(path)}
<1>1. path[n] \notin {Gap, "."}
  BY InputsAssumption
<1>2. Path!Rise(path[n]) = -1 /\ Path!Depth(path)[n] = Path!Depth(path)[n - 1] - 1
  <2>1. Path!Rise(path[n]) = -1
    BY <1>1 DEF Path!Rise
  <2> QED BY <2>1, Before
<1>3. w \in Seq(P) /\ path[n] \in P
  BY Before
<1>4. Stays(path, n) <=> Stays(path, n - 1) /\ Path!Depth(path)[n] >= 0
  BY StaysBefore
<1>5. w # <<>> => /\ Len(w) \in Nat \ {0} /\ Path!Front(w) \in Seq(P)
                  /\ Len(Path!Front(w)) = Len(w) - 1
                  /\ \A d \in 1..(Len(w) - 1) : Path!Front(w)[d] = w[d]
                  /\ Path!Last(w) = w[Len(w)]
  <2> HIDE DEF w, P
  <2> QED BY <1>3, FrontIs
<1>6. /\ Append(w, path[n]) \in Seq(P) /\ Append(w, path[n]) # <<>>
      /\ w = <<>> => Append(w, path[n])[1] = path[n]
      /\ w # <<>> => Append(w, path[n])[1] = w[1]
  <2> HIDE DEF w, P
  <2> QED BY <1>3
<1>7. CASE ~Stays(path, n - 1)
  <2>1. w # <<>> /\ w[1] = ".."
    BY <1>7 DEF WalkInv, Climbed
  <2>2. CASE Path!Last(w) # ".."
    <3>1. Path!Walked(path)[n] = Path!Front(w)
      BY <2>1, <2>2, WalkedStepwise, WalkIs
    <3>2. Len(w) \in Nat /\ Len(w) > 1
      <4> HIDE DEF w, P
      <4> QED BY <1>5, <2>1, <2>2
    <3>3. Path!Front(w) # <<>> /\ Path!Front(w)[1] = ".." /\ Path!Front(w) \in Seq(P)
      <4> HIDE DEF w, P
      <4> QED BY <1>5, <2>1, <3>2
    <3> QED BY <1>4, <1>7, <3>1, <3>3 DEF WalkInv, Climbed
  <2>3. CASE Path!Last(w) = ".."
    <3>1. Path!Walked(path)[n] = Append(w, path[n])
      BY <1>1, <2>3, WalkedStepwise, WalkIs
    <3> QED BY <1>4, <1>6, <1>7, <2>1, <3>1 DEF WalkInv, Climbed
  <2> QED BY <2>2, <2>3
<1>8. CASE Stays(path, n - 1)
  <2>1. Kept(path, n - 1) /\ Len(w) = Path!Depth(path)[n - 1]
    BY <1>8 DEF WalkInv, Kept
  <2>2. CASE w = <<>>
    <3>1. Path!Walked(path)[n] = Append(w, path[n])
      BY <1>1, <2>2, WalkedStepwise, WalkIs
    <3>2. Path!Depth(path)[n] = -1
      <4>1. Len(w) = 0
        BY <2>2
      <4> QED BY <1>2, <2>1, <4>1
    <3> QED BY <1>4, <1>6, <2>2, <3>1, <3>2 DEF WalkInv, Climbed
  <2>3. CASE w # <<>>
    <3>1. Path!Last(w) # ".."
      <4>1. PICK k \in 1..(n - 1) : LeadsLast(path, n - 1, Len(w), k) /\ w[Len(w)] = path[k]
        <5>1. Len(w) \in 1..Len(w)
          BY <1>5, <2>3
        <5> QED BY <2>1, <5>1 DEF Kept
      <4>2. Path!Rise(path[k]) = 1
        BY <4>1 DEF LeadsLast, Path!Rises
      <4>3. Path!Rise("..") = -1
        BY <1>2
      <4>4. path[k] # ".."
        BY <4>2, <4>3
      <4> QED BY <1>5, <2>3, <4>1, <4>4
    <3>2. Path!Walked(path)[n] = Path!Front(w)
      BY <2>3, <3>1, WalkedStepwise, WalkIs
    <3>3. Stays(path, n) /\ Len(Path!Front(w)) = Path!Depth(path)[n]
      <4> HIDE DEF w, P
      <4> QED BY <1>2, <1>4, <1>5, <1>8, <2>1, <2>3
    <3>4. ASSUME NEW d \in 1..Len(Path!Front(w))
          PROVE  \E k \in 1..n : LeadsLast(path, n, d, k) /\ Path!Front(w)[d] = path[k]
      <4>1. d \in 1..(Len(w) - 1) /\ d \in 1..Len(w)
        <5> HIDE DEF w, P
        <5> QED BY <1>5, <2>3
      <4>2. PICK k \in 1..(n - 1) : LeadsLast(path, n - 1, d, k) /\ w[d] = path[k]
        BY <2>1, <4>1 DEF Kept
      <4>3. n \notin Path!Rises(path, d)
        BY <1>2 DEF Path!Rises
      <4>4. LeadsLast(path, n, d, k)
        BY <4>2, <4>3 DEF LeadsLast, Path!Rises
      <4>5. Path!Front(w)[d] = path[k]
        BY <1>5, <2>3, <4>1, <4>2
      <4> QED BY <4>2, <4>4, <4>5
    <3> QED BY <1>5, <2>3, <3>2, <3>3, <3>4 DEF WalkInv, Kept
  <2> QED BY <2>2, <2>3
<1> QED BY <1>7, <1>8

\* The walk is in order after every segment.
LEMMA WalkIsInOrder ==
  ASSUME NEW S, NEW path \in Seq(S), NEW n \in 0..Len(path)
  PROVE  WalkInv(path, n)
<1> DEFINE Bad == {k \in 0..Len(path) : ~WalkInv(path, k)}
<1>1. WalkInv(path, 0)
  <2>1. Path!Walked(path)[0] = <<>> /\ Path!Depth(path)[0] = 0
    BY WalkedStepwise, DepthStepwise
  <2> QED BY <2>1 DEF WalkInv, Stays, Kept
<1>2. Bad = {}
  <2> SUFFICES ASSUME Bad # {} PROVE FALSE
    OBVIOUS
  <2>1. PICK k \in Bad : \A m \in Bad : k <= m
    <3>1. Bad \in SUBSET Nat
      OBVIOUS
    <3> HIDE DEF Bad
    <3> QED BY <3>1, HasLeast
  <2>2. k \in 1..Len(path) /\ ~WalkInv(path, k)
    BY <1>1
  <2>3. WalkInv(path, k - 1)
    <3>1. k - 1 \in 0..Len(path) /\ ~(k <= k - 1)
      BY <2>2
    <3> QED BY <2>1, <3>1
  <2>4. WalkInv(path, k)
    BY <2>2, <2>3, WalkStands, WalkDescends, WalkClimbs
  <2> QED BY <2>2, <2>4
<1> QED BY <1>2

\* What is left of a path without the slashes and backslashes it begins with.
LEMMA RelativeIsAPath ==
  ASSUME NEW S, NEW path \in Seq(S)
  PROVE  Path!Relative(path) \in Seq(S \cup {Bare(s) : s \in S})
<1> DEFINE I == {n \in 1..Len(path) : Bare(path[n]) # Gap}
           t == Path!Trimmed(path)
           T == S \cup {Bare(s) : s \in S}
<1>1. t = 0 \/ t \in I
  <2>1. CASE I = {}
    BY <2>1 DEF Path!Trimmed, Path!SelectInSeq
  <2>2. CASE I # {}
    <3>1. \E n \in I : \A m \in I : n <= m
      <4>1. I \in SUBSET Nat
        OBVIOUS
      <4> HIDE DEF I
      <4> QED BY <2>2, <4>1, HasLeast
    <3>2. t = Path!Min(I)
      BY <2>2 DEF Path!Trimmed, Path!SelectInSeq
    <3> HIDE DEF I
    <3> QED BY <3>1, <3>2 DEF Path!Min
  <2> QED BY <2>1, <2>2
<1>2. CASE t = 0
  BY <1>2 DEF Path!Relative
<1>3. CASE t # 0
  <2>1. t \in 1..Len(path)
    BY <1>1, <1>3
  <2>2. Bare(path[t]) \in T /\ path \in Seq(T)
    <3> HIDE DEF t
    <3> QED BY <2>1
  <2>3. <<Bare(path[t])>> \o SubSeq(path, t + 1, Len(path)) \in Seq(T)
    <3> HIDE DEF t, T
    <3>1. SubSeq(path, t + 1, Len(path)) \in Seq(T)
      BY <2>1, <2>2
    <3>2. <<Bare(path[t])>> \in Seq(T)
      BY <2>2
    <3> QED BY <3>1, <3>2
  <2> QED BY <1>3, <2>3 DEF Path!Relative
<1> QED BY <1>2, <1>3

\* Whatever the path, an operation works below the root, on what the path
\* leads down to and does not take back, or on nothing (resolve).
THEOREM PathsStayInside ==
  ASSUME NEW S, NEW path \in Seq(S)
  PROVE  Path!InsideRoot(path)
<1> DEFINE T == S \cup {Bare(s) : s \in S}
           p == Path!Relative(path)
           w == Path!Clean(p)
           P == {p[k] : k \in 1..Len(p)}
           rest == [d \in 1..Path!Depth(p)[Len(p)] |-> p[Path!LastRise(p, d)]]
<1>1. p \in Seq(T) /\ Len(p) \in Nat /\ Len(p) \in 0..Len(p)
  <2>1. p \in Seq(T)
    BY RelativeIsAPath
  <2> HIDE DEF p
  <2> QED BY <2>1
<1>2. WalkInv(p, Len(p))
  <2> HIDE DEF p
  <2> QED BY <1>1, WalkIsInOrder
<1>3. w = Path!Walked(p)[Len(p)] /\ w \in Seq(P)
  BY <1>2 DEF WalkInv, Path!Clean
<1>4. w # <<>> => Head(w) = w[1] /\ 1 \in 1..Len(w)
  <2> HIDE DEF w, P
  <2> QED BY <1>3
<1>5. CASE Stays(p, Len(p))
  <2>1. /\ Len(w) = Path!Depth(p)[Len(p)]
        /\ \A d \in 1..Len(w) :
             \E k \in 1..Len(p) : LeadsLast(p, Len(p), d, k) /\ w[d] = p[k]
    BY <1>2, <1>3, <1>5 DEF WalkInv, Kept
  <2>2. ASSUME NEW d \in 1..Len(w)
        PROVE  w[d] = p[Path!LastRise(p, d)] /\ w[d] # ".."
    <3>1. PICK k \in 1..Len(p) : LeadsLast(p, Len(p), d, k) /\ w[d] = p[k]
      BY <2>1
    <3>2. k \in Path!Rises(p, d) /\ \A j \in Path!Rises(p, d) : j <= k
      BY <3>1 DEF LeadsLast, Path!Rises
    <3>3. Path!LastRise(p, d) = k
      <4> HIDE DEF p
      <4>1. \A j \in Path!Rises(p, d) : j \in Nat
        BY <1>1 DEF Path!Rises
      <4>2. ASSUME NEW j \in Path!Rises(p, d), \A m \in Path!Rises(p, d) : m <= j
            PROVE  j = k
        BY <3>2, <4>1, <4>2
      <4> QED BY <3>2, <4>2 DEF Path!LastRise
    <3>4. Path!Rise(p[k]) = 1
      BY <3>2 DEF Path!Rises
    <3>5. p[k] # ".."
      BY <3>4, InputsAssumption DEF Path!Rise
    <3> QED BY <3>1, <3>3, <3>5
  <2>3. w = rest
    <3>1. w = [d \in 1..Len(w) |-> w[d]]
      <4> HIDE DEF w, P
      <4> QED BY <1>3
    <3>2. w = [d \in 1..Len(w) |-> p[Path!LastRise(p, d)]]
      <4> HIDE DEF w, p, P
      <4> QED BY <2>2, <3>1
    <3> QED BY <2>1, <3>2
  <2>4. ~(w # <<>> /\ Head(w) = "..")
    <3> HIDE DEF w, p, P, rest
    <3> QED BY <1>4, <2>2
  <2>5. Path!Resolve(path) = Root \o rest
    BY <2>3, <2>4 DEF Path!Resolve
  <2> QED BY <1>5, <2>5 DEF Path!InsideRoot, Stays
<1>6. CASE ~Stays(p, Len(p))
  <2>1. w # <<>> /\ Head(w) = ".."
    BY <1>2, <1>3, <1>4, <1>6 DEF WalkInv, Climbed
  <2>2. Path!Resolve(path) = Path!Refused
    BY <2>1 DEF Path!Resolve
  <2> QED BY <1>6, <2>2 DEF Path!InsideRoot, Stays
<1> QED BY <1>5, <1>6

-----------------------------------------------------------------------------
(* Sessions and passwords: auth.go and credentials.go                      *)

\* Whole seconds keep the order of times, but not within a second.
LEMMA UnixKeepsOrder ==
  ASSUME NEW a \in Int, NEW b \in Int
  PROVE  /\ Login!Unix(a) \in Int
         /\ Login!Unix(a) < Login!Unix(b) => a < b
         /\ a <= b - Second => Login!Unix(a) < Login!Unix(b)
<1> DEFINE x == a \div Second
           y == b \div Second
<1>1. Second \in Int /\ Second > 0
  BY InputsAssumption
<1>2. x \in Int /\ Second * x <= a /\ a < Second * x + Second
  BY <1>1
<1>3. y \in Int /\ Second * y <= b /\ b < Second * y + Second
  BY <1>1
<1>4. x < y => Second * x + Second <= Second * y
  <2> HIDE DEF x, y
  <2> QED BY <1>1, <1>2, <1>3
<1>5. ~(x < y) => Second * y <= Second * x
  <2> HIDE DEF x, y
  <2> QED BY <1>1, <1>2, <1>3
<1> QED BY <1>1, <1>2, <1>3, <1>4, <1>5 DEF Login!Unix

\* The payload of a token: where its two bars are, and what is between them.
LEMMA PayloadSplits ==
  ASSUME NEW S, NEW u \in Seq(S), ~Login!Contains(u, Bar), NEW x \in Int
  PROVE  LET text == u \o <<Bar, x, Bar, Nonce>> IN
         /\ Len(u) \in Nat /\ Len(text) = Len(u) + 4
         /\ Login!Bars(text) = {Len(u) + 1, Len(u) + 3}
         /\ text[Len(u) + 2] = x
         /\ Login!Between(text, 0, Len(u) + 1) = u
         /\ Login!Between(text, Len(u) + 3, Len(text) + 1) = <<Nonce>>
<1> DEFINE T == S \cup {Bar, x, Nonce}
           k == Len(u)
           tail == <<Bar, x, Bar, Nonce>>
           text == u \o tail
<1>1. k \in Nat /\ u \in Seq(T) /\ tail \in Seq(T) /\ Len(tail) = 4
  OBVIOUS
<1>2. /\ text \in Seq(T) /\ Len(text) = k + 4
      /\ \A n \in 1..k : text[n] = u[n]
      /\ \A n \in (k + 1)..(k + 4) : text[n] = tail[n - k]
  <2> HIDE DEF tail, T
  <2>1. /\ u \o tail \in Seq(T)
        /\ Len(u \o tail) = Len(u) + Len(tail)
        /\ \A n \in 1..(Len(u) + Len(tail)) :
             (u \o tail)[n] = IF n <= Len(u) THEN u[n] ELSE tail[n - Len(u)]
    BY <1>1, ConcatProperties, Zenon
  <2> QED BY <1>1, <2>1
<1>3. /\ text[k + 1] = Bar /\ text[k + 2] = x
      /\ text[k + 3] = Bar /\ text[k + 4] = Nonce
  <2>1. tail[1] = Bar /\ tail[2] = x /\ tail[3] = Bar /\ tail[4] = Nonce
    OBVIOUS
  <2> HIDE DEF tail, text, T
  <2>2. /\ text[k + 1] = tail[1] /\ text[k + 2] = tail[2]
        /\ text[k + 3] = tail[3] /\ text[k + 4] = tail[4]
    <3>1. /\ k + 1 \in (k + 1)..(k + 4) /\ k + 2 \in (k + 1)..(k + 4)
          /\ k + 3 \in (k + 1)..(k + 4) /\ k + 4 \in (k + 1)..(k + 4)
          /\ (k + 1) - k = 1 /\ (k + 2) - k = 2 /\ (k + 3) - k = 3 /\ (k + 4) - k = 4
      BY <1>1
    <3> QED BY <1>2, <3>1
  <2> QED BY <2>1, <2>2
<1>4. \A n \in 1..k : u[n] # Bar
  BY DEF Login!Contains
<1> HIDE DEF text, tail, T
<1>5. Login!Bars(text) = {k + 1, k + 3}
  <2>1. x # Bar /\ Nonce # Bar
    BY InputsAssumption
  <2>2. \A n \in 1..(k + 4) : n \in 1..k \/ n \in {k + 1, k + 2, k + 3, k + 4}
    BY <1>1
  <2>3. \A n \in 1..(k + 4) : text[n] = Bar <=> n \in {k + 1, k + 3}
    BY <1>1, <1>2, <1>3, <1>4, <2>1, <2>2
  <2>4. k + 1 \in 1..(k + 4) /\ k + 3 \in 1..(k + 4)
    BY <1>1
  <2> QED BY <1>2, <2>3, <2>4 DEF Login!Bars
<1>6. Login!Between(text, 0, k + 1) = u
  <2>1. SubSeq(text, 1, k) = [n \in 1..k |-> text[n]]
    BY <1>1, <1>2
  <2>2. u = [n \in 1..k |-> u[n]]
    OBVIOUS
  <2> QED BY <1>1, <1>2, <2>1, <2>2 DEF Login!Between
<1>7. Login!Between(text, k + 3, k + 5) = <<Nonce>>
  <2>1. SubSeq(text, k + 4, k + 4) = [n \in 1..1 |-> text[k + 4]]
    <3> DEFINE last == SubSeq(text, k + 4, k + 4)
    <3>1. Len(last) = 1 /\ last[1] = text[k + 4] /\ last \in Seq(T)
      BY <1>1, <1>2, SubSeqProperties
    <3> HIDE DEF last
    <3>2. last = [n \in 1..1 |-> last[n]]
      BY <3>1
    <3>3. \A n \in 1..1 : last[n] = text[k + 4]
      BY <3>1
    <3>4. last = [n \in 1..1 |-> text[k + 4]]
      BY <3>2, <3>3
    <3> QED BY <3>4 DEF last
  <2>2. <<Nonce>> = [n \in 1..1 |-> Nonce]
    OBVIOUS
  <2>3. (k + 3) + 1 = k + 4 /\ (k + 5) - 1 = k + 4
    BY <1>1
  <2> QED BY <1>3, <2>1, <2>2, <2>3 DEF Login!Between
<1>8. Login!Between(text, k + 3, Len(text) + 1) = <<Nonce>>
  <2>1. Len(text) + 1 = k + 5
    BY <1>1, <1>2
  <2> QED BY <1>7, <2>1
<1> QED BY <1>1, <1>2, <1>3, <1>5, <1>6, <1>8 DEF text, tail

\* A token lasts as long as the configuration says, whoever issues it, under
\* whatever name, and whenever it is looked at (New and Validate).
THEOREM SessionsLast ==
  ASSUME NEW S, NEW issuer, NEW checker, issuer.username \in Seq(S),
         issuer.lifetime \in Int, NEW issued \in Int, NEW checked \in Int
  PROVE  Login!SessionLasts(issuer, checker, issued, checked)
<1> DEFINE u == issuer.username
           end == issued + issuer.lifetime
           x == Login!Unix(end)
           text == u \o <<Bar, x, Bar, Nonce>>
           token == Login!Token(issuer, issued)
           same == issuer.secret = checker.secret /\ issuer.username = checker.username
           valid == Login!Validate(checker, token, checked)
<1> SUFFICES ASSUME Login!Accepted(u, issuer.lifetime)
             PROVE  /\ valid => same /\ checked < end
                    /\ same /\ checked <= end - Second => valid
  BY DEF Login!SessionLasts
<1>1. end \in Int /\ x \in Int
  BY UnixKeepsOrder
<1>2. /\ Len(u) \in Nat /\ Len(text) = Len(u) + 4
      /\ Login!Bars(text) = {Len(u) + 1, Len(u) + 3}
      /\ text[Len(u) + 2] = x
      /\ Login!Between(text, 0, Len(u) + 1) = u
      /\ Login!Between(text, Len(u) + 3, Len(text) + 1) = <<Nonce>>
  <2>1. u \in Seq(S) /\ ~Login!Contains(u, Bar)
    BY DEF Login!Accepted
  <2> HIDE DEF u, x
  <2> QED BY <1>1, <2>1, PayloadSplits
<1>3. token.payload = text /\ token.signature = <<issuer.secret, text>>
  BY DEF Login!Token
<1> HIDE DEF text, token, x, u
<1>4. valid <=> /\ issuer.secret = checker.secret
                /\ u = checker.username
                /\ Login!Unix(checked) < x
  <2> DEFINE Fits(m, n) ==
               /\ m < n /\ Login!Bars(text) = {m, n}
               /\ Login!Between(text, 0, m) = checker.username
               /\ n = m + 2 /\ Login!Unix(checked) < text[m + 1]
               /\ Login!Between(text, n, Len(text) + 1) = <<Nonce>>
  <2>1. valid <=> /\ <<issuer.secret, text>> = <<checker.secret, text>>
                  /\ \E m, n \in Login!Bars(text) : Fits(m, n)
    BY <1>3 DEF Login!Validate
  <2>2. \A m, n \in Login!Bars(text) : Fits(m, n) => m = Len(u) + 1 /\ n = Len(u) + 3
    BY <1>2
  <2>3. Fits(Len(u) + 1, Len(u) + 3) <=> u = checker.username /\ Login!Unix(checked) < x
    <3>1. /\ (Len(u) + 1) + 1 = Len(u) + 2 /\ Len(u) + 3 = (Len(u) + 1) + 2
          /\ Len(u) + 1 < Len(u) + 3
      BY <1>2
    <3> QED BY <1>2, <3>1
  <2>4. Len(u) + 1 \in Login!Bars(text) /\ Len(u) + 3 \in Login!Bars(text)
    BY <1>2
  <2> HIDE DEF Fits, valid
  <2> QED BY <2>1, <2>2, <2>3, <2>4
<1>5. /\ Login!Unix(checked) < x => checked < end
      /\ checked <= end - Second => Login!Unix(checked) < x
  <2> HIDE DEF end
  <2> QED BY <1>1, UnixKeepsOrder DEF x
<1>6. same <=> issuer.secret = checker.secret /\ u = checker.username
  BY DEF u
<1> QED BY <1>4, <1>5, <1>6

\* What the policy allows fits the hash, because a rune takes a byte at least
\* (ValidatePassword and HashPassword).
THEOREM PolicyIsEnough ==
  ASSUME NEW password, password.runes \in Nat, password.bytes \in Nat,
         password.bytes >= password.runes
  PROVE  Login!PolicyCoversHash(password)
BY InputsAssumption DEF Login!PolicyCoversHash, Login!PolicyAllows, Login!Hashes

\* No combination of settings exposes more than was asked for (loadConfig).
THEOREM ExposureIsAsked ==
  ASSUME NEW env \in Bind!Environment
  PROVE  Bind!ExposedOnlyAsAsked(env)
<1> SUFFICES ASSUME Bind!Loads(env)
             PROVE  LET reach == Bind!Reach(Bind!Host(env)) IN
                    /\ reach = "everywhere" => env.allowAll = "true"
                    /\ reach # "machine" =>
                         env.insecureHTTP # "true" /\ env.tlsCert /\ env.tlsKey
  BY DEF Bind!ExposedOnlyAsAsked
<1> DEFINE host == Bind!Host(env)
<1>1. host \in {"empty", "unspecified", "loopback", "address", "name"}
  BY DEF Bind!Loads, Bind!Host, Bind!Environment, Bind!Hosts
<1>2. Bind!Reach(host) = "everywhere" <=> host \in {"empty", "unspecified"}
  BY <1>1 DEF Bind!Reach
<1>3. Bind!Reach(host) = "machine" <=> host = "loopback"
  BY <1>1 DEF Bind!Reach
<1>4. host \in {"empty", "unspecified"} => env.allowAll = "true"
  BY DEF Bind!Loads, Bind!EverywhereUnasked, Bind!On
<1>5. host # "loopback" => env.insecureHTTP # "true"
  BY DEF Bind!Loads, Bind!PlainAbroad, Bind!On
<1>6. env.insecureHTTP # "true" => env.tlsCert /\ env.tlsKey
  BY DEF Bind!Loads, Bind!On
<1> QED BY <1>1, <1>2, <1>3, <1>4, <1>5, <1>6

-----------------------------------------------------------------------------
(* Every input of the run.                                                 *)

Fact == INSTANCE CodecsProofs WITH Colours <- {blue}

\* What holds of every setting, by the theorems about Codecs.
LEMMA SettingsAreSound ==
  ASSUME NEW V, NEW k \in {"fans", "zones", "effect"},
         NEW setting \in Seq([value : V, loose : BOOLEAN])
  PROVE  Codec!WrittenIsReadBack(k, setting) /\ Codec!UntouchedFormIsAccepted(k, setting)
<1>1. k \in Fact!Kinds /\ setting \in Fact!Settings(V)
  BY DEF Fact!Kinds, Fact!Settings
<1>2. Fact!WrittenIsReadBack(k, setting) /\ Fact!UntouchedFormIsAccepted(k, setting)
  BY <1>1, Fact!SettingsReadBack, Fact!ReportsCanBeSentBack
<1>3. Codec!WrittenIsReadBack(k, setting) <=> Fact!WrittenIsReadBack(k, setting)
  BY DEF Codec!WrittenIsReadBack, Codec!Validates, Codec!Parses, Codec!Within, Codec!Written,
         Codec!Parsed, Codec!Field, Codec!Readable, Codec!Writable,
         Fact!WrittenIsReadBack, Fact!Validates, Fact!Parses, Fact!Within, Fact!Written,
         Fact!Parsed, Fact!Field, Fact!Readable, Fact!Writable
<1>4. Codec!UntouchedFormIsAccepted(k, setting) <=> Fact!UntouchedFormIsAccepted(k, setting)
  BY DEF Codec!UntouchedFormIsAccepted, Codec!Validates, Codec!Parses, Codec!Within, Codec!Form,
         Codec!Direction, Codec!Parsed, Codec!Field, Codec!Readable, Codec!Writable,
         Fact!UntouchedFormIsAccepted, Fact!Validates, Fact!Parses, Fact!Within, Fact!Form,
         Fact!Direction, Fact!Parsed, Fact!Field, Fact!Readable, Fact!Writable
<1> QED BY <1>2, <1>3, <1>4

\* The settings of the run are sequences of fields.
Values(k) == {blue, 1} \cup UNION {Edges(Codec!Readable(k)[i]) : i \in DOMAIN Codec!Readable(k)}

LEMMA VariedAreSettings ==
  ASSUME NEW k \in {"fans", "zones", "effect"}, NEW setting \in Varied(k)
  PROVE  setting \in Seq([value : Values(k), loose : BOOLEAN])
<1> DEFINE limits == Codec!Readable(k)
           N == Len(limits)
           Fields(i) == [value : Edges(limits[i]), loose : BOOLEAN]
           F == [value : Values(k), loose : BOOLEAN]
<1> SUFFICES setting \in Seq(F)
  OBVIOUS
<1>1. N \in Nat \ {0} /\ DOMAIN limits = 1..N
  <2>1. CASE k = "fans"
    BY <2>1 DEF Codec!Readable
  <2>2. CASE k = "zones"
    BY <2>2 DEF Codec!Readable
  <2>3. CASE k = "effect"
    BY <2>3 DEF Codec!Readable
  <2> QED BY <2>1, <2>2, <2>3
<1>2. \A i \in 1..N : Fields(i) \subseteq F
  BY <1>1 DEF Values
<1>3. Plain(k) \in [1..N -> F]
  <2>1. \A i \in 1..N : Codec!Field(IF limits[i] = {blue} THEN blue ELSE 1) \in F
    BY DEF Codec!Field, Values
  <2> QED BY <1>1, <2>1 DEF Plain
<1> HIDE DEF N, Fields, F
<1>4. Plain(k) \in Seq(F) /\ Len(Plain(k)) = N
  BY <1>1, <1>3
<1>5. CASE \E i, j \in 1..N, f, g \in UNION {Fields(n) : n \in 1..N} :
             setting = [Plain(k) EXCEPT ![i] = f, ![j] = g]
  <2>1. PICK i \in 1..N, j \in 1..N, f \in F, g \in F :
          setting = [Plain(k) EXCEPT ![i] = f, ![j] = g]
    <3>1. UNION {Fields(n) : n \in 1..N} \subseteq F
      BY <1>2
    <3> QED BY <1>5, <3>1
  <2>2. setting \in [1..N -> F]
    BY <1>3, <2>1
  <2> QED BY <1>1, <2>2
<1>6. SubSeq(Plain(k), 1, N - 1) \in Seq(F)
  BY <1>1, <1>3, SubSeqProperties
<1>7. Plain(k) \o Plain(k) \in Seq(F)
  BY <1>4
<1>8. \/ \E i, j \in 1..N, f, g \in UNION {Fields(n) : n \in 1..N} :
           setting = [Plain(k) EXCEPT ![i] = f, ![j] = g]
      \/ setting = SubSeq(Plain(k), 1, N - 1)
      \/ setting = Plain(k) \o Plain(k)
  BY <1>1 DEF Varied, N, Fields
<1> QED BY <1>5, <1>6, <1>7, <1>8

\* The inputs are those of the functions, and a step changes none.
InputInv ==
    /\ IsSetting => input \in Seq([value : Values(kind), loose : BOOLEAN])
    /\ kind = "path" => input \in Seq(Segments)
    /\ kind = "session" =>
         /\ input[1].username \in Seq({"admin", Bar}) /\ input[1].lifetime \in Int
         /\ input[3] \in Int /\ input[4] \in Int
    /\ kind = "password" =>
         input.runes \in Nat /\ input.bytes \in Nat /\ input.bytes >= input.runes
    /\ kind = "config" => input \in Bind!Environment

LEMMA InputsAreInputs == Spec => []InputInv
<1>1. Init => InputInv
  <2> SUFFICES ASSUME Init PROVE InputInv
    OBVIOUS
  <2>1. CASE IsSetting /\ input \in Varied(kind)
    BY <2>1, VariedAreSettings DEF InputInv, IsSetting
  <2>2. CASE kind = "path" /\ input \in Paths
    <3>1. PICK n \in 0..5 : input \in [1..n -> Segments]
      BY <2>2 DEF Paths
    <3>2. input \in Seq(Segments)
      <4> HIDE DEF Segments
      <4> QED BY <3>1
    <3> QED BY <2>2, <3>2 DEF InputInv, IsSetting
  <2>3. CASE kind = "session" /\ input \in Uses
    <3>1. PICK i \in Issuers, t \in 0..1, d \in {-120, -3, -2, -1, 0, 1, 2} :
            \E c \in [username : Names, secret : {"new"}, lifetime : {60 * Second}] :
              input = <<i, c, t, t + i.lifetime + d>>
      BY <2>3 DEF Uses
    <3>2. i.username \in Seq({"admin", Bar}) /\ i.lifetime \in Int
      <4>1. i.username \in Names /\ i.lifetime \in {60 * Second - 2, 60 * Second, 120 * Second}
        BY DEF Issuers
      <4>2. PICK n \in 0..3 : i.username \in [1..n -> {"admin", Bar}]
        BY <4>1 DEF Names
      <4>3. i.username \in Seq({"admin", Bar})
        BY <4>2
      <4>4. i.lifetime \in Int
        BY <4>1, InputsAssumption
      <4> QED BY <4>3, <4>4
    <3> QED BY <2>3, <3>1, <3>2 DEF InputInv, IsSetting
  <2>4. CASE kind = "password" /\ input \in {p \in Lengths : p.bytes \in p.runes..(4 * p.runes)}
    <3>1. input.runes \in Nat /\ input.bytes \in Int /\ input.bytes >= input.runes
      BY <2>4 DEF Lengths
    <3> QED BY <2>4, <3>1 DEF InputInv, IsSetting
  <2>5. CASE kind = "config" /\ input \in Bind!Environment
    BY <2>5 DEF InputInv, IsSetting
  <2> QED BY <2>1, <2>2, <2>3, <2>4, <2>5 DEF Init, IsSetting
<1>2. InputInv /\ [Next]_<<kind, input>> => InputInv'
  BY DEF InputInv, Next, IsSetting
<1> QED BY <1>1, <1>2, PTL DEF Spec

\* The run's properties hold of its inputs because they hold of all.
LEMMA InputsAreSound ==
  ASSUME InputInv
  PROVE  /\ WrittenIsReadBack /\ UntouchedFormIsAccepted /\ InsideRoot
         /\ SessionLasts /\ PolicyCoversHash /\ ExposedOnlyAsAsked
<1>1. WrittenIsReadBack /\ UntouchedFormIsAccepted
  BY SettingsAreSound DEF InputInv, WrittenIsReadBack, UntouchedFormIsAccepted, IsSetting
<1>2. InsideRoot
  BY PathsStayInside DEF InputInv, InsideRoot
<1>3. SessionLasts
  BY SessionsLast DEF InputInv, SessionLasts
<1>4. PolicyCoversHash
  BY PolicyIsEnough DEF InputInv, PolicyCoversHash
<1>5. ExposedOnlyAsAsked
  BY ExposureIsAsked DEF InputInv, ExposedOnlyAsAsked
<1> QED BY <1>1, <1>2, <1>3, <1>4, <1>5

\* What is written to the driver reads back (codecs.go).
THEOREM SettingsReadBack == Spec => []WrittenIsReadBack
BY InputsAreInputs, InputsAreSound, PTL

\* A form that was filled from a report is accepted (codecs.go, app.js).
THEOREM FormsAreAccepted == Spec => []UntouchedFormIsAccepted
BY InputsAreInputs, InputsAreSound, PTL

\* The run's paths lead below the root or nowhere (resolve).
THEOREM PathsOfTheRun == Spec => []InsideRoot
BY InputsAreInputs, InputsAreSound, PTL

\* The run's sessions end with their lifetime (Sessions).
THEOREM SessionsOfTheRun == Spec => []SessionLasts
BY InputsAreInputs, InputsAreSound, PTL

\* The run's passwords can be hashed if the policy lets them through.
THEOREM PasswordsOfTheRun == Spec => []PolicyCoversHash
BY InputsAreInputs, InputsAreSound, PTL

\* The run's settings expose only what was asked for (loadConfig).
THEOREM SettingsOfTheRun == Spec => []ExposedOnlyAsAsked
BY InputsAreInputs, InputsAreSound, PTL
=============================================================================
