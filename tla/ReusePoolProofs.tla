---------------------------- MODULE ReusePoolProofs ----------------------------
(***************************************************************************)
(* Proofs about reused calls and the pool of their connections, for any    *)
(* number of calls, authorities and cancellations, and any maxIdle.        *)
(***************************************************************************)
EXTENDS ReusePoolProps, FiniteSetTheorems, WellFoundedInduction, TLAPS

-----------------------------------------------------------------------------
(* Induction over the natural numbers, with a set for the predicate.         *)

\* The order of the natural numbers, as the library has induction for it.
LEMMA LessIsWellFounded ==
  \E R : IsWellFoundedOn(R, Nat) /\ \A x, y \in Nat : y < x => <<y, x>> \in R
  <1>1. \A x, y \in Nat : y < x => <<y, x>> \in OpToRel(<, Nat)
    BY DEF OpToRel
  <1> QED
    BY <1>1, NatLessThanWellFounded, Zenon

\* A set of natural numbers has a least element.
LEMMA LeastElement ==
  ASSUME NEW T, T \subseteq Nat, T # {}
  PROVE  \E x \in T : \A y \in T : x <= y
  <1>1. PICK R : IsWellFoundedOn(R, Nat) /\ \A x, y \in Nat : y < x => <<y, x>> \in R
    BY LessIsWellFounded
  <1>2. PICK x \in T : \A y \in T : ~(<<y, x>> \in R)
    BY <1>1, WFMin, Zenon
  <1>3. \A y \in T : ~(y < x)
    BY <1>1, <1>2
  <1> QED
    BY <1>3

\* A set with 0 and with the successor of each of its numbers has them all.
LEMMA SetInduction ==
  ASSUME NEW T, 0 \in T, \A n \in Nat : n \in T => n + 1 \in T
  PROVE  \A n \in Nat : n \in T
  <1> SUFFICES ASSUME Nat \ T # {} PROVE FALSE
    OBVIOUS
  <1>1. PICK x \in Nat \ T : \A y \in Nat \ T : x <= y
    BY LeastElement
  <1>2. x # 0 /\ x - 1 \in Nat
    BY <1>1
  <1>3. x - 1 \in T
    BY <1>1, <1>2
  <1> QED
    BY <1>1, <1>2, <1>3, x - 1 + 1 = x

-----------------------------------------------------------------------------
(* Sequences.                                                                *)

\* Min is the least element.
LEMMA MinFacts ==
  ASSUME NEW I, I \subseteq Nat, I # {}
  PROVE  Min(I) \in I /\ \A y \in I : Min(I) <= y
  <1>1. PICK x \in I : \A y \in I : x <= y
    BY LeastElement
  <1> QED
    BY <1>1 DEF Min

\* What SelectInSeq returns: I are the places at which the test holds.
LEMMA FirstOf ==
  ASSUME NEW I, I \subseteq Nat \ {0}, NEW i, i = IF I # {} THEN Min(I) ELSE 0
  PROVE  /\ i = 0 => I = {}
         /\ i # 0 => i \in I /\ \A j \in I : i <= j
  BY MinFacts

\* The elements of a sequence.
Elems(P) == {P[i] : i \in DOMAIN P}

\* The recursive function of Only: what it has after place i, and up to place n.
AfterPlace(P, S, f, i) ==
  IF i = 0 THEN <<>> ELSE IF P[i] \in S THEN Append(f[i - 1], P[i]) ELSE f[i - 1]
UpTo(P, S, f, n) == f = [i \in 0..n |-> AfterPlace(P, S, f, i)]

\* The function exists: it is extended place by place.
LEMMA UpToExists ==
  ASSUME NEW P, NEW S
  PROVE  \A n \in Nat : \E f : UpTo(P, S, f, n)
  <1> DEFINE T == {n \in Nat : \E f : UpTo(P, S, f, n)}
  <1>1. 0 \in T
    <2> DEFINE f == [i \in 0..0 |-> <<>>]
    <2>1. UpTo(P, S, f, 0)
      BY DEF UpTo, AfterPlace
    <2> QED
      BY <2>1
  <1>2. ASSUME NEW n \in Nat, n \in T PROVE n + 1 \in T
    <2>1. PICK f : UpTo(P, S, f, n)
      BY <1>2
    <2> DEFINE g == [i \in 0..(n + 1) |-> IF i <= n THEN f[i] ELSE AfterPlace(P, S, f, n + 1)]
    <2>2. DOMAIN f = 0..n /\ \A i \in 0..n : f[i] = AfterPlace(P, S, f, i) /\ g[i] = f[i]
      BY <2>1 DEF UpTo
    <2>3. ASSUME NEW i \in 0..(n + 1) PROVE g[i] = AfterPlace(P, S, g, i)
      <3>1. i # 0 => i - 1 \in 0..n /\ g[i - 1] = f[i - 1]
        BY <2>2
      <3>2. AfterPlace(P, S, g, i) = AfterPlace(P, S, f, i)
        BY <3>1 DEF AfterPlace
      <3>3. i \in 0..n \/ i = n + 1
        OBVIOUS
      <3> QED
        BY <2>2, <3>2, <3>3
    <2>4. UpTo(P, S, g, n + 1)
      <3>1. g = [i \in 0..(n + 1) |-> g[i]]
        OBVIOUS
      <3> HIDE DEF g
      <3> QED
        BY <2>3, <3>1 DEF UpTo
    <2> QED
      BY <2>4
  <1> HIDE DEF T
  <1>3. \A n \in Nat : n \in T
    BY <1>1, <1>2, SetInduction
  <1> QED
    BY <1>3 DEF T

\* Only is what the function has in the end.
LEMMA OnlyIsUpTo ==
  ASSUME NEW P, NEW S, Len(P) \in Nat
  PROVE  \E f : UpTo(P, S, f, Len(P)) /\ Only(P, S) = f[Len(P)]
  <1> DEFINE f == CHOOSE g : UpTo(P, S, g, Len(P))
  <1>1. UpTo(P, S, f, Len(P))
    BY UpToExists, Zenon
  <1>2. Only(P, S) = f[Len(P)]
    BY DEF Only, UpTo, AfterPlace
  <1> QED
    BY <1>1, <1>2

\* A sequence of all those of the first n elements of P that are in S, without
\* repetitions if P has none.
Picks(s, P, S, n) ==
  /\ s \in Seq(Calls) /\ Len(s) <= n
  /\ Elems(s) = {P[i] : i \in 1..n} \cap S
  /\ IsInjective(P) => IsInjective(s)

\* One more element that was not there before.
LEMMA AppendElems ==
  ASSUME NEW s \in Seq(Calls), NEW x \in Calls
  PROVE  /\ Append(s, x) \in Seq(Calls) /\ Len(Append(s, x)) = Len(s) + 1
         /\ Elems(Append(s, x)) = Elems(s) \cup {x}
         /\ IsInjective(s) /\ x \notin Elems(s) => IsInjective(Append(s, x))
  <1> DEFINE t == Append(s, x)
  <1>1. /\ t \in Seq(Calls) /\ Len(t) = Len(s) + 1 /\ Len(s) \in Nat
        /\ DOMAIN t = 1..(Len(s) + 1) /\ DOMAIN s = 1..Len(s)
        /\ t[Len(s) + 1] = x /\ \A i \in 1..Len(s) : t[i] = s[i]
    OBVIOUS
  <1> HIDE DEF t
  <1>2. \A i \in DOMAIN t : i \in DOMAIN s \/ i = Len(s) + 1
    BY <1>1
  <1>3. Elems(t) = Elems(s) \cup {x}
    BY <1>1, <1>2 DEF Elems
  <1>4. IsInjective(s) /\ x \notin Elems(s) => IsInjective(t)
    BY <1>1, <1>2 DEF IsInjective, Elems
  <1> QED
    BY <1>1, <1>3, <1>4 DEF t

\* What Only returns.
LEMMA OnlyPicks ==
  ASSUME NEW P \in Seq(Calls), NEW S
  PROVE  Picks(Only(P, S), P, S, Len(P))
  <1>0. Len(P) \in Nat /\ DOMAIN P = 1..Len(P)
    OBVIOUS
  <1>1. PICK f : UpTo(P, S, f, Len(P)) /\ Only(P, S) = f[Len(P)]
    BY <1>0, OnlyIsUpTo
  <1> DEFINE T == {n \in Nat : n <= Len(P) => Picks(f[n], P, S, n)}
  <1>2. 0 \in T
    <2>1. f[0] = <<>>
      BY <1>0, <1>1 DEF UpTo, AfterPlace
    <2>2. Picks(<<>>, P, S, 0)
      BY DEF Picks, Elems, IsInjective
    <2> QED
      BY <2>1, <2>2
  <1>3. ASSUME NEW n \in Nat, n \in T PROVE n + 1 \in T
    <2> SUFFICES ASSUME n + 1 <= Len(P) PROVE Picks(f[n + 1], P, S, n + 1)
      OBVIOUS
    <2>1. Picks(f[n], P, S, n) /\ n + 1 - 1 = n /\ n + 1 # 0 /\ n + 1 \in 0..Len(P)
      BY <1>0, <1>3
    <2>2. f[n + 1] = AfterPlace(P, S, f, n + 1)
      BY <1>1, <2>1 DEF UpTo
    <2>3. /\ P[n + 1] \in Calls
          /\ IsInjective(P) => P[n + 1] \notin {P[i] : i \in 1..n}
      BY <1>0, <2>1 DEF IsInjective
    <2>4. {P[i] : i \in 1..(n + 1)} = {P[i] : i \in 1..n} \cup {P[n + 1]}
      <3>1. \A i : i \in 1..(n + 1) <=> i \in 1..n \/ i = n + 1
        OBVIOUS
      <3> QED
        BY <3>1
    <2>5. CASE P[n + 1] \in S
      <3>1. f[n + 1] = Append(f[n], P[n + 1])
        BY <2>1, <2>2, <2>5 DEF AfterPlace
      <3>2. IsInjective(P) => P[n + 1] \notin Elems(f[n])
        BY <2>1, <2>3 DEF Picks
      <3>3. /\ f[n + 1] \in Seq(Calls) /\ Len(f[n + 1]) = Len(f[n]) + 1
            /\ Elems(f[n + 1]) = Elems(f[n]) \cup {P[n + 1]}
            /\ IsInjective(P) => IsInjective(f[n + 1])
        BY <2>1, <2>3, <3>1, <3>2, AppendElems DEF Picks
      <3>4. Len(f[n]) \in Nat /\ Len(f[n]) <= n
        BY <2>1 DEF Picks
      <3>5. Len(f[n + 1]) <= n + 1
        BY <3>3, <3>4
      <3>6. Elems(f[n + 1]) = {P[i] : i \in 1..(n + 1)} \cap S
        BY <2>1, <2>4, <2>5, <3>3 DEF Picks
      <3> QED
        BY <3>3, <3>5, <3>6 DEF Picks
    <2>6. CASE P[n + 1] \notin S
      <3>1. f[n + 1] = f[n]
        BY <2>1, <2>2, <2>6 DEF AfterPlace
      <3>2. Elems(f[n]) = {P[i] : i \in 1..(n + 1)} \cap S
        BY <2>1, <2>4, <2>6 DEF Picks
      <3>3. Len(f[n]) \in Nat /\ Len(f[n]) <= n
        BY <2>1 DEF Picks
      <3>4. Len(f[n]) <= n + 1
        BY <3>3
      <3> QED
        BY <2>1, <3>1, <3>2, <3>4 DEF Picks
    <2> QED
      BY <2>5, <2>6
  <1> HIDE DEF T
  <1>4. \A n \in Nat : n \in T
    BY <1>2, <1>3, SetInduction
  <1> QED
    BY <1>0, <1>1, <1>4 DEF T

\* Without an element the sequence is shorter, if it was there.
LEMMA DeleteFacts ==
  ASSUME NEW P \in Seq(Calls), NEW k
  PROVE  /\ Delete(P, k) \in Seq(Calls)
         /\ IsInjective(P) => IsInjective(Delete(P, k))
         /\ Elems(Delete(P, k)) = Elems(P) \ {k}
         /\ Len(Delete(P, k)) <= Len(P)
  <1>1. Picks(Delete(P, k), P, Calls \ {k}, Len(P))
    BY OnlyPicks DEF Delete
  <1>2. Elems(P) = {P[i] : i \in 1..Len(P)} /\ Elems(P) \subseteq Calls
    BY DEF Elems
  <1> QED
    BY <1>1, <1>2 DEF Picks

\* A sequence without repetitions has as many elements as it is long.
LEMMA CountElems ==
  ASSUME NEW P \in Seq(Calls), IsInjective(P)
  PROVE  IsFiniteSet(Elems(P)) /\ Cardinality(Elems(P)) = Len(P)
  <1>1. Len(P) \in Nat /\ DOMAIN P = 1..Len(P) /\ P \in [1..Len(P) -> Elems(P)]
    BY DEF Elems
  <1>2. IsFiniteSet(1..Len(P)) /\ Cardinality(1..Len(P)) = Len(P)
    BY <1>1, FS_Interval
  <1>3. P \in Bijection(1..Len(P), Elems(P))
    BY <1>1 DEF Bijection, Injection, Surjection, IsInjective, Elems
  <1>4. ExistsBijection(1..Len(P), Elems(P))
    BY <1>3 DEF ExistsBijection
  <1> QED
    BY <1>2, <1>4, FS_Bijection, Zenon

\* Without an element that was there it is one shorter.
LEMMA DeleteShortens ==
  ASSUME NEW P \in Seq(Calls), IsInjective(P), NEW k \in Elems(P)
  PROVE  Len(Delete(P, k)) = Len(P) - 1
  <1>1. /\ Delete(P, k) \in Seq(Calls) /\ IsInjective(Delete(P, k))
        /\ Elems(Delete(P, k)) = Elems(P) \ {k}
    BY DeleteFacts
  <1>2. /\ IsFiniteSet(Elems(P)) /\ Cardinality(Elems(P)) = Len(P)
        /\ Cardinality(Elems(P) \ {k}) = Len(Delete(P, k))
    BY <1>1, CountElems
  <1> QED
    BY <1>2, FS_RemoveElement

-----------------------------------------------------------------------------
(* cleanUp.                                                                  *)

\* The connection that has been idle longest is one of them.
LEMMA LongestFacts ==
  ASSUME NEW P \in Seq(Calls), Len(responded) \in Nat
  PROVE  /\ Longest(P) \in Elems(P) \cup {None}
         /\ P # <<>> => Longest(P) \in Elems(P)
  <1> DEFINE I == {i \in 1..Len(responded) : Contains(P, responded[i])}
             i == SelectInSeq(responded, LAMBDA k : Contains(P, k))
  <1>1. i = IF I # {} THEN Min(I) ELSE 0
    BY DEF SelectInSeq
  <1>2. i # 0 => i \in I
    <2>1. I \subseteq Nat \ {0}
      OBVIOUS
    <2> HIDE DEF I, i
    <2> QED
      BY <1>1, <2>1, FirstOf
  <1>3. Longest(P) = IF i # 0 THEN responded[i] ELSE IF P = <<>> THEN None ELSE Head(P)
    BY DEF Longest
  <1>4. P # <<>> => Head(P) = P[1] /\ 1 \in DOMAIN P
    OBVIOUS
  <1>5. DOMAIN P = 1..Len(P)
    OBVIOUS
  <1>6. i # 0 => responded[i] \in Elems(P)
    BY <1>2, <1>5 DEF Contains, Elems
  <1> HIDE DEF i
  <1> QED
    BY <1>3, <1>4, <1>6 DEF Elems

\* No connection of P is destroyed.
NoneDestroyed(P) == \A i \in DOMAIN P : ~isDestroy[P[i]]

\* FirstDestroyed finds a destroyed one, if there is one.
LEMMA FirstDestroyedFacts ==
  ASSUME NEW P \in Seq(Calls)
  PROVE  /\ FirstDestroyed(P) = 0 <=> NoneDestroyed(P)
         /\ FirstDestroyed(P) # 0 => FirstDestroyed(P) \in 1..Len(P)
  <1> DEFINE I == {i \in 1..Len(P) : isDestroy[P[i]]}
  <1>1. FirstDestroyed(P) = IF I # {} THEN Min(I) ELSE 0
    BY DEF FirstDestroyed, SelectInSeq
  <1>2. /\ FirstDestroyed(P) = 0 => I = {}
        /\ FirstDestroyed(P) # 0 => FirstDestroyed(P) \in I
    <2>1. I \subseteq Nat \ {0}
      OBVIOUS
    <2> HIDE DEF I
    <2> QED
      BY <1>1, <2>1, FirstOf
  <1>3. DOMAIN P = 1..Len(P) /\ Len(P) \in Nat
    OBVIOUS
  <1> QED
    BY <1>2, <1>3 DEF NoneDestroyed

\* cleanUp leaves connections that were there, evicts at most one of them, and
\* leaves no more than maxIdleConnections, unless it gave up at a destroyed one.
LEMMA CleanUpFacts ==
  ASSUME NEW P \in Seq(Calls), IsInjective(P), responded \in Seq(Calls), NEW r \in cleanUp(P)
  PROVE  /\ r.rest \in Seq(Calls) /\ IsInjective(r.rest) /\ Elems(r.rest) \subseteq Elems(P)
         /\ r.evicted \in Elems(P) \cup {None}
         /\ NoneDestroyed(P) /\ Len(P) <= MaxIdle + 1 => Len(r.rest) <= MaxIdle
  <1> DEFINE d == FirstDestroyed(P)
             l == Longest(P)
             e == Longest(SubSeq(P, 1, d - 1))
  <1>0. Len(P) \in Nat /\ MaxIdle \in Nat /\ Len(responded) \in Nat
    BY ReusePoolAssumption
  <1>1. \/ d # 0 /\ r.rest = Delete(P, e) /\ r.evicted = None
        \/ d = 0 /\ r.rest = Delete(P, l) /\ r.evicted = l
        \/ d = 0 /\ r.rest = P /\ r.evicted = None /\ Len(P) <= MaxIdle
    BY <1>0 DEF cleanUp
  <1>2. /\ l \in Elems(P) \cup {None}
        /\ P # <<>> => l \in Elems(P)
        /\ d = 0 <=> NoneDestroyed(P)
    BY <1>0, LongestFacts, FirstDestroyedFacts
  <1> HIDE DEF d, l, e
  <1>3. CASE d # 0 /\ r.rest = Delete(P, e) /\ r.evicted = None
    BY <1>2, <1>3, DeleteFacts
  <1>4. CASE d = 0 /\ r.rest = Delete(P, l) /\ r.evicted = l
    <2>1. CASE P = <<>>
      <3>1. Len(P) = 0 /\ Len(r.rest) <= Len(P)
        BY <1>4, <2>1, DeleteFacts
      <3>2. Len(r.rest) \in Nat
        BY <1>4, DeleteFacts
      <3>3. Len(r.rest) <= MaxIdle
        BY <1>0, <3>1, <3>2
      <3>4. /\ r.rest \in Seq(Calls) /\ IsInjective(r.rest)
            /\ Elems(r.rest) \subseteq Elems(P) /\ r.evicted \in Elems(P) \cup {None}
        BY <1>2, <1>4, DeleteFacts
      <3> QED
        BY <3>3, <3>4
    <2>2. CASE P # <<>>
      <3>1. l \in Elems(P)
        BY <1>2, <2>2
      <3>2. Len(r.rest) = Len(P) - 1
        BY <1>4, <3>1, DeleteShortens
      <3> QED
        BY <1>0, <1>4, <3>1, <3>2, DeleteFacts
    <2> QED
      BY <2>1, <2>2
  <1>5. CASE d = 0 /\ r.rest = P /\ r.evicted = None /\ Len(P) <= MaxIdle
    BY <1>5
  <1> QED
    BY <1>1, <1>3, <1>4, <1>5

-----------------------------------------------------------------------------
(* The inductive invariant.                                                  *)

FrameRec == [at : Places, on : Calls \cup {None}]

\* Where a method is that has called no other, and nothing has called: the
\* frame is alone.
Alone == {"start", "get", "got", "put", "send", "cancel", "cache", "native", "refused",
          "destroy"}

\* Where a thread can be that has frames below: sending, telling a listener,
\* closing what cleanUp evicts, in onOpen, or in a block of its own on a lock.
Below == {"sending", "told", "add", "unpooled", "drain", "net", "serve"}
Evicting == {"add", "unpooled"}

\* The first methods of a thread, below all others; and the frames that are left
\* at once when what they called returns.
Bottom == {"sending", "add", "drain", "net", "serve"}
Dropped == {"sending", "told", "serve"}

\* The frame a listener is told from, in the method of g.
Tells(f, g) ==
  \/ g.at \in {"add", "unpooled", "net"}
  \/ g.at \in {"sending", "drain"} /\ g.on = f.on

\* The frames of a thread, by what calls what.
Shape(s) ==
  /\ \A i \in DOMAIN s : i # 1 => s[i].at \in Below
  /\ \A i \in DOMAIN s : s[i].at \in Bottom => i = Len(s)
  /\ \A i \in DOMAIN s : s[i].at = "told" /\ i + 1 \in DOMAIN s => Tells(s[i], s[i + 1])
  /\ \A i \in DOMAIN s : s[i].at = "drain" => i = 1 \/ s[i - 1].at = "told"
  /\ s # <<>> =>
       /\ s[1].at \notin Dropped
       /\ s[1].at \in Alone => Len(s) = 1
       /\ s[1].at = "offer" => Len(s) = 2 /\ s[2] = Frame("sending", s[1].on)
       /\ s[1].at = "close" => Len(s) > 1 /\ s[2].at \in {"add", "unpooled", "net"}
       /\ s[1].at = "release" => Len(s) = 1 \/ s[2] = Frame("told", s[1].on)

\* The web socket of a connection was made.
Begun(k) == loop[k] # "none"

\* What the connection of a frame is like.
FrameOk(f) ==
  /\ f.at \notin {"start", "get", "got", "put", "add", "cancel"} => f.on \in Calls /\ Begun(f.on)
  /\ f.at \in {"told", "release"} => Dying(f.on)

StackInv ==
  \A t \in Threads : Shape(stack[t]) /\ \A i \in DOMAIN stack[t] : FrameOk(stack[t][i])

\* Some frame of t is at one of these places.
In(t, places) == \E i \in DOMAIN stack[t] : stack[t][i].at \in places
InOn(t, places, k) ==
  \E i \in DOMAIN stack[t] : stack[t][i].at \in places /\ stack[t][i].on = k

\* No lock has two holders.
LockInv ==
  \A t, u \in Threads : t # u => ~ \E l : Holds(t, l) /\ Holds(u, l)

\* A connection that nobody has made is nowhere; its maker has yet to come to it.
ConnInv ==
  /\ \A k \in Calls : xWebSocket[k] => Begun(k)
  /\ \A k \in Calls : loop[k] = "none" =>
       xCallBackMap[k] = {} /\ k \notin Elems(pool) /\ \A c \in Calls : connection[c] # k
  /\ \A c \in Calls : In(Worker(c), {"start", "get", "got"}) => loop[c] = "none"
  /\ \A c \in Calls : In(Worker(c), {"put", "add"}) => loop[c] # "none" /\ c \notin Elems(pool)

BaseInv == TypeOK /\ StackInv /\ LockInv /\ ConnInv

\* A call is not yet registered, or it has its answer, or is registered.
CallInv ==
  \A c \in Calls :
    \/ Worker(c) \in thrown
    \/ In(Worker(c), {"start", "get", "got", "send"})
    \/ c \in answered \cup canceled
    \/ \E k \in Calls : c \in xCallBackMap[k]

\* The loop thread of a connection that ended tells the calls registered in it.
EndInv ==
  /\ \A c \in Calls : In(Worker(c), {"cancel"}) => Worker(c) \in thrown
  /\ \A k \in Calls : loop[k] = "ended" /\ Loop(k) \notin thrown =>
       /\ isDestroy[k] \/ InOn(Loop(k), {"release"}, k)
       /\ xCallBackMap[k] = {} \/ InOn(Loop(k), {"release", "unpool", "unpooled"}, k)

\* There is room for one more connection: cleanUp makes it, or finds no need.
Room == Cardinality(Alive) <= MaxIdle
RoomToMake == Room \/ NoneDestroyed(pool)

\* What the holder of TAG knows of the pool.
PoolInv ==
  /\ PoolSound
  /\ \A c \in Calls :
       /\ In(Worker(c), {"got"}) =>
            /\ \A j \in Alive : authority[j] = authority[c] => j = connection[c]
            /\ connection[c] \in Alive \/ RoomToMake
       /\ In(Worker(c), {"put", "add"}) => \A j \in Alive : authority[j] # authority[c]
       /\ In(Worker(c), {"put"}) => RoomToMake
       /\ In(Worker(c), {"add"}) => Room

-----------------------------------------------------------------------------
(* Frames.                                                                   *)

\* What there is after the top frame became f ...
LEMMA OneFrame ==
  ASSUME NEW s \in Seq(FrameRec), s # <<>>, NEW f \in FrameRec, NEW t, t = <<f>> \o Tail(s)
  PROVE  /\ t \in Seq(FrameRec) /\ Len(t) = Len(s) /\ t # <<>> /\ t[1] = f
         /\ \A i \in 2..Len(s) : t[i] = s[i]
  <1>1. Tail(s) \in Seq(FrameRec) /\ Len(Tail(s)) = Len(s) - 1 /\ Len(s) \in Nat \ {0}
    OBVIOUS
  <1>2. \A i \in 1..(Len(s) - 1) : Tail(s)[i] = s[i + 1]
    OBVIOUS
  <1>3. <<f>> \in Seq(FrameRec) /\ Len(<<f>>) = 1 /\ <<f>>[1] = f
    OBVIOUS
  <1>4. t \in Seq(FrameRec) /\ Len(t) = Len(s)
    BY <1>1, <1>3
  <1>5. t[1] = f
    BY <1>1, <1>3
  <1>6. ASSUME NEW i \in 2..Len(s) PROVE t[i] = s[i]
    <2>1. t[i] = Tail(s)[i - 1]
      BY <1>1, <1>3
    <2> QED
      BY <1>1, <1>2, <2>1
  <1>7. t # <<>>
    BY <1>1, <1>4
  <1> QED
    BY <1>4, <1>5, <1>6, <1>7

\* ... and after it became f, called from g.
LEMMA TwoFrames ==
  ASSUME NEW s \in Seq(FrameRec), s # <<>>, NEW f \in FrameRec, NEW g \in FrameRec,
         NEW t, t = <<f, g>> \o Tail(s)
  PROVE  /\ t \in Seq(FrameRec) /\ Len(t) = Len(s) + 1 /\ t # <<>> /\ t[1] = f /\ t[2] = g
         /\ \A i \in 2..Len(s) : t[i + 1] = s[i]
  <1>1. Tail(s) \in Seq(FrameRec) /\ Len(Tail(s)) = Len(s) - 1 /\ Len(s) \in Nat \ {0}
    OBVIOUS
  <1>2. \A i \in 1..(Len(s) - 1) : Tail(s)[i] = s[i + 1]
    OBVIOUS
  <1>3. <<f, g>> \in Seq(FrameRec) /\ Len(<<f, g>>) = 2 /\ <<f, g>>[1] = f /\ <<f, g>>[2] = g
    OBVIOUS
  <1>4. t \in Seq(FrameRec) /\ Len(t) = Len(s) + 1
    BY <1>1, <1>3
  <1>5. t[1] = f /\ t[2] = g
    BY <1>1, <1>3
  <1>6. ASSUME NEW i \in 2..Len(s) PROVE t[i + 1] = s[i]
    <2>1. t[i + 1] = Tail(s)[i - 1]
      BY <1>1, <1>3
    <2> QED
      BY <1>1, <1>2, <2>1
  <1>7. t # <<>>
    BY <1>1, <1>4
  <1> QED
    BY <1>4, <1>5, <1>6, <1>7

\* A frame before another one.
LEMMA TwoTogether ==
  ASSUME NEW f \in FrameRec, NEW g \in FrameRec
  PROVE  <<f>> \o <<g>> = <<f, g>>
  <1> DEFINE a == <<f>> \o <<g>>
             b == <<f, g>>
  <1>1. a \in Seq(FrameRec) /\ Len(a) = 2 /\ a[1] = f /\ a[2] = g
    OBVIOUS
  <1>2. b \in Seq(FrameRec) /\ Len(b) = 2 /\ b[1] = f /\ b[2] = g
    OBVIOUS
  <1> HIDE DEF a, b
  <1>3. a \in [1..2 -> FrameRec] /\ b \in [1..2 -> FrameRec]
    BY <1>1, <1>2
  <1>4. \A i \in 1..2 : i = 1 \/ i = 2
    OBVIOUS
  <1>5. \A i \in 1..2 : a[i] = b[i]
    BY <1>1, <1>2, <1>4
  <1>6. a = b
    BY <1>3, <1>5
  <1> QED
    BY <1>6 DEF a, b

\* The frames that are left when a method returns: those from the first one
\* that has something left to do.
Rest(s) ==
  LET rest == Tail(s)
      i == SelectInSeq(rest, LAMBDA f : f.at \notin {"sending", "told", "serve"})
  IN IF i = 0 THEN <<>> ELSE SubSeq(rest, i, Len(rest))

\* t are the last frames of s from place j on, or none of them.
IsRest(s, t, j) ==
  /\ j \in 2..(Len(s) + 1)
  /\ t \in Seq(FrameRec) /\ Len(t) = Len(s) + 1 - j
  /\ \A i \in 1..Len(t) : t[i] = s[i + j - 1]
  /\ \A i \in 2..(j - 1) : s[i].at \in {"sending", "told", "serve"}
  /\ j <= Len(s) => s[j].at \notin {"sending", "told", "serve"}

\* Rest drops the frames at the head that wait for messages.
LEMMA RestIs ==
  ASSUME NEW s \in Seq(FrameRec), s # <<>>
  PROVE  \E j : IsRest(s, Rest(s), j)
  <1> DEFINE r == Tail(s)
             I == {i \in 1..Len(r) : r[i].at \notin {"sending", "told", "serve"}}
             i == SelectInSeq(r, LAMBDA f : f.at \notin {"sending", "told", "serve"})
  <1>1. i = IF I # {} THEN Min(I) ELSE 0
    BY DEF SelectInSeq
  <1>2. /\ i = 0 => I = {}
        /\ i # 0 => i \in I /\ \A j \in I : i <= j
    <2>1. I \subseteq Nat \ {0}
      OBVIOUS
    <2> HIDE DEF I, i
    <2> QED
      BY <1>1, <2>1, FirstOf
  <1>3. Rest(s) = IF i = 0 THEN <<>> ELSE SubSeq(r, i, Len(r))
    BY DEF Rest
  <1> HIDE DEF i
  <1>4. r \in Seq(FrameRec) /\ Len(r) = Len(s) - 1 /\ Len(s) \in Nat \ {0}
    OBVIOUS
  <1>5. \A k \in 2..Len(s) : s[k] = r[k - 1] /\ k - 1 \in 1..Len(r)
    OBVIOUS
  <1> HIDE DEF r
  <1>6. CASE i = 0
    <2>1. \A k \in 2..Len(s) : s[k].at \in {"sending", "told", "serve"}
      BY <1>2, <1>5, <1>6
    <2>2. Rest(s) = <<>>
      BY <1>3, <1>6
    <2>3. IsRest(s, <<>>, Len(s) + 1)
      BY <1>4, <2>1 DEF IsRest
    <2> QED
      BY <2>2, <2>3
  <1>7. CASE i # 0
    <2>1. i \in 1..Len(r) /\ r[i].at \notin {"sending", "told", "serve"}
      BY <1>2, <1>7
    <2>2. \A k \in 1..(i - 1) : r[k].at \in {"sending", "told", "serve"}
      BY <1>2, <1>4, <1>7, <2>1
    <2>3. Rest(s) = SubSeq(r, i, Len(r))
      BY <1>3, <1>7
    <2>4. /\ Rest(s) \in Seq(FrameRec) /\ Len(Rest(s)) = Len(r) + 1 - i
          /\ \A k \in 1..Len(Rest(s)) : Rest(s)[k] = r[k + i - 1]
      BY <1>4, <2>1, <2>3
    <2>0. PICK n \in Nat, m \in Nat, p \in Nat :
             n = Len(s) /\ m = Len(r) /\ p = Len(Rest(s)) /\ m = n - 1 /\ p = m + 1 - i
      BY <1>4, <2>1, <2>4
    <2>10. i \in Nat /\ 1 <= i /\ i <= m
      BY <2>0, <2>1
    <2>5. Len(Rest(s)) = Len(s) + 1 - (i + 1) /\ i + 1 \in 2..(Len(s) + 1)
      <3>1. p = n + 1 - (i + 1) /\ i + 1 \in 2..(n + 1)
        BY <2>0, <2>10
      <3> QED
        BY <2>0, <3>1
    <2>6. \A k \in 1..Len(Rest(s)) : Rest(s)[k] = s[k + (i + 1) - 1]
      <3> SUFFICES ASSUME NEW k \in 1..p PROVE Rest(s)[k] = s[k + (i + 1) - 1]
        BY <2>0
      <3>1. k + i \in 2..n /\ k + (i + 1) - 1 = k + i
        BY <2>0, <2>10
      <3>2. \A x \in 2..n : s[x] = r[x - 1]
        BY <1>5, <2>0
      <3>4. s[k + i] = r[k + i - 1]
        BY <2>10, <3>1, <3>2
      <3>3. Rest(s)[k] = r[k + i - 1]
        BY <2>0, <2>4
      <3> QED
        BY <3>1, <3>3, <3>4
    <2>7. \A k \in 2..i : s[k].at \in {"sending", "told", "serve"}
      <3> SUFFICES ASSUME NEW k \in 2..i PROVE s[k].at \in {"sending", "told", "serve"}
        OBVIOUS
      <3>1. k \in 2..n /\ k - 1 \in 1..(i - 1)
        BY <2>0, <2>10
      <3> QED
        BY <1>5, <2>0, <2>2, <3>1
    <2>8. s[i + 1] = r[i]
      BY <1>4, <1>5, <2>1
    <2>9. PICK j : j = i + 1
      OBVIOUS
    <2>11. /\ j \in 2..(Len(s) + 1) /\ Len(Rest(s)) = Len(s) + 1 - j
           /\ \A k \in 1..Len(Rest(s)) : Rest(s)[k] = s[k + j - 1]
           /\ s[j].at \notin {"sending", "told", "serve"}
      BY <2>1, <2>5, <2>6, <2>8, <2>9
    <2>12. j - 1 = i
      BY <2>9, <2>10
    <2>13. \A k \in 2..(j - 1) : s[k].at \in {"sending", "told", "serve"}
      BY <2>7, <2>12
    <2> QED
      BY <2>4, <2>11, <2>13 DEF IsRest
  <1> QED
    BY <1>6, <1>7

\* Return leaves the rest of the frames.
LEMMA ReturnIs ==
  ASSUME NEW t, Return(t)
  PROVE  stack' = [stack EXCEPT ![t] = Rest(stack[t])]
  BY DEF Return, Rest

\* What is left of the frames has the shape of frames.
LEMMA ShapeRest ==
  ASSUME NEW s \in Seq(FrameRec), Shape(s), NEW t, NEW j, IsRest(s, t, j)
  PROVE  Shape(t)
  <1>1. PICK n \in Nat, m \in Nat : n = Len(s) /\ m = Len(t) /\ j \in 2..(n + 1) /\ m = n + 1 - j
    BY DEF IsRest
  <1>2. DOMAIN s = 1..n /\ DOMAIN t = 1..m /\ t \in Seq(FrameRec)
    BY <1>1 DEF IsRest
  <1>3. \A i \in 1..m : i + j - 1 \in 1..n /\ i + j - 1 # 1 /\ t[i] = s[i + j - 1]
    <2>1. \A i \in 1..m : i + j - 1 \in 1..n /\ i + j - 1 # 1
      BY <1>1
    <2>2. \A i \in 1..Len(t) : t[i] = s[i + j - 1]
      BY DEF IsRest
    <2> QED
      BY <1>1, <2>1, <2>2
  <1>4. \A i \in DOMAIN t : t[i].at \in Below
    BY <1>2, <1>3 DEF Shape
  <1>5. m # 0 => t[1].at \notin Dropped
    <2>1. m # 0 => j <= n /\ 1 + j - 1 = j /\ 1 \in 1..m
      BY <1>1
    <2> QED
      BY <1>1, <1>3, <2>1 DEF IsRest, Dropped
  <1>6. ASSUME NEW i \in DOMAIN t, t[i].at = "told", i + 1 \in DOMAIN t
        PROVE  Tells(t[i], t[i + 1])
    <2>1. PICK k \in 1..n : k = i + j - 1 /\ t[i] = s[k]
      BY <1>2, <1>3
    <2>2. i + 1 \in 1..m /\ k + 1 = i + 1 + j - 1
      <3>1. i \in 1..m /\ i + 1 \in 1..m /\ j \in Nat /\ k = i + j - 1
        BY <1>1, <1>2, <1>6, <2>1
      <3> QED
        BY <3>1
    <2>3. k + 1 \in 1..n /\ t[i + 1] = s[k + 1]
      BY <1>3, <2>2
    <2> QED
      BY <1>2, <1>6, <2>1, <2>3 DEF Shape
  <1>7. t # <<>> => t[1].at \in {"add", "unpooled", "drain", "net"}
    BY <1>2, <1>4, <1>5 DEF Below, Dropped
  <1>8. ASSUME NEW i \in DOMAIN t, t[i].at \in Bottom PROVE i = Len(t)
    <2>1. PICK k \in 1..n : k = i + j - 1 /\ t[i] = s[k]
      BY <1>2, <1>3
    <2>2. k = n
      BY <1>1, <1>2, <1>8, <2>1 DEF Shape
    <2>3. i \in 1..m /\ j \in Nat /\ m = n + 1 - j /\ n = i + j - 1
      BY <1>1, <1>2, <2>1, <2>2
    <2>4. i = m
      BY <2>3
    <2> QED
      BY <1>1, <2>4
  <1>9. ASSUME NEW i \in DOMAIN t, t[i].at = "drain", i # 1 PROVE t[i - 1].at = "told"
    <2>1. PICK k \in 1..n : k = i + j - 1 /\ t[i] = s[k]
      BY <1>2, <1>3
    <2>2. PICK h \in 1..m : h = i - 1
      BY <1>2, <1>9
    <2>3. h + j - 1 = k - 1 /\ k # 1
      <3>1. i \in 1..m /\ i # 1 /\ j \in 2..(n + 1) /\ h = i - 1 /\ k = i + j - 1
        BY <1>1, <1>2, <1>9, <2>1, <2>2
      <3> QED
        BY <3>1
    <2>4. t[h] = s[h + j - 1]
      BY <1>3
    <2>5. s[k - 1].at = "told"
      BY <1>2, <1>9, <2>1, <2>3 DEF Shape
    <2> QED
      BY <2>2, <2>3, <2>4, <2>5
  <1> QED
    BY <1>4, <1>6, <1>7, <1>8, <1>9 DEF Shape, Alone, Dropped

\* One frame in the place of another.
LEMMA ShapeOne ==
  ASSUME NEW s \in Seq(FrameRec), Shape(s), s # <<>>, NEW f \in FrameRec, NEW t,
         t = <<f>> \o Tail(s),
         f.at \notin Below \cup {"offer", "close", "release"} \/ f.at = "unpooled",
         f.at \in Alone => Len(s) = 1
  PROVE  Shape(t)
  <1>1. /\ t \in Seq(FrameRec) /\ Len(t) = Len(s) /\ t # <<>> /\ t[1] = f
        /\ \A i \in 2..Len(s) : t[i] = s[i]
    BY OneFrame
  <1>2. DOMAIN t = DOMAIN s /\ \A i \in DOMAIN t : i # 1 => t[i] = s[i]
    BY <1>1
  <1>3. \A i \in DOMAIN t : i + 1 \in DOMAIN t => i + 1 # 1
    BY <1>1
  <1>4. f.at \notin Bottom \cup Dropped \cup {"told", "offer", "close", "release"}
    BY DEF Below, Bottom, Dropped
  <1>5. ASSUME NEW i \in DOMAIN t, t[i].at = "drain", i # 1 PROVE t[i - 1].at = "told"
    <2>1. t[i] = s[i] /\ s[i - 1].at = "told"
      BY <1>2, <1>5 DEF Shape
    <2>2. i - 1 # 1
      BY <2>1 DEF Shape, Dropped
    <2>3. i - 1 \in DOMAIN t
      BY <1>1, <1>5
    <2> QED
      BY <1>2, <2>1, <2>2, <2>3
  <1> QED
    BY <1>1, <1>2, <1>3, <1>4, <1>5 DEF Shape

\* The frames a method and the one it calls can become.
Pair(s, f, g) ==
  \/ f.at = "offer" /\ g = Frame("sending", f.on) /\ Len(s) = 1
  \/ f.at = "close" /\ g.at = "unpooled"
  \/ f.at = "close" /\ g.at = "add" /\ Len(s) = 1
  \/ f.at = "error" /\ g.at = "serve" /\ Len(s) = 1
  \/ f.at = "release" /\ g = Frame("told", f.on) /\ s[1].at \in {"offer", "close"}
     /\ s[1].on = f.on
  \/ f.at = "release" /\ g = Frame("told", f.on) /\ Len(s) = 1

\* Two frames in the place of one.
LEMMA ShapeTwo ==
  ASSUME NEW s \in Seq(FrameRec), Shape(s), s # <<>>, NEW f \in FrameRec, NEW g \in FrameRec,
         NEW t, t = <<f, g>> \o Tail(s), Pair(s, f, g)
  PROVE  Shape(t)
  <1>1. PICK n \in Nat \ {0} : n = Len(s) /\ DOMAIN s = 1..n
    OBVIOUS
  <1>2. /\ t \in Seq(FrameRec) /\ Len(t) = n + 1 /\ t # <<>> /\ t[1] = f /\ t[2] = g
        /\ \A i \in 2..n : t[i + 1] = s[i]
    BY <1>1, TwoFrames
  <1>3. DOMAIN t = 1..(n + 1)
    BY <1>2
  <1>4. ASSUME NEW i \in DOMAIN t
        PROVE  i = 1 \/ i = 2 \/ (i - 1 \in 2..n /\ t[i] = s[i - 1])
    <2>1. i - 1 \in 2..n => t[i - 1 + 1] = s[i - 1]
      BY <1>2
    <2>2. i = 1 \/ i = 2 \/ (i - 1 \in 2..n /\ i - 1 + 1 = i)
      BY <1>3
    <2> QED
      BY <2>1, <2>2
  <1>5. /\ f.at \in {"offer", "close", "error", "release"}
        /\ g.at \in {"sending", "unpooled", "add", "serve", "told"}
        /\ g.at \in {"sending", "add", "serve"} => n = 1
    BY <1>1 DEF Pair, Frame
  <1>6. ASSUME g.at = "told", 3 \in DOMAIN t PROVE Tells(g, t[3])
    <2>1. g.on = f.on /\ s[1].at \in {"offer", "close"} /\ s[1].on = f.on
      BY <1>1, <1>3, <1>6 DEF Pair, Frame
    <2>2. 2 \in 2..n /\ t[3] = s[2]
      BY <1>2, <1>3, <1>6
    <2>3. s[2] = Frame("sending", s[1].on) \/ s[2].at \in {"add", "unpooled", "net"}
      BY <2>1 DEF Shape
    <2>4. (t[3].at = "sending" /\ t[3].on = g.on) \/ t[3].at \in {"add", "unpooled", "net"}
      <3>1. PICK x : x = s[1].on
        OBVIOUS
      <3>2. Frame("sending", x).at = "sending" /\ Frame("sending", x).on = x
        BY DEF Frame
      <3> QED
        BY <2>1, <2>2, <2>3, <3>1, <3>2
    <2> QED
      BY <2>4 DEF Tells
  <1>7. ASSUME NEW i \in DOMAIN t, i # 1 PROVE t[i].at \in Below
    <2>1. CASE i = 2
      BY <1>2, <1>5, <2>1 DEF Below
    <2>2. CASE i - 1 \in 2..n /\ t[i] = s[i - 1]
      BY <1>1, <2>2 DEF Shape
    <2> QED
      BY <1>4, <1>7, <2>1, <2>2
  <1>8. ASSUME NEW i \in DOMAIN t, t[i].at = "told", i + 1 \in DOMAIN t
        PROVE  Tells(t[i], t[i + 1])
    <2>1. CASE i = 1
      BY <1>2, <1>5, <1>8, <2>1
    <2>2. CASE i = 2
      BY <1>2, <1>6, <1>8, <2>2
    <2>3. CASE i - 1 \in 2..n /\ t[i] = s[i - 1]
      <3>1. PICK k \in 2..n : k = i - 1
        BY <2>3
      <3>2. k + 1 \in 2..n /\ k + 1 = i
        <4>1. i \in 1..(n + 1) /\ i + 1 \in 1..(n + 1)
          BY <1>3, <1>8
        <4> QED
          BY <3>1, <4>1
      <3>3. t[i + 1] = s[i] /\ s[i] = s[k + 1]
        BY <1>2, <3>2
      <3> QED
        BY <1>1, <1>8, <2>3, <3>1, <3>2, <3>3 DEF Shape
    <2> QED
      BY <1>4, <2>1, <2>2, <2>3
  <1>9. t[1].at = "offer" => Len(t) = 2 /\ t[2] = Frame("sending", t[1].on)
    BY <1>1, <1>2 DEF Pair
  <1>10. t[1].at = "close" => Len(t) > 1 /\ t[2].at \in {"add", "unpooled", "net"}
    BY <1>1, <1>2 DEF Pair
  <1>11. t[1].at = "release" => t[2] = Frame("told", t[1].on)
    BY <1>2 DEF Pair
  <1>12. ASSUME NEW i \in DOMAIN t, t[i].at \in Bottom PROVE i = n + 1
    <2>1. CASE i = 1
      BY <1>2, <1>5, <1>12, <2>1 DEF Bottom
    <2>2. CASE i = 2
      <3>1. g.at \in Bottom
        BY <1>2, <1>12, <2>2
      <3>2. n = 1
        BY <1>5, <3>1 DEF Bottom
      <3> QED
        BY <2>2, <3>2
    <2>3. CASE i - 1 \in 2..n /\ t[i] = s[i - 1]
      BY <1>1, <1>12, <2>3 DEF Shape
    <2> QED
      BY <1>4, <2>1, <2>2, <2>3
  <1>13. t[1].at \notin Dropped \cup Alone
    BY <1>2, <1>5 DEF Dropped, Alone
  <1>14. ASSUME NEW i \in DOMAIN t, t[i].at = "drain", i # 1 PROVE t[i - 1].at = "told"
    <2>1. i # 2
      BY <1>2, <1>5, <1>14
    <2>2. PICK k \in 2..n : k = i - 1 /\ t[i] = s[k]
      BY <1>4, <1>14, <2>1
    <2>3. s[k - 1].at = "told" /\ s[1].at # "told"
      BY <1>1, <1>14, <2>2 DEF Shape, Dropped
    <2>4. PICK h \in 2..n : h = k - 1
      BY <2>2, <2>3
    <2>5. t[h + 1] = s[h] /\ h + 1 = i - 1
      BY <1>2, <1>3, <1>14, <2>2, <2>4
    <2> QED
      BY <2>3, <2>4, <2>5
  <1> QED
    BY <1>2, <1>7, <1>8, <1>9, <1>10, <1>11, <1>12, <1>13, <1>14 DEF Shape

-----------------------------------------------------------------------------
(* A step of one thread.                                                     *)

\* The frames of t become s: the frames N are new, the others were there below
\* the top one.
NewFrames(t, N, s) ==
  /\ stack' = [stack EXCEPT ![t] = s]
  /\ s \in Seq(FrameRec) /\ Shape(s)
  /\ \A i \in DOMAIN s :
       s[i] \in N \/ \E j \in DOMAIN stack[t] : j # 1 /\ s[i] = stack[t][j]

\* Nothing is lost but the top frame, and what has nothing left to do.
KeepsFrames(t, N, s) ==
  /\ \A f \in N : \E i \in DOMAIN s : s[i] = f
  /\ \A j \in DOMAIN stack[t] :
       j # 1 /\ stack[t][j].at \notin {"sending", "told", "serve"} =>
         \E i \in DOMAIN s : s[i] = stack[t][j]

\* A step moves connections in one direction only.
Advances ==
  \A k \in Calls : /\ Begun(k) => Begun(k)'
                   /\ Dying(k) => Dying(k)'

\* The frames of a thread, and what TypeOK says of them.
LEMMA StackType ==
  ASSUME TypeOK, NEW t \in Threads
  PROVE  stack \in [Threads -> Seq(FrameRec)] /\ stack[t] \in Seq(FrameRec)
  BY DEF TypeOK, FrameRec

\* A method returns.
LEMMA Returns ==
  ASSUME TypeOK, StackInv, NEW t \in Threads, stack[t] # <<>>, Return(t)
  PROVE  \E s : NewFrames(t, {}, s) /\ KeepsFrames(t, {}, s)
  <1>1. PICK s : s = stack[t]
    OBVIOUS
  <1>2. s \in Seq(FrameRec) /\ s # <<>> /\ Shape(s)
    BY <1>1, StackType DEF StackInv
  <1>3. PICK r : r = Rest(s)
    OBVIOUS
  <1>4. PICK j : IsRest(s, r, j)
    BY <1>2, <1>3, RestIs
  <1>5. stack' = [stack EXCEPT ![t] = r]
    BY <1>1, <1>3, ReturnIs
  <1>6. Shape(r) /\ r \in Seq(FrameRec)
    BY <1>2, <1>4, ShapeRest DEF IsRest
  <1>7. PICK n \in Nat, m \in Nat : n = Len(s) /\ m = Len(r) /\ j \in 2..(n + 1) /\ m = n + 1 - j
    BY <1>4 DEF IsRest
  <1>8. DOMAIN s = 1..n /\ DOMAIN r = 1..m
    <2>1. DOMAIN s = 1..Len(s) /\ DOMAIN r = 1..Len(r)
      BY <1>2, <1>6
    <2> QED
      BY <1>7, <2>1, Zenon
  <1>9. ASSUME NEW i \in DOMAIN r PROVE \E k \in DOMAIN s : k # 1 /\ r[i] = s[k]
    <2>1. i + j - 1 \in 1..n /\ i + j - 1 # 1
      BY <1>7, <1>8
    <2>2. r[i] = s[i + j - 1]
      BY <1>4, <1>7, <1>8 DEF IsRest
    <2> QED
      BY <1>8, <2>1, <2>2
  <1>10. ASSUME NEW k \in DOMAIN s, k # 1, s[k].at \notin {"sending", "told", "serve"}
         PROVE  \E i \in DOMAIN r : r[i] = s[k]
    <2>1. k \in 2..n /\ ~(k \in 2..(j - 1))
      BY <1>4, <1>8, <1>10 DEF IsRest
    <2>2. PICK i \in 1..m : i + j - 1 = k
      <3>1. k - j + 1 \in 1..m /\ k - j + 1 + j - 1 = k
        BY <1>7, <2>1
      <3> QED
        BY <3>1
    <2>3. r[i] = s[i + j - 1]
      BY <1>4, <1>7, <2>2 DEF IsRest
    <2> QED
      BY <1>8, <2>2, <2>3
  <1>11. NewFrames(t, {}, r)
    BY <1>1, <1>5, <1>6, <1>9 DEF NewFrames
  <1>12. KeepsFrames(t, {}, r)
    BY <1>1, <1>10 DEF KeepsFrames
  <1> QED
    BY <1>11, <1>12

\* A frame becomes another one.
LEMMA BecomesOne ==
  ASSUME TypeOK, StackInv, NEW t \in Threads, stack[t] # <<>>, NEW f \in FrameRec,
         Becomes(t, <<f>>),
         f.at \notin Below \cup {"offer", "close", "release"} \/ f.at = "unpooled",
         f.at \in Alone => Head(stack[t]).at \in Alone
  PROVE  \E s : NewFrames(t, {f}, s) /\ KeepsFrames(t, {f}, s)
  <1>1. PICK s : s = stack[t]
    OBVIOUS
  <1>2. s \in Seq(FrameRec) /\ s # <<>> /\ Shape(s) /\ Head(s) = s[1]
    BY <1>1, StackType DEF StackInv
  <1>3. PICK r : r = <<f>> \o Tail(s)
    OBVIOUS
  <1>4. stack' = [stack EXCEPT ![t] = r]
    BY <1>1, <1>3 DEF Becomes
  <1>5. /\ r \in Seq(FrameRec) /\ Len(r) = Len(s) /\ r # <<>> /\ r[1] = f
        /\ \A i \in 2..Len(s) : r[i] = s[i]
    BY <1>2, <1>3, OneFrame
  <1>6. f.at \in Alone => Len(s) = 1
    BY <1>1, <1>2 DEF Shape
  <1>7. Shape(r)
    BY <1>2, <1>3, <1>6, ShapeOne
  <1>8. DOMAIN r = DOMAIN s /\ 1 \in DOMAIN r /\ \A i \in DOMAIN s : i # 1 => r[i] = s[i]
    BY <1>2, <1>5
  <1>9. NewFrames(t, {f}, r)
    BY <1>1, <1>4, <1>5, <1>7, <1>8 DEF NewFrames
  <1>10. KeepsFrames(t, {f}, r)
    BY <1>1, <1>5, <1>8 DEF KeepsFrames
  <1> QED
    BY <1>9, <1>10

\* A method calls another one.
LEMMA BecomesTwo ==
  ASSUME TypeOK, StackInv, NEW t \in Threads, stack[t] # <<>>,
         NEW f \in FrameRec, NEW g \in FrameRec, Becomes(t, <<f, g>>),
         \/ f.at = "offer" /\ g = Frame("sending", f.on) /\ Head(stack[t]).at \in Alone
         \/ f.at = "close" /\ g.at = "unpooled"
         \/ f.at = "close" /\ g.at = "add" /\ Head(stack[t]).at \in Alone
         \/ f.at = "error" /\ g.at = "serve" /\ Head(stack[t]).at \in Alone
         \/ f.at = "release" /\ g = Frame("told", f.on) /\ f.on = Head(stack[t]).on
            /\ Head(stack[t]).at \in {"offer", "close"}
         \/ f.at = "release" /\ g = Frame("told", f.on) /\ Head(stack[t]).at \in Alone
  PROVE  \E s : NewFrames(t, {f, g}, s) /\ KeepsFrames(t, {f, g}, s)
  <1>1. PICK s : s = stack[t]
    OBVIOUS
  <1>2. s \in Seq(FrameRec) /\ s # <<>> /\ Shape(s) /\ Head(s) = s[1]
    BY <1>1, StackType DEF StackInv
  <1>3. PICK r : r = <<f, g>> \o Tail(s)
    OBVIOUS
  <1>4. stack' = [stack EXCEPT ![t] = r]
    BY <1>1, <1>3 DEF Becomes
  <1>5. /\ r \in Seq(FrameRec) /\ Len(r) = Len(s) + 1 /\ r # <<>> /\ r[1] = f /\ r[2] = g
        /\ \A i \in 2..Len(s) : r[i + 1] = s[i]
    BY <1>2, <1>3, TwoFrames
  <1>6. Head(stack[t]).at \in Alone => Len(s) = 1
    BY <1>1, <1>2 DEF Shape
  <1>7. Shape(r)
    <2>1. Pair(s, f, g)
      BY <1>1, <1>2, <1>6 DEF Pair
    <2> QED
      BY <1>2, <1>3, <2>1, ShapeTwo
  <1>8. PICK n \in Nat \ {0} : n = Len(s) /\ DOMAIN s = 1..n /\ DOMAIN r = 1..(n + 1)
    BY <1>2, <1>5
  <1>9. ASSUME NEW i \in DOMAIN r
        PROVE  r[i] \in {f, g} \/ \E j \in DOMAIN s : j # 1 /\ r[i] = s[j]
    <2>1. i = 1 \/ i = 2 \/ \E j \in 2..n : i = j + 1
      <3>1. i = 1 \/ i = 2 \/ (i - 1 \in 2..n /\ i = i - 1 + 1)
        BY <1>8
      <3> QED
        BY <3>1
    <2>2. \A j \in 2..n : j \in DOMAIN s /\ j # 1 /\ r[j + 1] = s[j]
      BY <1>5, <1>8
    <2> QED
      BY <1>5, <2>1, <2>2
  <1>10. \A j \in DOMAIN s : j # 1 => j + 1 \in DOMAIN r /\ r[j + 1] = s[j]
    BY <1>5, <1>8
  <1>11. 1 \in DOMAIN r /\ 2 \in DOMAIN r
    BY <1>8
  <1>12. NewFrames(t, {f, g}, r)
    BY <1>1, <1>4, <1>5, <1>7, <1>9 DEF NewFrames
  <1>13. KeepsFrames(t, {f, g}, r)
    BY <1>1, <1>5, <1>10, <1>11 DEF KeepsFrames
  <1> QED
    BY <1>12, <1>13

\* A thread has one frame, or three where it had the last of them.
LEMMA BecomesAlone ==
  ASSUME NEW t, NEW f \in FrameRec,
         f.at \in {"cancel", "drain", "release", "native", "refused", "error", "destroy"},
         stack' = [stack EXCEPT ![t] = <<f>>]
  PROVE  NewFrames(t, {f}, <<f>>)
  BY DEF NewFrames, Shape, Alone, Bottom, Dropped

LEMMA BecomesThree ==
  ASSUME TypeOK, StackInv, NEW t \in Threads, stack[t] # <<>>, Head(stack[t]).at = "drain",
         NEW f \in FrameRec, NEW g \in FrameRec, NEW h \in FrameRec, Becomes(t, <<f, g, h>>),
         f.at = "release", g = Frame("told", f.on), h = Frame("drain", f.on)
  PROVE  \E s : NewFrames(t, {f, g, h}, s) /\ KeepsFrames(t, {f, g, h}, s)
  <1>1. PICK s, r : s = stack[t] /\ r = <<f, g, h>>
    OBVIOUS
  <1>2. s \in Seq(FrameRec) /\ s # <<>> /\ Shape(s) /\ Head(s) = s[1] /\ 1 \in DOMAIN s
    BY <1>1, StackType DEF StackInv
  <1>3. Len(s) = 1
    BY <1>1, <1>2 DEF Shape, Bottom
  <1>4. Len(Tail(s)) = 0 /\ Tail(s) \in Seq(FrameRec) /\ DOMAIN s = {1}
    BY <1>2, <1>3
  <1>5. /\ r \in Seq(FrameRec) /\ Len(r) = 3 /\ DOMAIN r = {1, 2, 3} /\ r # <<>>
        /\ r[1] = f /\ r[2] = g /\ r[3] = h
    BY <1>1
  <1>6. stack' = [stack EXCEPT ![t] = r]
    <2>1. r \o Tail(s) = r
      <3>1. PICK e \in Seq(FrameRec) : e = Tail(s) /\ Len(e) = 0
        BY <1>4
      <3>2. e = <<>>
        BY <3>1
      <3>3. \A q \in Seq(FrameRec) : q \o <<>> = q
        OBVIOUS
      <3> QED
        BY <1>5, <3>1, <3>2, <3>3, Zenon
    <2> QED
      BY <1>1, <2>1 DEF Becomes
  <1>7. g.at = "told" /\ g.on = f.on /\ h.at = "drain" /\ h.on = f.on
    BY DEF Frame
  <1>8. Shape(r)
    <2>1. /\ \A i \in DOMAIN r : i # 1 => r[i].at \in Below
          /\ \A i \in DOMAIN r : r[i].at \in Bottom => i = Len(r)
      BY <1>5, <1>7 DEF Below, Bottom
    <2>2. \A i \in DOMAIN r : r[i].at = "told" /\ i + 1 \in DOMAIN r => Tells(r[i], r[i + 1])
      BY <1>5, <1>7 DEF Tells
    <2>4. \A i \in DOMAIN r : r[i].at = "drain" => i = 3 /\ r[i - 1].at = "told"
      <3>1. 3 - 1 = 2
        OBVIOUS
      <3> QED
        BY <1>5, <1>7, <3>1
    <2>3. r[1].at \notin Dropped \cup Alone \cup {"offer", "close"}
      BY <1>5 DEF Dropped, Alone
    <2> QED
      BY <1>5, <2>1, <2>2, <2>3, <2>4 DEF Shape
  <1>9. NewFrames(t, {f, g, h}, r)
    BY <1>5, <1>6, <1>8 DEF NewFrames
  <1>10. KeepsFrames(t, {f, g, h}, r)
    BY <1>1, <1>4, <1>5 DEF KeepsFrames
  <1> QED
    BY <1>9, <1>10

\* A thread that had nothing to do begins with one frame, or with two.
LEMMA Starts ==
  ASSUME NEW t, stack[t] = <<>>, NEW f \in FrameRec,
         f.at \in {"drain", "release", "native", "refused", "error", "destroy"},
         stack' = [stack EXCEPT ![t] = <<f>>]
  PROVE  \E s : NewFrames(t, {f}, s) /\ KeepsFrames(t, {f}, s)
  <1>1. NewFrames(t, {f}, <<f>>)
    BY BecomesAlone
  <1>2. KeepsFrames(t, {f}, <<f>>)
    BY DEF KeepsFrames
  <1> QED
    BY <1>1, <1>2

LEMMA StartsTwo ==
  ASSUME NEW t, stack[t] = <<>>, NEW f \in FrameRec, NEW g \in FrameRec,
         f.at = "close", g.at = "net", stack' = [stack EXCEPT ![t] = <<f, g>>]
  PROVE  \E s : NewFrames(t, {f, g}, s) /\ KeepsFrames(t, {f, g}, s)
  <1>1. PICK s : s = <<f, g>>
    OBVIOUS
  <1>2. /\ s \in Seq(FrameRec) /\ Len(s) = 2 /\ DOMAIN s = {1, 2} /\ s # <<>>
        /\ s[1] = f /\ s[2] = g
    BY <1>1
  <1>3. Shape(s)
    BY <1>2 DEF Shape, Below, Bottom, Dropped, Alone
  <1>4. NewFrames(t, {f, g}, s)
    BY <1>1, <1>2, <1>3 DEF NewFrames
  <1>5. KeepsFrames(t, {f, g}, s)
    BY <1>2 DEF KeepsFrames
  <1> QED
    BY <1>4, <1>5

\* A thread whose method returns to nobody has no frames of new kinds.
LEMMA BecomesNone ==
  ASSUME NEW t, stack' = [stack EXCEPT ![t] = <<>>]
  PROVE  NewFrames(t, {}, <<>>)
  BY DEF NewFrames, Shape

\* What was true of a frame's connection stays true.
LEMMA FrameStays ==
  ASSUME Advances, NEW f \in FrameRec, FrameOk(f)
  PROVE  FrameOk(f)'
  BY DEF Advances, FrameOk, FrameRec

\* Locks a thread gets with its new frames were its own, or free.
Gets(t, f) == \A l \in Held(f) : Holds(t, l) \/ \A u \in Threads \ {t} : ~Holds(u, l)

\* A step of one thread keeps the shape of the stacks, and every lock's holder.
LEMMA StacksStep ==
  ASSUME TypeOK, StackInv, LockInv, Advances, NEW t \in Threads, NEW N, NEW s,
         NewFrames(t, N, s), \A f \in N : FrameOk(f)' /\ Gets(t, f)
  PROVE  /\ stack' \in [Threads -> Seq(FrameRec)] /\ StackInv' /\ LockInv'
         /\ stack'[t] = s /\ \A u \in Threads : u # t => stack'[u] = stack[u]
  <1>1. /\ stack' = [stack EXCEPT ![t] = s] /\ s \in Seq(FrameRec) /\ Shape(s)
        /\ \A i \in DOMAIN s :
             s[i] \in N \/ \E j \in DOMAIN stack[t] : j # 1 /\ s[i] = stack[t][j]
    BY DEF NewFrames
  <1>2. stack \in [Threads -> Seq(FrameRec)]
    BY StackType
  <1>3. /\ stack' \in [Threads -> Seq(FrameRec)]
        /\ stack'[t] = s /\ \A u \in Threads : u # t => stack'[u] = stack[u]
    BY <1>1, <1>2
  <1>4. StackInv'
    <2> SUFFICES ASSUME NEW u \in Threads
                 PROVE  /\ Shape(stack'[u])
                        /\ \A i \in DOMAIN stack'[u] :
                             \E f : f = stack'[u][i] /\ FrameOk(f)'
      BY DEF StackInv, FrameOk, Begun, Dying
    <2>1. CASE u # t
      <3>1. stack'[u] = stack[u] /\ Shape(stack[u]) /\ stack[u] \in Seq(FrameRec)
        BY <1>2, <1>3, <2>1 DEF StackInv
      <3>2. ASSUME NEW i \in DOMAIN stack[u] PROVE \E f : f = stack[u][i] /\ FrameOk(f)'
        <4>1. PICK f : f = stack[u][i]
          OBVIOUS
        <4>2. f \in FrameRec /\ FrameOk(f)
          BY <3>1, <4>1 DEF StackInv
        <4>3. FrameOk(f)'
          BY <4>2, FrameStays
        <4> QED
          BY <4>1, <4>3
      <3> QED
        BY <3>1, <3>2
    <2>2. CASE u = t
      <3>1. stack'[u] = s
        BY <1>3, <2>2
      <3>2. ASSUME NEW i \in DOMAIN s PROVE FrameOk(s[i])'
        <4>1. CASE s[i] \in N
          BY <4>1
        <4>2. CASE \E j \in DOMAIN stack[t] : j # 1 /\ s[i] = stack[t][j]
          <5>1. s[i] \in FrameRec /\ FrameOk(s[i])
            BY <1>1, <4>2 DEF StackInv
          <5> QED
            BY <5>1, FrameStays
        <4> QED
          BY <1>1, <4>1, <4>2
      <3> QED
        BY <1>1, <3>1, <3>2
    <2> QED
      BY <2>1, <2>2
  <1>5. ASSUME NEW l, \E i \in DOMAIN s : l \in Held(s[i]), NEW u \in Threads \ {t}
        PROVE  ~Holds(u, l)
    <2>1. Holds(t, l) => ~Holds(u, l)
      BY DEF LockInv
    <2>2. PICK i \in DOMAIN s : l \in Held(s[i])
      BY <1>5
    <2>3. CASE s[i] \in N
      BY <2>1, <2>2, <2>3 DEF Gets
    <2>4. CASE \E j \in DOMAIN stack[t] : j # 1 /\ s[i] = stack[t][j]
      BY <2>1, <2>2, <2>4 DEF Holds
    <2> QED
      BY <1>1, <2>2, <2>3, <2>4
  <1>6. LockInv'
    <2> SUFFICES ASSUME NEW u \in Threads, NEW v \in Threads, u # v, NEW l,
                        \E i \in DOMAIN stack'[u] : l \in Held(stack'[u][i]),
                        \E i \in DOMAIN stack'[v] : l \in Held(stack'[v][i])
                 PROVE  FALSE
      BY DEF LockInv, Holds
    <2>1. CASE u = t
      BY <1>3, <1>5, <2>1 DEF Holds
    <2>2. CASE v = t
      BY <1>3, <1>5, <2>2 DEF Holds
    <2>3. CASE u # t /\ v # t
      BY <1>3, <2>3 DEF Holds, LockInv
    <2> QED
      BY <2>1, <2>2, <2>3
  <1> QED
    BY <1>3, <1>4, <1>6

\* A step that leaves the frames alone.
LEMMA StacksStay ==
  ASSUME TypeOK, StackInv, LockInv, Advances, UNCHANGED stack
  PROVE  stack' \in [Threads -> Seq(FrameRec)] /\ StackInv' /\ LockInv'
  <1>1. stack \in [Threads -> Seq(FrameRec)]
    BY DEF TypeOK, FrameRec
  <1>2. StackInv'
    <2> SUFFICES ASSUME NEW u \in Threads
                 PROVE  Shape(stack[u]) /\ \A i \in DOMAIN stack[u] : FrameOk(stack[u][i])'
      BY DEF StackInv
    <2>1. stack[u] \in Seq(FrameRec) /\ Shape(stack[u])
      BY <1>1 DEF StackInv
    <2>2. ASSUME NEW i \in DOMAIN stack[u] PROVE FrameOk(stack[u][i])'
      <3>1. PICK f : f = stack[u][i]
        OBVIOUS
      <3>2. f \in FrameRec /\ FrameOk(f)
        BY <2>1, <3>1 DEF StackInv
      <3>3. FrameOk(f)'
        BY <3>2, FrameStays
      <3> QED
        BY <3>1, <3>3 DEF FrameOk, Begun, Dying
    <2> QED
      BY <2>1, <2>2
  <1>3. LockInv'
    BY DEF LockInv, Holds
  <1> QED
    BY <1>1, <1>2, <1>3

-----------------------------------------------------------------------------
(* get.                                                                      *)

\* One sequence after the other.
LEMMA ConcatElems ==
  ASSUME NEW A \in Seq(Calls), NEW B \in Seq(Calls)
  PROVE  /\ A \o B \in Seq(Calls)
         /\ Elems(A \o B) = Elems(A) \cup Elems(B)
         /\ IsInjective(A) /\ IsInjective(B) /\ Elems(A) \cap Elems(B) = {} => IsInjective(A \o B)
  <1> DEFINE C == A \o B
  <1>1. PICK m \in Nat, n \in Nat : m = Len(A) /\ n = Len(B)
    OBVIOUS
  <1>2. C \in Seq(Calls) /\ DOMAIN C = 1..(m + n) /\ DOMAIN A = 1..m /\ DOMAIN B = 1..n
    BY <1>1
  <1>3. \A i \in 1..m : C[i] = A[i]
    BY <1>1
  <1>4. \A i \in 1..n : C[m + i] = B[i]
    BY <1>1
  <1> HIDE DEF C
  <1>5. \A i \in 1..(m + n) : i \in 1..m \/ (i - m \in 1..n /\ m + (i - m) = i)
    OBVIOUS
  <1>6. \A i \in DOMAIN C : (i \in 1..m /\ C[i] = A[i]) \/ (i - m \in 1..n /\ C[i] = B[i - m])
    BY <1>2, <1>3, <1>4, <1>5
  <1>7. \A i \in 1..n : m + i \in DOMAIN C
    BY <1>2
  <1>8. \A i \in 1..m : i \in DOMAIN C
    BY <1>2
  <1>9. Elems(C) = Elems(A) \cup Elems(B)
    <2>1. ASSUME NEW x \in Elems(C) PROVE x \in Elems(A) \cup Elems(B)
      <3>1. PICK i \in DOMAIN C : x = C[i]
        BY <2>1 DEF Elems
      <3> QED
        BY <1>2, <1>6, <3>1 DEF Elems
    <2>2. ASSUME NEW x \in Elems(A) PROVE x \in Elems(C)
      <3>1. PICK i \in 1..m : x = A[i]
        BY <1>2, <2>2 DEF Elems
      <3> QED
        BY <1>3, <1>8, <3>1 DEF Elems
    <2>3. ASSUME NEW x \in Elems(B) PROVE x \in Elems(C)
      <3>1. PICK i \in 1..n : x = B[i]
        BY <1>2, <2>3 DEF Elems
      <3> QED
        BY <1>4, <1>7, <3>1 DEF Elems
    <2> QED
      BY <2>1, <2>2, <2>3
  <1>10. ASSUME IsInjective(A), IsInjective(B), Elems(A) \cap Elems(B) = {},
                NEW i \in DOMAIN C, NEW j \in DOMAIN C, C[i] = C[j]
         PROVE  i = j
    <2>1. CASE i \in 1..m /\ C[i] = A[i] /\ j \in 1..m /\ C[j] = A[j]
      BY <1>2, <1>10, <2>1 DEF IsInjective
    <2>2. CASE i - m \in 1..n /\ C[i] = B[i - m] /\ j - m \in 1..n /\ C[j] = B[j - m]
      <3>1. i - m = j - m
        BY <1>2, <1>10, <2>2 DEF IsInjective
      <3> QED
        BY <1>2, <3>1
    <2>3. CASE i \in 1..m /\ C[i] = A[i] /\ j - m \in 1..n /\ C[j] = B[j - m]
      BY <1>2, <1>10, <2>3 DEF Elems
    <2>4. CASE i - m \in 1..n /\ C[i] = B[i - m] /\ j \in 1..m /\ C[j] = A[j]
      BY <1>2, <1>10, <2>4 DEF Elems
    <2> QED
      BY <1>6, <2>1, <2>2, <2>3, <2>4
  <1>11. IsInjective(A) /\ IsInjective(B) /\ Elems(A) \cap Elems(B) = {} => IsInjective(C)
    BY <1>10 DEF IsInjective
  <1> QED
    BY <1>2, <1>9, <1>11 DEF C

\* What get leaves of the connections: those of S, and what is behind place n.
Leaves(P, n, S) == Only(SubSeq(P, 1, n), S) \o SubSeq(P, n + 1, Len(P))
IsLeft(Q, P, n, S) ==
  /\ Q \in Seq(Calls) /\ IsInjective(Q)
  /\ Elems(Q) \subseteq Elems(P) /\ Elems(P) \cap S \subseteq Elems(Q)
  /\ n = Len(P) => Elems(Q) \subseteq S

\* What get keeps of the pool: a sequence without duplicates of some of its elements.
LEMMA GetLeaves ==
  ASSUME NEW P \in Seq(Calls), IsInjective(P), NEW n \in 0..Len(P), NEW S,
         NEW Q, Q = Leaves(P, n, S)
  PROVE  IsLeft(Q, P, n, S)
  <1>1. PICK l \in Nat : l = Len(P) /\ n \in 0..l /\ DOMAIN P = 1..l
    OBVIOUS
  <1>2. PICK A, B : A = SubSeq(P, 1, n) /\ B = SubSeq(P, n + 1, l)
    OBVIOUS
  <1>3. /\ A \in Seq(Calls) /\ DOMAIN A = 1..n /\ Len(A) = n
        /\ \A i \in 1..n : A[i] = P[i] /\ i \in 1..l
    BY <1>1, <1>2
  <1>4. /\ B \in Seq(Calls) /\ DOMAIN B = 1..(l - n)
        /\ \A i \in 1..(l - n) : B[i] = P[n + i] /\ n + i \in 1..l
    BY <1>1, <1>2
  <1>5. \A i \in 1..l : i \in 1..n \/ (i - n \in 1..(l - n) /\ n + (i - n) = i)
    BY <1>1
  <1>6. IsInjective(A)
    BY <1>1, <1>3 DEF IsInjective
  <1>7. IsInjective(B)
    <2>1. \A i, j \in 1..(l - n) : n + i = n + j => i = j
      BY <1>1
    <2> QED
      BY <1>1, <1>4, <2>1 DEF IsInjective
  <1>8. Elems(A) \cap Elems(B) = {}
    <2> SUFFICES ASSUME NEW i \in 1..n, NEW j \in 1..(l - n), A[i] = B[j] PROVE FALSE
      BY <1>3, <1>4 DEF Elems
    <2>1. P[i] = P[n + j] /\ i \in DOMAIN P /\ n + j \in DOMAIN P
      BY <1>1, <1>3, <1>4
    <2>2. i = n + j
      BY <2>1 DEF IsInjective
    <2> QED
      BY <1>1, <2>2
  <1>9. Elems(P) = Elems(A) \cup Elems(B)
    <2>1. ASSUME NEW x \in Elems(P) PROVE x \in Elems(A) \cup Elems(B)
      <3>1. PICK i \in 1..l : x = P[i]
        BY <1>1, <2>1 DEF Elems
      <3>2. CASE i \in 1..n
        BY <1>3, <3>1, <3>2 DEF Elems
      <3>3. CASE i - n \in 1..(l - n) /\ n + (i - n) = i
        BY <1>4, <3>1, <3>3 DEF Elems
      <3> QED
        BY <1>5, <3>2, <3>3
    <2>2. Elems(A) \subseteq Elems(P)
      BY <1>1, <1>3 DEF Elems
    <2>3. ASSUME NEW x \in Elems(B) PROVE x \in Elems(P)
      <3>1. PICK i \in 1..(l - n) : x = B[i]
        BY <1>4, <2>3 DEF Elems
      <3>2. x = P[n + i] /\ n + i \in DOMAIN P
        BY <1>1, <1>4, <3>1
      <3> QED
        BY <3>2 DEF Elems
    <2> QED
      BY <2>1, <2>2, <2>3
  <1>10. PICK O : O = Only(A, S)
    OBVIOUS
  <1>11. O \in Seq(Calls) /\ IsInjective(O) /\ Elems(O) = Elems(A) \cap S
    <2>1. Picks(O, A, S, n)
      BY <1>3, <1>10, OnlyPicks
    <2>2. Elems(A) = {A[i] : i \in 1..n}
      BY <1>3 DEF Elems
    <2> QED
      BY <1>6, <2>1, <2>2 DEF Picks
  <1>12. Q = O \o B
    BY <1>1, <1>2, <1>10 DEF Leaves
  <1>13. Q \in Seq(Calls) /\ Elems(Q) = Elems(O) \cup Elems(B) /\ IsInjective(Q)
    <2>1. Elems(O) \cap Elems(B) = {}
      BY <1>8, <1>11
    <2>2. /\ O \o B \in Seq(Calls) /\ Elems(O \o B) = Elems(O) \cup Elems(B)
          /\ IsInjective(O) /\ IsInjective(B) /\ Elems(O) \cap Elems(B) = {} =>
               IsInjective(O \o B)
      <3>1. O \in Seq(Calls) /\ B \in Seq(Calls)
        BY <1>4, <1>11
      <3> QED
        BY <3>1, ConcatElems
    <2> QED
      BY <1>7, <1>11, <1>12, <2>1, <2>2
  <1>14. n = l => Elems(B) = {}
    BY <1>1, <1>4 DEF Elems
  <1> QED
    BY <1>1, <1>9, <1>11, <1>13, <1>14 DEF IsLeft

\* Without repetitions a sequence is injective after one more element, too.
LEMMA AppendCall ==
  ASSUME NEW P \in Seq(Calls), IsInjective(P), NEW c \in Calls, c \notin Elems(P)
  PROVE  /\ Append(P, c) \in Seq(Calls) /\ IsInjective(Append(P, c))
         /\ Elems(Append(P, c)) = Elems(P) \cup {c}
  BY AppendElems

-----------------------------------------------------------------------------
(* Every step keeps the base invariant.                                      *)

\* Where a thread is after a step.
LEMMA InStep ==
  ASSUME TypeOK, StackInv, NEW t \in Threads, NEW N, NEW s, NewFrames(t, N, s),
         NEW u \in Threads, NEW places, In(u, places)'
  PROVE  \/ In(u, places) /\ (u = t => \E p \in places : p \in Below)
         \/ u = t /\ \E f \in N : f.at \in places
  <1>1. /\ stack' = [stack EXCEPT ![t] = s] /\ stack \in [Threads -> Seq(FrameRec)]
        /\ \A i \in DOMAIN s :
             s[i] \in N \/ \E j \in DOMAIN stack[t] : j # 1 /\ s[i] = stack[t][j]
    BY StackType DEF NewFrames
  <1>2. PICK i \in DOMAIN stack'[u] : stack'[u][i].at \in places
    BY DEF In
  <1>3. CASE u # t
    BY <1>1, <1>2, <1>3 DEF In
  <1>4. CASE u = t
    <2>1. i \in DOMAIN s /\ s[i].at \in places
      BY <1>1, <1>2, <1>4
    <2>2. CASE s[i] \in N
      BY <1>4, <2>1, <2>2
    <2>3. CASE \E j \in DOMAIN stack[t] : j # 1 /\ s[i] = stack[t][j]
      <3>1. PICK j \in DOMAIN stack[t] : j # 1 /\ s[i] = stack[t][j]
        BY <2>3
      <3>2. stack[t][j].at \in Below
        BY <3>1 DEF StackInv, Shape
      <3> QED
        BY <1>4, <2>1, <3>1, <3>2 DEF In
    <2> QED
      BY <1>1, <2>1, <2>2, <2>3
  <1> QED
    BY <1>3, <1>4

\* The frames of t change: N is new, and the others are kept.
Gains(t, N) == \E s : NewFrames(t, N, s)
Moves(t, N) == \E s : NewFrames(t, N, s) /\ KeepsFrames(t, N, s)

\* What is known of the thread that is at a place.
LEMMA AtFacts ==
  ASSUME TypeOK, StackInv, NEW t \in Threads, stack[t] # <<>>
  PROVE  /\ Head(stack[t]) \in FrameRec /\ FrameOk(Head(stack[t]))
         /\ 1 \in DOMAIN stack[t] /\ stack[t][1] = Head(stack[t])
         /\ \A i \in DOMAIN stack[t] : i # 1 => stack[t][i].at \in Below
         /\ Head(stack[t]).at \in Alone => DOMAIN stack[t] = {1}
         /\ \A l \in Held(Head(stack[t])) : Holds(t, l)
  <1>1. PICK s : s = stack[t]
    OBVIOUS
  <1>2. s \in Seq(FrameRec) /\ s # <<>> /\ Shape(s) /\ \A i \in DOMAIN s : FrameOk(s[i])
    BY <1>1, StackType DEF StackInv
  <1>3. Head(s) = s[1] /\ 1 \in DOMAIN s /\ s[1] \in FrameRec /\ DOMAIN s = 1..Len(s)
    BY <1>2
  <1>4. s[1].at \in Alone => DOMAIN s = {1}
    BY <1>2, <1>3 DEF Shape
  <1>5. \A l \in Held(s[1]) : Holds(t, l)
    BY <1>1, <1>3 DEF Holds
  <1> QED
    BY <1>1, <1>2, <1>3, <1>4, <1>5 DEF Shape

\* A lock that is free is held by no other thread.
LEMMA FreeMeans ==
  ASSUME NEW t \in Threads, NEW l, Free(t, l)
  PROVE  \A u \in Threads \ {t} : ~Holds(u, l)
  <1>1. \A u \in Threads : stack[u] = <<>> => ~Holds(u, l)
    BY DEF Holds
  <1> QED
    BY <1>1 DEF Free, Busy

\* A frame that holds what the one before held or waited for.
LEMMA GetsLocks ==
  ASSUME TypeOK, StackInv, NEW t \in Threads, NEW place, At(t, place), NEW f,
         Held(f) \subseteq Held(Head(stack[t])) \cup Wanted(Head(stack[t]))
  PROVE  Gets(t, f)
  <1>1. \A l \in Held(Head(stack[t])) : Holds(t, l)
    BY AtFacts DEF At
  <1>2. \A l \in Wanted(Head(stack[t])) : \A u \in Threads \ {t} : ~Holds(u, l)
    BY FreeMeans DEF At
  <1> QED
    BY <1>1, <1>2 DEF Gets

\* The types of all but the frames.
TypeRest ==
  /\ pool \in Seq(Calls) /\ IsInjective(pool)
  /\ connection \in [Calls -> Calls \cup {None}]
  /\ xWebSocket \in [Calls -> BOOLEAN] /\ isDestroy \in [Calls -> BOOLEAN]
  /\ responded \in Seq(Calls)
  /\ xCallBackMap \in [Calls -> SUBSET Calls]
  /\ queued \in [Calls -> SUBSET Calls] /\ sent \in [Calls -> SUBSET Calls]
  /\ messageQueue \in [Calls -> Seq(Calls)]
  /\ loop \in [Calls -> {"none", "connecting", "open", "down", "ended"}]
  /\ closeQueued \in [Calls -> BOOLEAN] /\ shut \in [Calls -> BOOLEAN]
  /\ inactive \in [Calls -> BOOLEAN] /\ isCallback \in [Calls -> BOOLEAN]
  /\ answered \in SUBSET Calls /\ canceled \in SUBSET Calls
  /\ thrown \in SUBSET Threads

\* The type invariant, with the stacks apart.
LEMMA TypeParts == TypeOK <=> stack \in [Threads -> Seq(FrameRec)] /\ TypeRest
  BY DEF TypeOK, TypeRest, FrameRec

Fresh == {"start", "get", "got"}
Putting == {"put", "add"}

\* A step of one thread keeps the base invariant ...
LEMMA BaseStep ==
  ASSUME BaseInv, NEW t \in Threads, NEW N, Gains(t, N), Advances, TypeRest', ConnInv',
         \A f \in N : FrameOk(f)' /\ Gets(t, f)
  PROVE  BaseInv'
  <1>1. PICK s : NewFrames(t, N, s)
    BY DEF Gains
  <1>2. stack' \in [Threads -> Seq(FrameRec)] /\ StackInv' /\ LockInv'
    BY <1>1, StacksStep DEF BaseInv
  <1>3. TypeOK'
    BY <1>2 DEF TypeOK, TypeRest, FrameRec
  <1> QED
    BY <1>2, <1>3 DEF BaseInv

\* ... if its new frames say nothing new of the connections.
LEMMA ConnStep ==
  ASSUME BaseInv, NEW t \in Threads, NEW N, Gains(t, N),
         \A f \in N : /\ f.at \in Fresh => In(t, Fresh)
                      /\ f.at \in Putting => In(t, Putting),
         \A k \in Calls : xWebSocket'[k] => Begun(k)',
         \A k \in Calls : loop'[k] = "none" =>
           xCallBackMap'[k] = {} /\ \A c \in Calls : connection'[c] # k,
         \A k \in Calls : loop'[k] = "none" <=> loop[k] = "none",
         Elems(pool') \subseteq Elems(pool)
  PROVE  ConnInv'
  <1>1. PICK s : NewFrames(t, N, s)
    BY DEF Gains
  <1>2. \A c \in Calls : Worker(c) \in Threads
    BY DEF Worker, Threads
  <1>3. ASSUME NEW c \in Calls, In(Worker(c), Fresh)' PROVE loop'[c] = "none"
    <2>1. In(Worker(c), Fresh)
      BY <1>1, <1>2, <1>3, InStep DEF BaseInv
    <2> QED
      BY <2>1 DEF BaseInv, ConnInv, Fresh
  <1>4. ASSUME NEW c \in Calls, In(Worker(c), Putting)'
        PROVE  loop'[c] # "none" /\ c \notin Elems(pool')
    <2>1. In(Worker(c), Putting)
      BY <1>1, <1>2, <1>4, InStep DEF BaseInv
    <2> QED
      BY <2>1 DEF BaseInv, ConnInv, Putting
  <1>5. \A k \in Calls : loop'[k] = "none" => k \notin Elems(pool')
    BY DEF BaseInv, ConnInv
  <1>6. /\ \A c \in Calls : In(Worker(c), {"start", "get", "got"})' => loop'[c] = "none"
        /\ \A c \in Calls : In(Worker(c), {"put", "add"})' =>
             loop'[c] # "none" /\ c \notin Elems(pool')
    BY <1>3, <1>4 DEF Fresh, Putting
  <1>7. Elems(pool)' = Elems(pool')
    BY DEF Elems
  <1> QED
    BY <1>5, <1>6, <1>7 DEF ConnInv

\* A step that leaves the connections and the loops alone, but for what was
\* registered in them, and for what comes to an end.
Quiet == /\ UNCHANGED <<pool, connection, xWebSocket, isDestroy, loop>>
         /\ \A k \in Calls : (shut[k] => shut'[k]) /\ (inactive[k] => inactive'[k])
         /\ \A k \in Calls : xCallBackMap'[k] \subseteq xCallBackMap[k]

\* Such a step preserves the invariant.
LEMMA QuietStep ==
  ASSUME BaseInv, NEW t \in Threads, NEW N, Gains(t, N), Quiet, TypeRest',
         \A f \in N : /\ FrameOk(f)' /\ Gets(t, f)
                      /\ f.at \in Fresh => In(t, Fresh)
                      /\ f.at \in Putting => In(t, Putting)
  PROVE  BaseInv'
  <1>1. Advances
    BY DEF Quiet, Advances, Begun, Dying
  <1>2. ConnInv'
    <2>1. \A k \in Calls : loop'[k] = "none" =>
            xCallBackMap'[k] = {} /\ \A c \in Calls : connection'[c] # k
      BY DEF Quiet, BaseInv, ConnInv
    <2>2. \A k \in Calls : xWebSocket'[k] => Begun(k)'
      BY DEF Quiet, BaseInv, ConnInv, Begun
    <2>3. Elems(pool') \subseteq Elems(pool)
      BY DEF Quiet
    <2>4. \A k \in Calls : loop'[k] = "none" <=> loop[k] = "none"
      BY DEF Quiet
    <2> QED
      BY <2>1, <2>2, <2>3, <2>4, ConnStep
  <1> QED
    BY <1>1, <1>2, BaseStep

-----------------------------------------------------------------------------
(* execute.                                                                  *)

\* Threads.
LEMMA ThreadFacts ==
  /\ \A c \in Calls : /\ Worker(c) \in Threads /\ Loop(c) \in Threads /\ Writer(c) \in Threads
                      /\ Worker(c)[2] = "worker"
  /\ \A c, k \in Calls : /\ Worker(c) # Loop(k) /\ Worker(c) # Writer(k) /\ Loop(c) # Writer(k)
                         /\ (Worker(c) = Worker(k) => c = k) /\ (Loop(c) = Loop(k) => c = k)
  /\ \A t \in Threads : t[1] \in Calls /\ (t[2] = "worker" => t = Worker(t[1]))
  BY DEF Worker, Loop, Writer, Threads

\* The DNS fails.
LEMMA DnsFailsStep ==
  ASSUME BaseInv, NEW c \in Calls, DnsFails(c)
  PROVE  BaseInv' /\ Moves(Worker(c), {})
  <1>1. PICK t \in Threads : t = Worker(c)
    BY ThreadFacts
  <1>2. Moves(t, {})
    BY <1>1, Returns DEF BaseInv, DnsFails, Moves
  <1>3. Quiet /\ TypeRest'
    BY TypeParts DEF BaseInv, DnsFails, Quiet, TypeRest, conns, socks
  <1>4. BaseInv'
    BY <1>2, <1>3, QuietStep DEF Moves, Gains
  <1> QED
    BY <1>1, <1>2, <1>4

\* The lock of the block is free.
LEMMA EnterTagStep ==
  ASSUME BaseInv, NEW c \in Calls, EnterTag(c)
  PROVE  BaseInv' /\ Moves(Worker(c), {Frame("get", None)})
  <1>1. PICK t \in Threads : t = Worker(c)
    BY ThreadFacts
  <1>2. PICK f : f = Frame("get", None)
    OBVIOUS
  <1>3. f \in FrameRec /\ f.at = "get" /\ FrameOk(f)'
    BY <1>2 DEF Frame, FrameRec, Places, FrameOk
  <1>4. At(t, "start") /\ stack[t] # <<>> /\ Head(stack[t]).at = "start" /\ Becomes(t, <<f>>)
    BY <1>1, <1>2 DEF EnterTag, At
  <1>5. Moves(t, {f})
    BY <1>3, <1>4, BecomesOne DEF BaseInv, Moves, Alone, Below
  <1>6. Gets(t, f)
    BY <1>3, <1>4, GetsLocks DEF BaseInv, Held, Wanted
  <1>7. In(t, Fresh)
    BY <1>4, AtFacts DEF BaseInv, In, Fresh
  <1>8. Quiet /\ TypeRest'
    BY TypeParts DEF BaseInv, EnterTag, Quiet, TypeRest, conns, socks, ends
  <1>9. BaseInv'
    BY <1>3, <1>5, <1>6, <1>7, <1>8, QuietStep DEF Moves, Gains, Putting
  <1> QED
    BY <1>1, <1>2, <1>5, <1>9

\* The connection that a call found was made.
LEMMA GotFacts ==
  ASSUME BaseInv, NEW c \in Calls, NEW k \in Calls, k = connection[c]
  PROVE  loop[k] # "none"
  BY DEF BaseInv, ConnInv

\* A connection was found.
LEMMA FoundStep ==
  ASSUME BaseInv, NEW c \in Calls, Found(c)
  PROVE  BaseInv' /\ Moves(Worker(c), {Frame("send", connection[c])})
  <1>1. PICK t \in Threads : t = Worker(c)
    BY ThreadFacts
  <1>2. PICK k \in Calls : k = connection[c]
    BY DEF BaseInv, TypeOK, Found
  <1>3. PICK f : f = Frame("send", k)
    OBVIOUS
  <1>4. Quiet /\ TypeRest'
    BY TypeParts DEF BaseInv, Found, Quiet, TypeRest, conns, socks, ends
  <1>5. f \in FrameRec /\ f.at = "send" /\ FrameOk(f)'
    BY <1>2, <1>3, <1>4, GotFacts DEF Frame, FrameRec, Places, FrameOk, Quiet, Begun
  <1>6. At(t, "got") /\ stack[t] # <<>> /\ Head(stack[t]).at = "got" /\ Becomes(t, <<f>>)
    BY <1>1, <1>2, <1>3 DEF Found, At
  <1>7. Moves(t, {f})
    BY <1>5, <1>6, BecomesOne DEF BaseInv, Moves, Alone, Below
  <1>8. Gets(t, f)
    BY <1>5 DEF Gets, Held
  <1>9. BaseInv'
    BY <1>4, <1>5, <1>7, <1>8, QuietStep DEF Moves, Gains, Fresh, Putting
  <1> QED
    BY <1>1, <1>2, <1>3, <1>7, <1>9

\* A request without a body.
LEMMA FoundBodilessStep ==
  ASSUME BaseInv, NEW c \in Calls, FoundBodiless(c)
  PROVE  BaseInv' /\ Moves(Worker(c), {Frame("cancel", connection[c])})
  <1>1. PICK t \in Threads : t = Worker(c)
    BY ThreadFacts
  <1>2. PICK k \in Calls : k = connection[c]
    BY DEF BaseInv, TypeOK, FoundBodiless
  <1>3. PICK f : f = Frame("cancel", k)
    OBVIOUS
  <1>4. Quiet /\ TypeRest'
    BY <1>1, TypeParts DEF BaseInv, FoundBodiless, Quiet, TypeRest, conns, socks
  <1>5. f \in FrameRec /\ f.at = "cancel" /\ FrameOk(f)'
    BY <1>2, <1>3 DEF Frame, FrameRec, Places, FrameOk
  <1>6. At(t, "got") /\ stack[t] # <<>> /\ Head(stack[t]).at = "got" /\ Becomes(t, <<f>>)
    BY <1>1, <1>2, <1>3 DEF FoundBodiless, At
  <1>7. Moves(t, {f})
    BY <1>5, <1>6, BecomesOne DEF BaseInv, Moves, Alone, Below
  <1>8. Gets(t, f)
    BY <1>5 DEF Gets, Held
  <1>9. BaseInv'
    BY <1>4, <1>5, <1>7, <1>8, QuietStep DEF Moves, Gains, Fresh, Putting
  <1> QED
    BY <1>1, <1>2, <1>3, <1>7, <1>9

\* A destroyed connection refuses the message.
LEMMA SendRefusedStep ==
  ASSUME BaseInv, NEW c \in Calls, SendRefused(c)
  PROVE  BaseInv' /\ Moves(Worker(c), {})
  <1>1. PICK t \in Threads : t = Worker(c)
    BY ThreadFacts
  <1>2. Moves(t, {})
    BY <1>1, Returns DEF BaseInv, SendRefused, Moves, At
  <1>3. Quiet /\ TypeRest'
    BY TypeParts DEF BaseInv, SendRefused, Quiet, TypeRest, conns, socks
  <1>4. BaseInv'
    BY <1>2, <1>3, QuietStep DEF Moves, Gains
  <1> QED
    BY <1>1, <1>2, <1>4

\* The message waits for onOpen.
LEMMA CacheStep ==
  ASSUME BaseInv, NEW c \in Calls, Cache(c)
  PROVE  BaseInv' /\ Moves(Worker(c), {})
  <1>1. PICK t \in Threads : t = Worker(c)
    BY ThreadFacts
  <1>2. Moves(t, {})
    BY <1>1, Returns DEF BaseInv, Cache, Moves, At
  <1>3. TypeRest'
    <2>1. PICK k : messageQueue' = [messageQueue EXCEPT ![k] = Append(@, c)]
      BY DEF Cache
    <2>2. messageQueue' \in [Calls -> Seq(Calls)]
      <3>1. messageQueue \in [Calls -> Seq(Calls)]
        BY TypeParts DEF BaseInv, TypeRest
      <3>2. \A q \in Seq(Calls) : Append(q, c) \in Seq(Calls)
        OBVIOUS
      <3> QED
        BY <2>1, <3>1, <3>2
    <2> QED
      BY <2>2, TypeParts DEF BaseInv, Cache, TypeRest, socks, ends
  <1>4. Advances /\ \A k \in Calls : xCallBackMap'[k] \subseteq xCallBackMap[k]
    BY DEF Cache, Advances, Begun, Dying, socks
  <1>5. ConnInv'
    <2>1. /\ \A k \in Calls : loop'[k] = "none" =>
               xCallBackMap'[k] = {} /\ \A d \in Calls : connection'[d] # k
          /\ \A k \in Calls : xWebSocket'[k] => Begun(k)'
          /\ Elems(pool') \subseteq Elems(pool)
          /\ \A k \in Calls : loop'[k] = "none" <=> loop[k] = "none"
      BY DEF BaseInv, ConnInv, Cache, socks, Begun
    <2> QED
      BY <1>2, <2>1, ConnStep DEF Moves, Gains
  <1>6. BaseInv'
    BY <1>2, <1>3, <1>4, <1>5, BaseStep DEF Moves, Gains
  <1> QED
    BY <1>1, <1>2, <1>6

\* The catch block cancels the call.
LEMMA CancelThrownStep ==
  ASSUME BaseInv, NEW c \in Calls, CancelThrown(c)
  PROVE  BaseInv' /\ Moves(Worker(c), {})
  <1>1. PICK t \in Threads : t = Worker(c)
    BY ThreadFacts
  <1>2. Moves(t, {})
    BY <1>1, Returns DEF BaseInv, CancelThrown, Moves, At
  <1>3. PICK k : xCallBackMap' = [xCallBackMap EXCEPT ![k] = @ \ {c}]
    BY DEF CancelThrown
  <1>4. Quiet /\ TypeRest'
    <2>1. /\ xCallBackMap' \in [Calls -> SUBSET Calls]
          /\ \A j \in Calls : xCallBackMap'[j] \subseteq xCallBackMap[j]
      BY <1>3, TypeParts DEF BaseInv, TypeRest
    <2> QED
      BY <2>1, TypeParts DEF BaseInv, CancelThrown, Quiet, TypeRest, socks, ends
  <1>5. BaseInv'
    BY <1>2, <1>4, QuietStep DEF Moves, Gains
  <1> QED
    BY <1>1, <1>2, <1>5

-----------------------------------------------------------------------------
(* The web socket's methods.                                                 *)

\* A web socket that is of no more use.
LEMMA UnusableDies ==
  ASSUME BaseInv, NEW k \in Calls, Begun(k), ~Usable(k)
  PROVE  Dying(k)
  BY TypeParts DEF BaseInv, TypeRest, Begun, Usable, Dying

\* The socket is asked to take a message.
LEMMA OfferStep ==
  ASSUME BaseInv, NEW t \in Threads, Offer(t)
  PROVE  BaseInv' /\ \E N : Moves(t, N) /\ \A f \in N : f.at \in {"offered", "release", "told"}
  <1>1. PICK s : s = stack[t]
    OBVIOUS
  <1>2. At(t, "offer") /\ s # <<>> /\ Head(s).at = "offer"
    BY <1>1 DEF Offer, At
  <1>3. PICK k \in Calls : k = On(t) /\ k = Head(s).on /\ Begun(k)
    BY <1>1, <1>2, AtFacts DEF On, FrameOk, BaseInv
  <1>4. Quiet /\ TypeRest'
    BY TypeParts DEF BaseInv, Offer, Quiet, TypeRest, conns, socks, ends
  <1>5. PICK f, g, h : f = Frame("offered", k) /\ g = Frame("release", k) /\ h = Frame("told", k)
    OBVIOUS
  <1>6. /\ f \in FrameRec /\ g \in FrameRec /\ h \in FrameRec
        /\ f.at = "offered" /\ g.at = "release" /\ h.at = "told"
        /\ f.on = k /\ g.on = k /\ h.on = k
    BY <1>5 DEF Frame, FrameRec, Places
  <1>7. FrameOk(f)'
    BY <1>3, <1>4, <1>6 DEF FrameOk, Quiet, Begun
  <1>8. ~Usable(k) => FrameOk(g)' /\ FrameOk(h)'
    BY <1>3, <1>4, <1>6, UnusableDies DEF FrameOk, Quiet, Begun, Dying
  <1>9. Gets(t, f) /\ Gets(t, g) /\ Gets(t, h)
    <2>1. /\ Held(f) = {Sock(k)} /\ Held(g) = {} /\ Held(h) = {Sock(k)}
          /\ Wanted(Head(s)) = {Sock(k)}
      BY <1>2, <1>3, <1>6 DEF Held, Wanted
    <2> QED
      BY <1>1, <1>2, <2>1, GetsLocks DEF BaseInv
  <1>10. CASE Usable(k)
    <2>1. Becomes(t, <<f>>)
      BY <1>3, <1>5, <1>10 DEF Offer
    <2>2. Moves(t, {f})
      BY <1>1, <1>2, <1>6, <2>1, BecomesOne DEF BaseInv, Moves, Alone, Below
    <2>3. BaseInv'
      BY <1>4, <1>6, <1>7, <1>9, <2>2, QuietStep DEF Moves, Gains, Fresh, Putting
    <2> QED
      BY <1>6, <2>2, <2>3
  <1>11. CASE ~Usable(k)
    <2>1. Becomes(t, <<g, h>>)
      BY <1>3, <1>5, <1>11 DEF Offer
    <2>2. Moves(t, {g, h})
      BY <1>1, <1>2, <1>3, <1>5, <1>6, <2>1, BecomesTwo DEF BaseInv, Moves
    <2>3. BaseInv'
      BY <1>4, <1>6, <1>8, <1>9, <1>11, <2>2, QuietStep DEF Moves, Gains, Fresh, Putting
    <2> QED
      BY <1>6, <2>2, <2>3
  <1> QED
    BY <1>10, <1>11

\* The socket is asked to close.
LEMMA CloseStep ==
  ASSUME BaseInv, NEW t \in Threads, Close(t)
  PROVE  BaseInv' /\ \E N : Moves(t, N) /\ \A f \in N : f.at \in {"closing", "release", "told"}
  <1>1. PICK s : s = stack[t]
    OBVIOUS
  <1>2. At(t, "close") /\ s # <<>> /\ Head(s).at = "close"
    BY <1>1 DEF Close, At
  <1>3. PICK k \in Calls : k = On(t) /\ k = Head(s).on /\ Begun(k)
    BY <1>1, <1>2, AtFacts DEF On, FrameOk, BaseInv
  <1>4. Quiet /\ TypeRest'
    BY TypeParts DEF BaseInv, Close, Quiet, TypeRest, conns, socks, ends
  <1>5. PICK f, g, h : f = Frame("closing", k) /\ g = Frame("release", k) /\ h = Frame("told", k)
    OBVIOUS
  <1>6. /\ f \in FrameRec /\ g \in FrameRec /\ h \in FrameRec
        /\ f.at = "closing" /\ g.at = "release" /\ h.at = "told"
        /\ f.on = k /\ g.on = k /\ h.on = k
    BY <1>5 DEF Frame, FrameRec, Places
  <1>7. FrameOk(f)'
    BY <1>3, <1>4, <1>6 DEF FrameOk, Quiet, Begun
  <1>8. ~Usable(k) => FrameOk(g)' /\ FrameOk(h)'
    BY <1>3, <1>4, <1>6, UnusableDies DEF FrameOk, Quiet, Begun, Dying
  <1>9. Gets(t, f) /\ Gets(t, g) /\ Gets(t, h)
    <2>1. /\ Held(f) = {Sock(k)} /\ Held(g) = {} /\ Held(h) = {Sock(k)}
          /\ Wanted(Head(s)) = {Sock(k)}
      BY <1>2, <1>3, <1>6 DEF Held, Wanted
    <2> QED
      BY <1>1, <1>2, <2>1, GetsLocks DEF BaseInv
  <1>10. \/ shut[k] /\ Return(t)
         \/ Usable(k) /\ Becomes(t, <<f>>)
         \/ ~Usable(k) /\ Becomes(t, <<g, h>>)
    BY <1>3, <1>5 DEF Close, Usable
  <1>11. CASE Usable(k) /\ Becomes(t, <<f>>)
    <2>1. Moves(t, {f})
      BY <1>1, <1>2, <1>6, <1>11, BecomesOne DEF BaseInv, Moves, Alone, Below
    <2>2. BaseInv'
      BY <1>4, <1>6, <1>7, <1>9, <2>1, QuietStep DEF Moves, Gains, Fresh, Putting
    <2> QED
      BY <1>6, <2>1, <2>2
  <1>12. CASE ~Usable(k) /\ Becomes(t, <<g, h>>)
    <2>1. Moves(t, {g, h})
      BY <1>1, <1>2, <1>3, <1>5, <1>6, <1>12, BecomesTwo DEF BaseInv, Moves
    <2>2. BaseInv'
      BY <1>4, <1>6, <1>8, <1>9, <1>12, <2>1, QuietStep DEF Moves, Gains, Fresh, Putting
    <2> QED
      BY <1>6, <2>1, <2>2
  <1>13. CASE Return(t)
    <2>1. Moves(t, {})
      BY <1>1, <1>2, <1>13, Returns DEF BaseInv, Moves
    <2>2. BaseInv'
      BY <1>4, <2>1, QuietStep DEF Moves, Gains
    <2> QED
      BY <2>1, <2>2
  <1> QED
    BY <1>10, <1>11, <1>12, <1>13

\* An exception leaves a thread one frame or none.
LEMMA Throws ==
  ASSUME BaseInv, NEW t \in Threads, Throw(t)
  PROVE  \E N : /\ Gains(t, N)
                /\ \A f \in N : f.at = "cancel" /\ FrameOk(f)' /\ Gets(t, f)
  <1>1. PICK k \in Calls \cup {None} : k = connection[t[1]]
    BY ThreadFacts DEF BaseInv, TypeOK
  <1>2. PICK f : f = Frame("cancel", k)
    OBVIOUS
  <1>3. f \in FrameRec /\ f.at = "cancel" /\ FrameOk(f)' /\ Gets(t, f)
    BY <1>2 DEF Frame, FrameRec, Places, FrameOk, Gets, Held
  <1>4. CASE t[2] = "worker"
    <2>1. stack' = [stack EXCEPT ![t] = <<f>>]
      BY <1>1, <1>2, <1>4 DEF Throw
    <2>2. NewFrames(t, {f}, <<f>>)
      BY <1>3, <2>1, BecomesAlone
    <2> QED
      BY <1>3, <2>2 DEF Gains
  <1>5. CASE t[2] # "worker"
    <2>1. NewFrames(t, {}, <<>>)
      BY <1>5, BecomesNone DEF Throw
    <2> QED
      BY <2>1 DEF Gains
  <1> QED
    BY <1>4, <1>5

\* The socket's executor takes the task, or not.
LEMMA SubmitStep ==
  ASSUME BaseInv, NEW t \in Threads, Submit(t)
  PROVE  BaseInv' /\ (Moves(t, {}) \/ Throw(t))
  <1>1. PICK k : k = On(t)
    OBVIOUS
  <1>2. TypeRest'
    <2>1. \/ queued' = queued
          \/ queued' = [queued EXCEPT ![k] = @ \cup {t[1]}]
      BY <1>1 DEF Submit
    <2>2. \/ closeQueued' = closeQueued
          \/ closeQueued' = [closeQueued EXCEPT ![k] = TRUE]
      BY <1>1 DEF Submit
    <2>3. queued' \in [Calls -> SUBSET Calls] /\ closeQueued' \in [Calls -> BOOLEAN]
      <3>1. queued \in [Calls -> SUBSET Calls] /\ closeQueued \in [Calls -> BOOLEAN]
        BY TypeParts DEF BaseInv, TypeRest
      <3>2. t[1] \in Calls
        BY ThreadFacts
      <3>3. queued' \in [Calls -> SUBSET Calls]
        BY <2>1, <3>1, <3>2
      <3>4. closeQueued' \in [Calls -> BOOLEAN]
        BY <2>2, <3>1
      <3> QED
        BY <3>3, <3>4
    <2>4. thrown' \in SUBSET Threads
      BY TypeParts DEF BaseInv, TypeRest, Submit, Throw
    <2> QED
      BY <2>3, <2>4, TypeParts DEF BaseInv, Submit, TypeRest, conns
  <1>3. Quiet
    BY DEF Submit, Quiet, conns
  <1>4. Return(t) \/ Throw(t)
    BY DEF Submit
  <1>5. CASE Return(t)
    <2>1. Moves(t, {})
      BY <1>5, Returns DEF BaseInv, Submit, Moves, At
    <2>2. BaseInv'
      BY <1>2, <1>3, <2>1, QuietStep DEF Moves, Gains
    <2> QED
      BY <2>1, <2>2
  <1>6. CASE Throw(t)
    <2>1. PICK N : /\ Gains(t, N)
                   /\ \A f \in N : f.at = "cancel" /\ FrameOk(f)' /\ Gets(t, f)
      BY <1>6, Throws
    <2>2. BaseInv'
      BY <1>2, <1>3, <2>1, QuietStep DEF Fresh, Putting
    <2> QED
      BY <1>6, <2>2
  <1> QED
    BY <1>4, <1>5, <1>6

-----------------------------------------------------------------------------
(* The end of a connection.                                                  *)

\* The connection is destroyed.
LEMMA ReleaseStep ==
  ASSUME BaseInv, NEW t \in Threads, Release(t)
  PROVE  BaseInv' /\ Moves(t, {Frame("unpool", On(t))})
  <1>1. PICK s : s = stack[t]
    OBVIOUS
  <1>2. At(t, "release") /\ s # <<>> /\ Head(s).at = "release"
    BY <1>1 DEF Release, At
  <1>3. PICK k \in Calls : k = On(t) /\ k = Head(s).on /\ Begun(k)
    BY <1>1, <1>2, AtFacts DEF On, FrameOk, BaseInv
  <1>4. PICK f : f = Frame("unpool", k)
    OBVIOUS
  <1>5. f \in FrameRec /\ f.at = "unpool" /\ f.on = k
    BY <1>4 DEF Frame, FrameRec, Places
  <1>6. Advances
    BY <1>3, TypeParts DEF BaseInv, TypeRest, Release, Advances, Begun, Dying, socks
  <1>7. FrameOk(f)' /\ Gets(t, f)
    <2>1. Held(f) = {Conn(k)} /\ Wanted(Head(s)) = {Conn(k)}
      BY <1>2, <1>3, <1>5 DEF Held, Wanted
    <2>2. Gets(t, f)
      BY <1>1, <1>2, <2>1, GetsLocks DEF BaseInv
    <2>3. Begun(k)'
      BY <1>3, <1>6 DEF Advances
    <2> QED
      BY <1>3, <1>5, <2>2, <2>3 DEF FrameOk
  <1>8. Moves(t, {f})
    BY <1>1, <1>2, <1>3, <1>4, <1>5, BecomesOne DEF BaseInv, Moves, Alone, Below, Release
  <1>9. TypeRest'
    BY TypeParts DEF BaseInv, Release, TypeRest, socks, ends
  <1>10. ConnInv'
    <2>1. /\ \A j \in Calls : loop'[j] = "none" =>
               xCallBackMap'[j] = {} /\ \A d \in Calls : connection'[d] # j
          /\ \A j \in Calls : loop'[j] = "none" <=> loop[j] = "none"
          /\ Elems(pool') \subseteq Elems(pool)
      BY DEF BaseInv, ConnInv, Release, socks
    <2>2. \A j \in Calls : xWebSocket'[j] => Begun(j)'
      BY TypeParts DEF BaseInv, ConnInv, Release, socks, Begun, TypeRest
    <2> QED
      BY <1>5, <1>8, <2>1, <2>2, ConnStep DEF Moves, Gains, Fresh, Putting
  <1>11. BaseInv'
    BY <1>6, <1>7, <1>8, <1>9, <1>10, BaseStep DEF Moves, Gains
  <1> QED
    BY <1>3, <1>4, <1>8, <1>11

\* The calls of a connection are told: a return of the thread that tells them.
LEMMA FailCallsFacts ==
  ASSUME TypeOK, NEW k, FailCalls(k)
  PROVE  /\ xCallBackMap' \in [Calls -> SUBSET Calls]
         /\ \A j \in Calls : xCallBackMap'[j] \subseteq xCallBackMap[j]
         /\ k \in Calls => answered' \in SUBSET Calls
  BY DEF TypeOK, FailCalls

\* After the removal: the calls of the connection are told, or there is none.
LEMMA UnpooledStep ==
  ASSUME BaseInv, NEW t \in Threads, Unpooled(t)
  PROVE  BaseInv' /\ Moves(t, {})
  <1>1. PICK s : s = stack[t]
    OBVIOUS
  <1>2. At(t, "unpooled") /\ s # <<>> /\ Head(s).at = "unpooled"
    BY <1>1 DEF Unpooled, At
  <1>3. PICK k \in Calls : k = On(t) /\ k = Head(s).on /\ Begun(k)
    BY <1>1, <1>2, AtFacts DEF On, FrameOk, BaseInv
  <1>4. Moves(t, {})
    BY <1>1, <1>2, Returns DEF BaseInv, Unpooled, Moves
  <1>5. /\ xCallBackMap' \in [Calls -> SUBSET Calls] /\ answered' \in SUBSET Calls
        /\ \A j \in Calls : xCallBackMap'[j] \subseteq xCallBackMap[j]
    BY <1>3, FailCallsFacts DEF BaseInv, Unpooled
  <1>6. Quiet /\ TypeRest'
    BY <1>5, TypeParts DEF BaseInv, Unpooled, Quiet, TypeRest, socks
  <1>7. BaseInv'
    BY <1>4, <1>6, QuietStep DEF Moves, Gains
  <1> QED
    BY <1>4, <1>7

\* The connection leaves the pool, and perhaps another one with it.
LEMMA UnpoolStep ==
  ASSUME BaseInv, NEW t \in Threads, Unpool(t)
  PROVE  /\ BaseInv' /\ Elems(pool') \subseteq Elems(pool)
         /\ \/ Moves(t, {}) /\ FailCalls(On(t))
            \/ /\ \E f : /\ Moves(t, {f, Frame("unpooled", On(t))})
                         /\ f.at = "close"
               /\ UNCHANGED <<answered, xCallBackMap>>
  <1>1. PICK s : s = stack[t]
    OBVIOUS
  <1>2. At(t, "unpool") /\ s # <<>> /\ Head(s).at = "unpool"
    BY <1>1 DEF Unpool, At
  <1>3. PICK k \in Calls : k = On(t) /\ k = Head(s).on /\ Begun(k)
    BY <1>1, <1>2, AtFacts DEF On, FrameOk, BaseInv
  <1>4. PICK P : P = Delete(pool, k)
    OBVIOUS
  <1>5. /\ P \in Seq(Calls) /\ IsInjective(P)
        /\ Elems(P) \subseteq Elems(pool) /\ Elems(P) \subseteq Calls
    <2>1. P \in Seq(Calls) /\ IsInjective(P) /\ Elems(P) \subseteq Elems(pool)
      BY <1>4, DeleteFacts DEF BaseInv, TypeOK
    <2>2. \A i \in DOMAIN P : P[i] \in Calls
      BY <2>1
    <2>3. Elems(P) \subseteq Calls
      BY <2>2 DEF Elems
    <2> QED
      BY <2>1, <2>3
  <1>6. PICK r \in cleanUp(P) :
           /\ pool' = r.rest
           /\ IF Closing(r.evicted) = <<>>
              THEN FailCalls(k) /\ Return(t)
              ELSE /\ Becomes(t, Closing(r.evicted) \o <<Frame("unpooled", k)>>)
                   /\ UNCHANGED <<answered, xCallBackMap>>
    BY <1>3, <1>4 DEF Unpool
  <1>7. /\ r.rest \in Seq(Calls) /\ IsInjective(r.rest) /\ Elems(r.rest) \subseteq Elems(P)
        /\ r.evicted \in Elems(P) \cup {None}
    BY <1>5, CleanUpFacts DEF BaseInv, TypeOK
  <1>8. /\ pool' \in Seq(Calls) /\ IsInjective(pool') /\ Elems(pool') \subseteq Elems(pool)
    BY <1>5, <1>6, <1>7
  <1>9. /\ UNCHANGED <<connection, xWebSocket, isDestroy, responded, messageQueue, canceled,
                       thrown>>
        /\ UNCHANGED <<queued, sent, loop, closeQueued, shut, inactive, isCallback>>
    BY DEF Unpool, socks
  <1>10. /\ xCallBackMap' \in [Calls -> SUBSET Calls] /\ answered' \in SUBSET Calls
         /\ \A j \in Calls : xCallBackMap'[j] \subseteq xCallBackMap[j]
    <2>1. CASE FailCalls(k)
      BY <1>3, <2>1, FailCallsFacts DEF BaseInv
    <2>2. CASE UNCHANGED <<answered, xCallBackMap>>
      BY <2>2 DEF BaseInv, TypeOK
    <2> QED
      BY <1>6, <2>1, <2>2
  <1>11. TypeRest'
    BY <1>8, <1>9, <1>10, TypeParts DEF BaseInv, TypeRest
  <1>12. Advances
    BY <1>9 DEF Advances, Begun, Dying
  <1>13. /\ \A j \in Calls : loop'[j] = "none" =>
              xCallBackMap'[j] = {} /\ \A d \in Calls : connection'[d] # j
         /\ \A j \in Calls : loop'[j] = "none" <=> loop[j] = "none"
         /\ \A j \in Calls : xWebSocket'[j] => Begun(j)'
    BY <1>9, <1>10 DEF BaseInv, ConnInv, Begun
  <1>14. CASE Closing(r.evicted) = <<>>
    <2>1. Moves(t, {})
      BY <1>1, <1>2, <1>6, <1>14, Returns DEF BaseInv, Moves
    <2>2. ConnInv'
      BY <1>8, <1>13, <2>1, ConnStep DEF Moves, Gains
    <2>3. BaseInv'
      BY <1>11, <1>12, <2>1, <2>2, BaseStep DEF Moves, Gains
    <2> QED
      BY <1>3, <1>6, <1>8, <1>14, <2>1, <2>3
  <1>15. CASE Closing(r.evicted) # <<>>
    <2>1. PICK e \in Calls : e = r.evicted /\ xWebSocket[e]
      BY <1>5, <1>7, <1>15 DEF Closing
    <2>2. PICK f, g : f = Frame("close", e) /\ g = Frame("unpooled", k)
      OBVIOUS
    <2>3. /\ f \in FrameRec /\ g \in FrameRec /\ f.at = "close" /\ g.at = "unpooled"
          /\ f.on = e /\ g.on = k
      BY <2>2 DEF Frame, FrameRec, Places
    <2>4. Closing(r.evicted) = <<f>>
      BY <1>15, <2>1, <2>2 DEF Closing
    <2>5. Becomes(t, <<f>> \o <<g>>) /\ UNCHANGED <<answered, xCallBackMap>>
      BY <1>6, <1>15, <2>2, <2>4
    <2>6. <<f>> \o <<g>> = <<f, g>>
      BY <2>3, TwoTogether
    <2>7. Moves(t, {f, g})
      BY <1>1, <1>2, <2>3, <2>5, <2>6, BecomesTwo DEF BaseInv, Moves
    <2>8. FrameOk(f)' /\ FrameOk(g)'
      <3>1. Begun(e)
        BY <2>1 DEF BaseInv, ConnInv
      <3>2. Begun(e)' /\ Begun(k)'
        BY <1>3, <1>12, <3>1 DEF Advances
      <3> QED
        BY <2>3, <3>2 DEF FrameOk
    <2>9. Gets(t, f) /\ Gets(t, g)
      <3>1. /\ Held(f) = {} /\ Held(g) = {Conn(k), Pool}
            /\ Held(Head(s)) = {Conn(k)} /\ Wanted(Head(s)) = {Pool}
        BY <1>2, <1>3, <2>3 DEF Held, Wanted
      <3> QED
        BY <1>1, <1>2, <3>1, GetsLocks DEF BaseInv
    <2>10. ConnInv'
      BY <1>8, <1>13, <2>3, <2>7, ConnStep DEF Moves, Gains, Fresh, Putting
    <2>11. BaseInv'
      BY <1>11, <1>12, <2>7, <2>8, <2>9, <2>10, BaseStep DEF Moves, Gains
    <2> QED
      BY <1>3, <1>8, <2>2, <2>3, <2>5, <2>7, <2>11
  <1> QED
    BY <1>14, <1>15

-----------------------------------------------------------------------------
(* Sending.                                                                  *)

\* The callback is registered.
LEMMA SendStep ==
  ASSUME BaseInv, NEW c \in Calls, Send(c)
  PROVE  /\ BaseInv'
         /\ \E N : Moves(Worker(c), N) /\ \A f \in N : f.at \in {"offer", "sending", "cache"}
  <1>1. PICK t, s : t \in Threads /\ t = Worker(c) /\ s = stack[t]
    BY ThreadFacts
  <1>2. At(t, "send") /\ s # <<>> /\ Head(s).at = "send"
    BY <1>1 DEF Send, At
  <1>3. PICK k \in Calls : k = On(t) /\ k = Head(s).on /\ loop[k] # "none"
    BY <1>1, <1>2, AtFacts DEF On, FrameOk, BaseInv, Begun
  <1>4. PICK f, g, h : f = Frame("offer", k) /\ g = Frame("sending", k) /\ h = Frame("cache", k)
    OBVIOUS
  <1>5. /\ f \in FrameRec /\ g \in FrameRec /\ h \in FrameRec
        /\ f.at = "offer" /\ g.at = "sending" /\ h.at = "cache"
        /\ f.on = k /\ g.on = k /\ h.on = k
    BY <1>4 DEF Frame, FrameRec, Places
  <1>6. xCallBackMap' = [xCallBackMap EXCEPT ![k] = @ \cup {c}]
    BY <1>1, <1>3 DEF Send
  <1>7. TypeRest'
    <2>1. xCallBackMap' \in [Calls -> SUBSET Calls]
      BY <1>6, TypeParts DEF BaseInv, TypeRest
    <2> QED
      BY <2>1, TypeParts DEF BaseInv, Send, TypeRest, socks, ends
  <1>8. Advances
    BY DEF Send, socks, Advances, Begun, Dying
  <1>9. /\ \A j \in Calls : loop'[j] = "none" =>
             xCallBackMap'[j] = {} /\ \A d \in Calls : connection'[d] # j
        /\ \A j \in Calls : loop'[j] = "none" <=> loop[j] = "none"
        /\ \A j \in Calls : xWebSocket'[j] => Begun(j)'
        /\ Elems(pool') \subseteq Elems(pool)
    <2>1. UNCHANGED <<loop, connection, xWebSocket, pool>>
      BY DEF Send, socks
    <2>2. \A j \in Calls : loop[j] = "none" => j # k /\ xCallBackMap'[j] = xCallBackMap[j]
      BY <1>3, <1>6 DEF BaseInv, TypeOK
    <2> QED
      BY <2>1, <2>2 DEF BaseInv, ConnInv, Begun
  <1>10. Gets(t, f) /\ Gets(t, g) /\ Gets(t, h)
    <2>1. /\ Held(f) = {} /\ Held(g) = {Conn(k)} /\ Held(h) = {Conn(k)}
          /\ Wanted(Head(s)) = {Conn(k)}
      BY <1>2, <1>3, <1>5 DEF Held, Wanted
    <2> QED
      BY <1>1, <1>2, <2>1, GetsLocks DEF BaseInv
  <1>11. CASE xWebSocket[k]
    <2>1. Becomes(t, <<f, g>>)
      BY <1>1, <1>3, <1>4, <1>11 DEF Send
    <2>2. Moves(t, {f, g})
      BY <1>1, <1>2, <1>4, <1>5, <2>1, BecomesTwo DEF BaseInv, Moves, Alone
    <2>3. FrameOk(f)' /\ FrameOk(g)'
      <3>1. Begun(k)'
        BY <1>9, <1>11 DEF Send
      <3> QED
        BY <1>5, <3>1 DEF FrameOk
    <2>4. ConnInv'
      BY <1>1, <1>5, <1>9, <2>2, ConnStep DEF Moves, Gains, Fresh, Putting
    <2>5. BaseInv'
      BY <1>1, <1>7, <1>8, <1>10, <2>2, <2>3, <2>4, BaseStep DEF Moves, Gains
    <2> QED
      BY <1>1, <1>5, <2>2, <2>5
  <1>12. CASE ~xWebSocket[k]
    <2>1. Becomes(t, <<h>>)
      BY <1>1, <1>3, <1>4, <1>12 DEF Send
    <2>2. Moves(t, {h})
      BY <1>1, <1>2, <1>5, <2>1, BecomesOne DEF BaseInv, Moves, Alone, Below
    <2>3. FrameOk(h)'
      BY <1>3, <1>5, <1>9 DEF FrameOk, Begun
    <2>4. ConnInv'
      BY <1>1, <1>5, <1>9, <2>2, ConnStep DEF Moves, Gains, Fresh, Putting
    <2>5. BaseInv'
      BY <1>1, <1>7, <1>8, <1>10, <2>2, <2>3, <2>4, BaseStep DEF Moves, Gains
    <2> QED
      BY <1>1, <1>5, <2>2, <2>5
  <1> QED
    BY <1>11, <1>12

-----------------------------------------------------------------------------
(* The block on TAG.                                                         *)

\* A thread whose only frame returned is nowhere.
LEMMA OnlyFrame ==
  ASSUME TypeOK, StackInv, NEW t \in Threads, DOMAIN stack[t] = {1}, Gains(t, {}), NEW places
  PROVE  ~In(t, places)'
  <1>1. PICK s : NewFrames(t, {}, s)
    BY DEF Gains
  <1>2. DOMAIN s = {}
    BY <1>1 DEF NewFrames
  <1>3. stack'[t] = s
    BY <1>1, StackType DEF NewFrames
  <1> QED
    BY <1>2, <1>3 DEF In

\* The places in the block on TAG.
Tagged == {"get", "got", "put", "add"}

\* Only one thread is in the block on TAG.
LEMMA OneInTag ==
  ASSUME BaseInv, NEW c \in Calls, NEW d \in Calls,
         In(Worker(c), Tagged), In(Worker(d), Tagged)
  PROVE  c = d
  <1>1. \A t \in Threads : In(t, Tagged) => Holds(t, TAG)
    BY DEF In, Tagged, Holds, Held
  <1>2. Worker(c) = Worker(d)
    BY <1>1, ThreadFacts DEF BaseInv, LockInv
  <1> QED
    BY <1>2, ThreadFacts

\* The place a worker is at.
LEMMA InAt ==
  ASSUME BaseInv, NEW t \in Threads, NEW place, At(t, place)
  PROVE  In(t, {place})
  BY AtFacts DEF BaseInv, At, In

\* A connection is made.
LEMMA CreateStep ==
  ASSUME BaseInv, NEW c \in Calls, Create(c)
  PROVE  /\ BaseInv' /\ Moves(Worker(c), {Frame("put", None)})
         /\ loop[c] = "none" /\ xCallBackMap[c] = {}
  <1>1. PICK t \in Threads : t = Worker(c)
    BY ThreadFacts
  <1>2. PICK f : f = Frame("put", None)
    OBVIOUS
  <1>3. f \in FrameRec /\ f.at = "put" /\ FrameOk(f)'
    BY <1>2 DEF Frame, FrameRec, Places, FrameOk
  <1>4. At(t, "got") /\ stack[t] # <<>> /\ Head(stack[t]).at = "got" /\ Becomes(t, <<f>>)
    BY <1>1, <1>2 DEF Create, At
  <1>5. Moves(t, {f})
    BY <1>3, <1>4, BecomesOne DEF BaseInv, Moves, Alone, Below
  <1>6. Gets(t, f)
    BY <1>3, <1>4, GetsLocks DEF BaseInv, Held, Wanted
  <1>7. loop[c] = "none" /\ xCallBackMap[c] = {} /\ c \notin Elems(pool)
    <2>1. In(t, {"start", "get", "got"})
      BY <1>4, InAt DEF In
    <2> QED
      BY <1>1, <2>1 DEF BaseInv, ConnInv
  <1>8. /\ connection' = [connection EXCEPT ![c] = c]
        /\ xCallBackMap' = [xCallBackMap EXCEPT ![c] = {c}]
        /\ loop' = [loop EXCEPT ![c] = "connecting"]
        /\ UNCHANGED <<pool, xWebSocket, isDestroy, responded, messageQueue, queued, sent,
                       closeQueued, shut, inactive, isCallback, answered, canceled, thrown>>
    BY DEF Create, ends
  <1>9. TypeRest'
    <2>1. /\ connection' \in [Calls -> Calls \cup {None}]
          /\ xCallBackMap' \in [Calls -> SUBSET Calls]
          /\ loop' \in [Calls -> {"none", "connecting", "open", "down", "ended"}]
      BY <1>8, TypeParts DEF BaseInv, TypeRest
    <2> QED
      BY <1>8, <2>1, TypeParts DEF BaseInv, TypeRest
  <1>10. loop'[c] = "connecting" /\ \A j \in Calls : j # c => loop'[j] = loop[j]
    BY <1>8, TypeParts DEF BaseInv, TypeRest
  <1>11. Advances
    BY <1>7, <1>8, <1>10 DEF Advances, Begun, Dying
  <1>12. ConnInv'
    <2>1. PICK s : NewFrames(t, {f}, s)
      BY <1>5 DEF Moves
    <2>2. \A j \in Calls : xWebSocket'[j] => Begun(j)'
      BY <1>7, <1>8, <1>10 DEF BaseInv, ConnInv, Begun
    <2>3. \A j \in Calls : loop'[j] = "none" =>
            xCallBackMap'[j] = {} /\ j \notin Elems(pool) /\ \A d \in Calls : connection'[d] # j
      BY <1>8, <1>10, TypeParts DEF BaseInv, ConnInv, TypeRest
    <2>4. ASSUME NEW d \in Calls, In(Worker(d), {"start", "get", "got"})'
          PROVE  loop'[d] = "none"
      <3>1. In(Worker(d), {"start", "get", "got"}) /\ Worker(d) # t
        BY <1>3, <2>1, <2>4, InStep, ThreadFacts DEF BaseInv, Below
      <3> QED
        BY <1>1, <1>10, <3>1, ThreadFacts DEF BaseInv, ConnInv
    <2>5. ASSUME NEW d \in Calls, In(Worker(d), {"put", "add"})'
          PROVE  loop'[d] # "none" /\ d \notin Elems(pool)
      <3>1. In(Worker(d), {"put", "add"}) \/ Worker(d) = t
        BY <2>1, <2>5, InStep, ThreadFacts DEF BaseInv
      <3> QED
        BY <1>1, <1>7, <1>10, <3>1, ThreadFacts DEF BaseInv, ConnInv
    <2>6. Elems(pool)' = Elems(pool)
      BY <1>8 DEF Elems
    <2> QED
      BY <2>2, <2>3, <2>4, <2>5, <2>6 DEF ConnInv
  <1>13. BaseInv'
    BY <1>3, <1>5, <1>6, <1>9, <1>11, <1>12, BaseStep DEF Moves, Gains
  <1> QED
    BY <1>1, <1>2, <1>5, <1>7, <1>13

\* What get finds: an eligible connection, or that there is none.
LEMMA GetFinds ==
  ASSUME BaseInv, NEW c \in Calls, Get(c)
  PROVE  /\ pool' \in Seq(Calls) /\ IsInjective(pool') /\ Elems(pool') \subseteq Elems(pool)
         /\ Alive \subseteq Elems(pool')
         /\ \/ /\ connection' = [connection EXCEPT ![c] = None]
               /\ \A k \in Alive : authority[k] # authority[c]
               /\ \A k \in Elems(pool') : ~isDestroy[k]
            \/ \E k \in Alive : /\ connection' = [connection EXCEPT ![c] = k]
                                /\ authority[k] = authority[c]
  <1> DEFINE I == {j \in 1..Len(pool) : Eligible(c, pool[j])}
             i == SelectInSeq(pool, LAMBDA k : Eligible(c, k))
             n == IF i = 0 THEN Len(pool) ELSE i
             L == {k \in Calls : ~isDestroy[k]}
  <1>1. i = IF I # {} THEN Min(I) ELSE 0
    BY DEF SelectInSeq
  <1>2. /\ i = 0 => I = {}
        /\ i # 0 => i \in I
    <2>1. I \subseteq Nat \ {0}
      OBVIOUS
    <2> HIDE DEF I, i
    <2> QED
      BY <1>1, <2>1, FirstOf
  <1>3. /\ pool' = Only(SubSeq(pool, 1, n), L) \o SubSeq(pool, n + 1, Len(pool))
        /\ connection' = [connection EXCEPT ![c] = IF i = 0 THEN None ELSE pool[i]]
    BY DEF Get
  <1> HIDE DEF i
  <1>4. /\ pool \in Seq(Calls) /\ IsInjective(pool) /\ Len(pool) \in Nat
        /\ DOMAIN pool = 1..Len(pool) /\ Elems(pool) \subseteq Calls
    <2>1. pool \in Seq(Calls) /\ IsInjective(pool)
      BY DEF BaseInv, TypeOK
    <2>2. \A j \in DOMAIN pool : pool[j] \in Calls
      BY <2>1
    <2> QED
      BY <2>1, <2>2 DEF Elems
  <1>5. Alive = Elems(pool) \cap L
    BY <1>4 DEF Alive, Elems
  <1>6. n \in 0..Len(pool)
    BY <1>2, <1>4
  <1> HIDE DEF n, L
  <1>7. PICK m, Q, S, P : m = n /\ Q = pool' /\ S = L /\ P = pool
    OBVIOUS
  <1>8. /\ Q \in Seq(Calls) /\ IsInjective(Q)
        /\ Elems(Q) \subseteq Elems(pool) /\ Elems(pool) \cap S \subseteq Elems(Q)
        /\ m = Len(pool) => Elems(Q) \subseteq S
    <2>1. P \in Seq(Calls) /\ IsInjective(P) /\ m \in 0..Len(P)
      BY <1>4, <1>6, <1>7
    <2>2. Q = Leaves(P, m, S)
      BY <1>3, <1>7 DEF Leaves
    <2>3. IsLeft(Q, P, m, S)
      BY <2>1, <2>2, GetLeaves
    <2> QED
      BY <1>7, <2>3 DEF IsLeft
  <1>9. CASE i = 0
    <2>1. \A k \in Alive : authority[k] # authority[c]
      <3> SUFFICES ASSUME NEW k \in Alive, authority[k] = authority[c] PROVE FALSE
        OBVIOUS
      <3>1. PICK j \in DOMAIN pool : k = pool[j] /\ ~isDestroy[k]
        BY DEF Alive
      <3> QED
        BY <1>2, <1>4, <1>9, <3>1 DEF Eligible
    <2>2. n = Len(pool)
      BY <1>9 DEF n
    <2>3. \A k \in Elems(pool') : ~isDestroy[k]
      BY <1>7, <1>8, <2>2 DEF L
    <2>4. connection' = [connection EXCEPT ![c] = None]
      BY <1>3, <1>9
    <2> QED
      BY <1>5, <1>7, <1>8, <2>1, <2>3, <2>4
  <1>10. CASE i # 0
    <2>1. PICK k : k = pool[i]
      OBVIOUS
    <2>2. i \in DOMAIN pool /\ ~isDestroy[k] /\ authority[k] = authority[c]
      BY <1>2, <1>4, <1>10, <2>1 DEF Eligible
    <2>3. k \in Alive
      BY <2>1, <2>2 DEF Alive
    <2>4. connection' = [connection EXCEPT ![c] = k]
      BY <1>3, <1>10, <2>1
    <2> QED
      BY <1>5, <1>7, <1>8, <2>2, <2>3, <2>4
  <1> QED
    BY <1>9, <1>10

\* get looks for a connection.
LEMMA GetStep ==
  ASSUME BaseInv, NEW c \in Calls, Get(c)
  PROVE  BaseInv' /\ Moves(Worker(c), {Frame("got", None)})
  <1>1. PICK t \in Threads : t = Worker(c)
    BY ThreadFacts
  <1>2. PICK f : f = Frame("got", None)
    OBVIOUS
  <1>3. f \in FrameRec /\ f.at = "got" /\ FrameOk(f)'
    BY <1>2 DEF Frame, FrameRec, Places, FrameOk
  <1>4. At(t, "get") /\ stack[t] # <<>> /\ Head(stack[t]).at = "get" /\ Becomes(t, <<f>>)
    BY <1>1, <1>2 DEF Get, At
  <1>5. Moves(t, {f})
    BY <1>3, <1>4, BecomesOne DEF BaseInv, Moves, Alone, Below
  <1>6. Gets(t, f)
    BY <1>3, <1>4, GetsLocks DEF BaseInv, Held, Wanted
  <1>7. In(t, Fresh)
    BY <1>4, InAt DEF In, Fresh
  <1>8. UNCHANGED <<conns, socks, ends>>
    BY DEF Get
  <1>9. PICK k \in Elems(pool) \cup {None} : connection' = [connection EXCEPT ![c] = k]
    BY GetFinds DEF Alive, Elems
  <1>10. Elems(pool) \subseteq Calls
    <2>1. pool \in Seq(Calls)
      BY DEF BaseInv, TypeOK
    <2>2. \A j \in DOMAIN pool : pool[j] \in Calls
      BY <2>1
    <2> QED
      BY <2>2 DEF Elems
  <1>11. TypeRest'
    <2>1. connection' \in [Calls -> Calls \cup {None}]
      BY <1>9, <1>10, TypeParts DEF BaseInv, TypeRest
    <2>2. pool' \in Seq(Calls) /\ IsInjective(pool')
      BY GetFinds
    <2> QED
      BY <1>8, <2>1, <2>2, TypeParts DEF BaseInv, TypeRest, conns, socks, ends
  <1>12. Advances
    BY <1>8 DEF Advances, Begun, Dying, conns, socks
  <1>13. ConnInv'
    <2>1. UNCHANGED <<xWebSocket, xCallBackMap, loop>>
      BY <1>8 DEF conns, socks
    <2>2. \A j \in Calls : loop[j] = "none" =>
            xCallBackMap[j] = {} /\ j \notin Elems(pool) /\ \A d \in Calls : connection[d] # j
      BY DEF BaseInv, ConnInv
    <2>3. \A d \in Calls : connection'[d] \in {connection[d], k}
      BY <1>9 DEF BaseInv, TypeOK
    <2>4. \A j \in Calls : loop[j] = "none" => j # k
      BY <2>2, ReusePoolAssumption
    <2>5. \A j \in Calls : loop'[j] = "none" =>
            xCallBackMap'[j] = {} /\ \A d \in Calls : connection'[d] # j
      BY <2>1, <2>2, <2>3, <2>4
    <2>6. \A j \in Calls : xWebSocket'[j] => Begun(j)'
      BY <2>1 DEF BaseInv, ConnInv, Begun
    <2>7. \A j \in Calls : loop'[j] = "none" <=> loop[j] = "none"
      BY <2>1
    <2>8. Elems(pool') \subseteq Elems(pool)
      BY GetFinds
    <2> QED
      BY <1>3, <1>5, <1>7, <2>5, <2>6, <2>7, <2>8, ConnStep DEF Moves, Gains, Putting
  <1>14. BaseInv'
    BY <1>3, <1>5, <1>6, <1>11, <1>12, <1>13, BaseStep DEF Moves, Gains
  <1> QED
    BY <1>1, <1>2, <1>5, <1>14

\* A connection joins the pool: nobody else is about to put one there.
LEMMA Joins ==
  ASSUME BaseInv, NEW c \in Calls, NEW N, Gains(Worker(c), N), N = {},
         In(Worker(c), Putting), DOMAIN stack[Worker(c)] = {1},
         UNCHANGED <<connection, conns, socks, ends>>,
         NEW P \in Seq(Calls), IsInjective(P), Elems(P) \subseteq Elems(pool),
         pool' = Append(P, c)
  PROVE  BaseInv'
  <1>1. PICK t \in Threads : t = Worker(c)
    BY ThreadFacts
  <1>2. c \notin Elems(pool) /\ loop[c] # "none"
    BY DEF BaseInv, ConnInv, Putting
  <1>3. /\ pool' \in Seq(Calls) /\ IsInjective(pool') /\ Elems(pool') = Elems(P) \cup {c}
    BY <1>2, AppendCall
  <1>4. TypeRest'
    BY <1>3, TypeParts DEF BaseInv, TypeRest, conns, socks, ends
  <1>5. Advances
    BY DEF Advances, Begun, Dying, conns, socks
  <1>6. PICK s : NewFrames(t, N, s)
    BY <1>1 DEF Gains
  <1>7. ConnInv'
    <2>1. UNCHANGED <<connection, xWebSocket, xCallBackMap, loop>>
      BY DEF conns, socks
    <2>2. \A j \in Calls : xWebSocket'[j] => Begun(j)'
      BY <2>1 DEF BaseInv, ConnInv, Begun
    <2>3. \A j \in Calls : loop'[j] = "none" =>
            xCallBackMap'[j] = {} /\ j \notin Elems(pool') /\ \A d \in Calls : connection'[d] # j
      BY <1>2, <1>3, <2>1 DEF BaseInv, ConnInv
    <2>4. ASSUME NEW d \in Calls, In(Worker(d), {"start", "get", "got"})'
          PROVE  loop'[d] = "none"
      <3>1. In(Worker(d), {"start", "get", "got"})
        BY <1>6, <2>4, InStep, ThreadFacts DEF BaseInv
      <3> QED
        BY <2>1, <3>1 DEF BaseInv, ConnInv
    <2>5. ASSUME NEW d \in Calls, In(Worker(d), {"put", "add"})' PROVE FALSE
      <3>1. In(Worker(d), {"put", "add"})
        BY <1>6, <2>5, InStep, ThreadFacts DEF BaseInv
      <3>2. In(Worker(c), Tagged) /\ In(Worker(d), Tagged)
        BY <3>1 DEF In, Tagged, Putting
      <3>3. c = d
        BY <3>2, OneInTag
      <3>4. ~In(t, {"put", "add"})'
        BY <1>1, OnlyFrame DEF BaseInv
      <3> QED
        BY <1>1, <2>5, <3>3, <3>4
    <2>6. Elems(pool)' = Elems(pool')
      BY DEF Elems
    <2> QED
      BY <2>2, <2>3, <2>4, <2>5, <2>6 DEF ConnInv
  <1> QED
    BY <1>1, <1>4, <1>5, <1>7, BaseStep

\* put evicts one, and closes it or not.
LEMMA PutStep ==
  ASSUME BaseInv, NEW c \in Calls, Put(c)
  PROVE  /\ BaseInv' /\ UNCHANGED isDestroy
         /\ \E r \in cleanUp(pool) :
              \/ pool' = Append(r.rest, c) /\ Moves(Worker(c), {})
                 /\ \A places \in SUBSET Places : ~In(Worker(c), places)'
              \/ /\ pool' = r.rest
                 /\ \E f : /\ Moves(Worker(c), {f, Frame("add", c)})
                           /\ f.at = "close"
  <1>1. PICK t, s : t \in Threads /\ t = Worker(c) /\ s = stack[t]
    BY ThreadFacts
  <1>2. At(t, "put") /\ s # <<>> /\ Head(s).at = "put"
    BY <1>1 DEF Put, At
  <1>3. DOMAIN s = {1} /\ In(t, Putting)
    <2>1. DOMAIN s = {1}
      BY <1>1, <1>2, AtFacts DEF BaseInv, Alone
    <2> QED
      BY <1>1, <1>2, <2>1, InAt DEF In, Putting
  <1>4. PICK r \in cleanUp(pool) :
          IF Closing(r.evicted) = <<>>
          THEN pool' = Append(r.rest, c) /\ Return(t)
          ELSE pool' = r.rest /\ Becomes(t, Closing(r.evicted) \o <<Frame("add", c)>>)
    BY <1>1 DEF Put
  <1>5. /\ r.rest \in Seq(Calls) /\ IsInjective(r.rest) /\ Elems(r.rest) \subseteq Elems(pool)
        /\ r.evicted \in Elems(pool) \cup {None}
    BY CleanUpFacts DEF BaseInv, TypeOK
  <1>6. UNCHANGED <<connection, conns, socks, ends>>
    BY DEF Put
  <1>7. CASE Closing(r.evicted) = <<>>
    <2>1. Moves(t, {}) /\ pool' = Append(r.rest, c)
      BY <1>1, <1>2, <1>4, <1>7, Returns DEF BaseInv, Moves
    <2>2. BaseInv'
      BY <1>1, <1>3, <1>5, <1>6, <2>1, Joins DEF Moves, Gains
    <2>3. \A places \in SUBSET Places : ~In(t, places)'
      BY <1>1, <1>3, <2>1, OnlyFrame DEF BaseInv, Moves, Gains
    <2> QED
      BY <1>1, <1>6, <2>1, <2>2, <2>3 DEF conns
  <1>8. CASE Closing(r.evicted) # <<>>
    <2>1. PICK e \in Calls : e = r.evicted /\ xWebSocket[e]
      <3>1. Elems(pool) \subseteq Calls
        <4>1. pool \in Seq(Calls)
          BY DEF BaseInv, TypeOK
        <4>2. \A j \in DOMAIN pool : pool[j] \in Calls
          BY <4>1
        <4> QED
          BY <4>2 DEF Elems
      <3> QED
        BY <1>5, <1>8, <3>1 DEF Closing
    <2>2. PICK f, g : f = Frame("close", e) /\ g = Frame("add", c)
      OBVIOUS
    <2>3. /\ f \in FrameRec /\ g \in FrameRec /\ f.at = "close" /\ g.at = "add"
          /\ f.on = e /\ g.on = c
      BY <2>2 DEF Frame, FrameRec, Places
    <2>4. Closing(r.evicted) = <<f>>
      BY <1>8, <2>1, <2>2 DEF Closing
    <2>5. Becomes(t, <<f>> \o <<g>>) /\ pool' = r.rest
      BY <1>4, <1>8, <2>2, <2>4
    <2>6. <<f>> \o <<g>> = <<f, g>>
      BY <2>3, TwoTogether
    <2>7. Moves(t, {f, g})
      BY <1>1, <1>2, <2>3, <2>5, <2>6, BecomesTwo DEF BaseInv, Moves, Alone
    <2>8. Advances
      BY <1>6 DEF Advances, Begun, Dying, conns, socks
    <2>9. FrameOk(f)' /\ FrameOk(g)'
      <3>1. Begun(e)
        BY <2>1 DEF BaseInv, ConnInv
      <3>2. Begun(e)'
        BY <2>8, <3>1 DEF Advances
      <3> QED
        BY <2>3, <3>2 DEF FrameOk
    <2>10. Gets(t, f) /\ Gets(t, g)
      <3>1. /\ Held(f) = {} /\ Held(g) = {TAG, Pool}
            /\ Held(Head(s)) = {TAG} /\ Wanted(Head(s)) = {Pool}
        BY <1>2, <2>3 DEF Held, Wanted
      <3> QED
        BY <1>1, <1>2, <3>1, GetsLocks DEF BaseInv
    <2>11. ConnInv'
      <3>1. UNCHANGED <<connection, xWebSocket, xCallBackMap, loop>>
        BY <1>6 DEF conns, socks
      <3>2. /\ \A j \in Calls : loop'[j] = "none" =>
                 xCallBackMap'[j] = {} /\ \A d \in Calls : connection'[d] # j
            /\ \A j \in Calls : loop'[j] = "none" <=> loop[j] = "none"
            /\ \A j \in Calls : xWebSocket'[j] => Begun(j)'
        BY <3>1 DEF BaseInv, ConnInv, Begun
      <3> QED
        BY <1>1, <1>3, <1>5, <2>3, <2>5, <2>7, <3>2, ConnStep DEF Moves, Gains, Fresh
    <2>12. TypeRest'
      BY <1>5, <1>6, <2>5, TypeParts DEF BaseInv, TypeRest, conns, socks, ends
    <2>13. BaseInv'
      BY <1>1, <2>7, <2>8, <2>9, <2>10, <2>11, <2>12, BaseStep DEF Moves, Gains
    <2> QED
      BY <1>1, <1>6, <2>2, <2>3, <2>5, <2>7, <2>13 DEF conns
  <1> QED
    BY <1>7, <1>8

\* The rest of put.
LEMMA AddStep ==
  ASSUME BaseInv, NEW c \in Calls, Add(c)
  PROVE  /\ BaseInv' /\ UNCHANGED isDestroy /\ pool' = Append(pool, c)
         /\ Moves(Worker(c), {}) /\ \A places \in SUBSET Places : ~In(Worker(c), places)'
  <1>1. PICK t, s : t \in Threads /\ t = Worker(c) /\ s = stack[t]
    BY ThreadFacts
  <1>2. At(t, "add") /\ s # <<>> /\ Head(s).at = "add"
    BY <1>1 DEF Add, At
  <1>3. s \in Seq(FrameRec) /\ Shape(s)
    BY <1>1, StackType DEF BaseInv, StackInv
  <1>4. DOMAIN s = {1} /\ In(t, Putting)
    <2>1. Head(s) = s[1] /\ 1 \in DOMAIN s /\ DOMAIN s = 1..Len(s)
      BY <1>2, <1>3
    <2>2. Len(s) = 1
      BY <1>2, <1>3, <2>1 DEF Shape, Bottom
    <2>3. DOMAIN s = {1}
      BY <2>1, <2>2
    <2> QED
      BY <1>1, <1>2, <2>3, InAt DEF In, Putting
  <1>5. Moves(t, {}) /\ pool' = Append(pool, c)
    BY <1>1, <1>2, Returns DEF BaseInv, Moves, Add
  <1>6. UNCHANGED <<connection, conns, socks, ends>>
    BY DEF Add
  <1>7. BaseInv'
    <2>1. PICK P : P = pool
      OBVIOUS
    <2>2. P \in Seq(Calls) /\ IsInjective(P) /\ Elems(P) \subseteq Elems(pool)
      BY <2>1 DEF BaseInv, TypeOK
    <2> QED
      BY <1>1, <1>4, <1>5, <1>6, <2>1, <2>2, Joins DEF Moves, Gains
  <1>8. \A places \in SUBSET Places : ~In(t, places)'
    BY <1>1, <1>4, <1>5, OnlyFrame DEF BaseInv, Moves, Gains
  <1> QED
    BY <1>1, <1>5, <1>6, <1>7, <1>8 DEF conns

-----------------------------------------------------------------------------
(* Steps of nobody's frames, and of the loop thread.                         *)

\* A step that leaves the frames and the pool alone.
LEMMA StayStep ==
  ASSUME BaseInv, UNCHANGED <<stack, pool, connection>>, Advances, TypeRest',
         \A k \in Calls : xCallBackMap'[k] \subseteq xCallBackMap[k],
         \A k \in Calls : xWebSocket'[k] => xWebSocket[k],
         \A k \in Calls : loop'[k] = "none" <=> loop[k] = "none"
  PROVE  BaseInv'
  <1>1. stack' \in [Threads -> Seq(FrameRec)] /\ StackInv' /\ LockInv'
    BY StacksStay DEF BaseInv
  <1>2. TypeOK'
    BY <1>1 DEF TypeOK, TypeRest, FrameRec
  <1>3. ConnInv'
    <2>1. \A k \in Calls : xWebSocket'[k] => Begun(k)'
      BY DEF BaseInv, ConnInv, Advances
    <2>2. Elems(pool)' = Elems(pool) /\ \A t, places : In(t, places)' <=> In(t, places)
      BY DEF Elems, In
    <2> QED
      BY <2>1, <2>2 DEF BaseInv, ConnInv
  <1> QED
    BY <1>1, <1>2, <1>3 DEF BaseInv

\* A call is cancelled.
LEMMA CancelStep ==
  ASSUME BaseInv, NEW c \in Calls, Cancel(c)
  PROVE  BaseInv'
  <1>1. PICK k : xCallBackMap' = [xCallBackMap EXCEPT ![k] = @ \ {c}]
    BY DEF Cancel
  <1>2. /\ xCallBackMap' \in [Calls -> SUBSET Calls]
        /\ \A j \in Calls : xCallBackMap'[j] \subseteq xCallBackMap[j]
    BY <1>1, TypeParts DEF BaseInv, TypeRest
  <1>3. TypeRest'
    BY <1>2, TypeParts DEF BaseInv, TypeRest, Cancel, socks
  <1>4. UNCHANGED <<stack, pool, connection, xWebSocket, isDestroy, loop, shut, inactive>>
    BY DEF Cancel, socks
  <1>5. Advances
    BY <1>4 DEF Advances, Begun, Dying
  <1> QED
    BY <1>2, <1>3, <1>4, <1>5, StayStep

\* A response.
LEMMA MessageStep ==
  ASSUME BaseInv, NEW k \in Calls, Message(k)
  PROVE  BaseInv'
  <1>1. PICK c \in Calls :
          /\ sent' = [sent EXCEPT ![k] = @ \ {c}]
          /\ answered' = answered \cup ({c} \cap xCallBackMap[k])
          /\ xCallBackMap' = [xCallBackMap EXCEPT ![k] = @ \ {c}]
    <2>1. sent[k] \subseteq Calls
      BY DEF BaseInv, TypeOK
    <2> QED
      BY <2>1 DEF Message
  <1>2. /\ xCallBackMap' \in [Calls -> SUBSET Calls] /\ sent' \in [Calls -> SUBSET Calls]
        /\ \A j \in Calls : xCallBackMap'[j] \subseteq xCallBackMap[j]
    BY <1>1, TypeParts DEF BaseInv, TypeRest
  <1>3. responded' \in Seq(Calls)
    <2>1. responded' = Append(Delete(responded, k), k)
      BY DEF Message
    <2>2. Delete(responded, k) \in Seq(Calls)
      BY DeleteFacts DEF BaseInv, TypeOK
    <2> QED
      BY <2>1, <2>2
  <1>4. answered' \in SUBSET Calls
    BY <1>1 DEF BaseInv, TypeOK
  <1>5. UNCHANGED <<stack, pool, connection, xWebSocket, isDestroy, messageQueue, queued, loop,
                    closeQueued, shut, inactive, isCallback, canceled, thrown>>
    BY DEF Message
  <1>6. TypeRest'
    BY <1>2, <1>3, <1>4, <1>5, TypeParts DEF BaseInv, TypeRest
  <1>7. Advances
    BY <1>5 DEF Advances, Begun, Dying
  <1> QED
    BY <1>2, <1>5, <1>6, <1>7, StayStep

\* The frames of t are new, but none of them is of execute.
Own == Fresh \cup Putting \cup {"cancel"}
Works(t) == \E N : Moves(t, N) /\ \A f \in N : f.at \notin Own

\* Such a step of a thread that is not in the block on TAG.
LEMMA WorksStep ==
  ASSUME BaseInv, NEW t \in Threads, NEW N, Moves(t, N), Quiet, TypeRest',
         \A f \in N : FrameOk(f)' /\ Gets(t, f) /\ f.at \notin Own
  PROVE  BaseInv' /\ Works(t)
  BY QuietStep DEF Works, Moves, Gains, Own

\* A frame of a connection.
LEMMA FrameOf ==
  ASSUME NEW k \in Calls, NEW p \in Places
  PROVE  Frame(p, k) \in FrameRec /\ Frame(p, k).at = p /\ Frame(p, k).on = k
  BY DEF Frame, FrameRec

\* A frame of a connection that was made.
LEMMA FrameGoes ==
  ASSUME NEW k \in Calls, Begun(k), UNCHANGED loop, NEW f, f.on = k,
         f.at \notin {"told", "release"}
  PROVE  FrameOk(f)'
  BY DEF FrameOk, Begun

\* Which methods are called with the frames of the web socket's own threads.
LEMMA SocketPlaces ==
  /\ {"drain", "release", "told", "native", "refused", "error", "serve", "destroy", "close",
      "net"} \subseteq Places \ Own
  BY DEF Places, Own, Fresh, Putting

\* A thread of the web socket begins, with a lock that is free.
LEMMA BeginsStep ==
  ASSUME BaseInv, NEW k \in Calls, NEW t \in Threads, stack[t] = <<>>, NEW f,
         NEW p \in {"native", "refused", "error", "destroy"}, f = Frame(p, k),
         stack' = [stack EXCEPT ![t] = <<f>>], Begun(k), Quiet, TypeRest',
         \A l \in Held(f) : Free(t, l)
  PROVE  BaseInv' /\ Works(t)
  <1>1. f \in FrameRec /\ f.at = p /\ f.on = k /\ p \notin Own
    BY FrameOf, SocketPlaces
  <1>2. Moves(t, {f})
    BY <1>1, Starts DEF Moves
  <1>3. FrameOk(f)'
    BY <1>1, FrameGoes DEF Quiet
  <1>4. Gets(t, f)
    BY FreeMeans DEF Gets
  <1> QED
    BY <1>1, <1>2, <1>3, <1>4, WorksStep

\* A method of its threads returns.
LEMMA ReturnsStep ==
  ASSUME BaseInv, NEW t \in Threads, stack[t] # <<>>, Return(t), Quiet, TypeRest'
  PROVE  BaseInv' /\ Works(t)
  <1>1. Moves(t, {})
    BY Returns DEF BaseInv, Moves
  <1> QED
    BY <1>1, WorksStep

-----------------------------------------------------------------------------
(* The writer.                                                               *)

\* The writer takes a message, or drops them all.
LEMMA TakeMessageStep ==
  ASSUME BaseInv, NEW k \in Calls, TakeMessage(k)
  PROVE  BaseInv' /\ (UNCHANGED stack \/ Works(Writer(k)))
  <1>1. PICK t \in Threads : t = Writer(k)
    BY ThreadFacts
  <1>2. TypeRest'
    <2>1. queued' \in [Calls -> SUBSET Calls]
      BY TypeParts DEF BaseInv, TypeRest, TakeMessage
    <2> QED
      BY <2>1, TypeParts DEF BaseInv, TypeRest, TakeMessage, conns, ends
  <1>3. Quiet
    BY DEF TakeMessage, Quiet, conns
  <1>4. CASE UNCHANGED stack
    <2>1. Advances
      BY <1>3 DEF Quiet, Advances, Begun, Dying
    <2> QED
      BY <1>2, <1>3, <1>4, <2>1, StayStep DEF Quiet
  <1>5. CASE Usable(k) /\ stack' = [stack EXCEPT ![t] = <<Frame("native", k)>>]
    <2>1. PICK f : f = Frame("native", k)
      OBVIOUS
    <2>2. Held(f) = {Sock(k)}
      BY <2>1 DEF Held, Frame
    <2>3. stack[t] = <<>> /\ Free(t, Sock(k)) /\ Begun(k)
      BY <1>1, <1>5 DEF TakeMessage, Usable, Begun
    <2> QED
      BY <1>1, <1>2, <1>3, <1>5, <2>1, <2>2, <2>3, BeginsStep
  <1> QED
    BY <1>1, <1>4, <1>5 DEF TakeMessage

\* A method of a thread of the web socket runs in one of its frames.
LEMMA OnTop ==
  ASSUME BaseInv, NEW t \in Threads, stack[t] # <<>>, NEW p, Head(stack[t]).at = p,
         p \notin {"start", "get", "got", "put", "add", "cancel"}
  PROVE  /\ On(t) \in Calls /\ Begun(On(t)) /\ Head(stack[t]).on = On(t)
         /\ \A l \in Held(Head(stack[t])) : Holds(t, l)
  BY AtFacts DEF BaseInv, FrameOk, On

\* The native side takes it.
LEMMA HandOverStep ==
  ASSUME BaseInv, NEW t \in Threads, HandOver(t)
  PROVE  BaseInv' /\ Works(t)
  <1>1. PICK k : k = On(t)
    OBVIOUS
  <1>2. TypeRest'
    <2>1. k \in Calls /\ queued[k] \subseteq Calls
      BY <1>1, OnTop DEF BaseInv, TypeOK, HandOver, At
    <2>2. PICK c \in Calls : /\ queued' = [queued EXCEPT ![k] = @ \ {c}]
                             /\ sent' = sent \/ sent' = [sent EXCEPT ![k] = @ \cup {c}]
      BY <1>1, <2>1 DEF HandOver
    <2>3. queued \in [Calls -> SUBSET Calls] /\ sent \in [Calls -> SUBSET Calls]
      BY DEF BaseInv, TypeOK
    <2>4. queued' \in [Calls -> SUBSET Calls]
      BY <2>2, <2>3
    <2>5. sent' \in [Calls -> SUBSET Calls]
      BY <2>2, <2>3
    <2> QED
      BY <2>4, <2>5, TypeParts DEF BaseInv, TypeRest, HandOver, conns, ends
  <1>3. Quiet
    BY DEF HandOver, Quiet, conns
  <1>4. stack[t] # <<>> /\ Return(t)
    BY DEF HandOver, At
  <1> QED
    BY <1>2, <1>3, <1>4, ReturnsStep

\* It does not, and the listener is told.
LEMMA SendFailsStep ==
  ASSUME BaseInv, NEW t \in Threads, SendFails(t)
  PROVE  BaseInv' /\ Works(t)
  <1>1. PICK k, s : k = On(t) /\ s = stack[t]
    OBVIOUS
  <1>2. s # <<>> /\ Head(s).at = "native" /\ inactive[k]
    BY <1>1 DEF SendFails
  <1>3. k \in Calls /\ Begun(k) /\ Head(s).on = k /\ \A l \in Held(Head(s)) : Holds(t, l)
    BY <1>1, <1>2, OnTop
  <1>4. TypeRest'
    <2>1. queued[k] \subseteq Calls
      BY <1>3 DEF BaseInv, TypeOK
    <2>2. PICK c \in Calls : queued' = [queued EXCEPT ![k] = @ \ {c}]
      BY <1>1, <2>1 DEF SendFails
    <2>3. queued' \in [Calls -> SUBSET Calls]
      BY <2>2, TypeParts DEF BaseInv, TypeRest
    <2> QED
      BY <2>3, TypeParts DEF BaseInv, TypeRest, SendFails, conns, ends
  <1>5. Quiet
    BY DEF SendFails, Quiet, conns
  <1>6. PICK f, g : f = Frame("release", k) /\ g = Frame("told", k)
    OBVIOUS
  <1>7. /\ f \in FrameRec /\ f.at = "release" /\ f.on = k
        /\ g \in FrameRec /\ g.at = "told" /\ g.on = k
        /\ f.at \notin Own /\ g.at \notin Own
    BY <1>3, <1>6, FrameOf, SocketPlaces
  <1>8. Moves(t, {f, g})
    <2>1. Becomes(t, <<f, g>>)
      BY <1>1, <1>6 DEF SendFails
    <2> QED
      BY <1>1, <1>2, <1>6, <1>7, <2>1, BecomesTwo DEF BaseInv, Moves, Alone
  <1>9. FrameOk(f)' /\ FrameOk(g)'
    BY <1>2, <1>3, <1>5, <1>7 DEF FrameOk, Quiet, Begun, Dying
  <1>10. Gets(t, f) /\ Gets(t, g)
    <2>1. Held(f) = {} /\ Held(g) = {Sock(k)} /\ Held(Head(s)) = {Sock(k)}
      BY <1>2, <1>3, <1>7 DEF Held
    <2> QED
      BY <1>3, <2>1 DEF Gets
  <1> QED
    BY <1>4, <1>5, <1>7, <1>8, <1>9, <1>10, WorksStep

\* The writer serves the close frame.
LEMMA ServeCloseStep ==
  ASSUME BaseInv, NEW k \in Calls, ServeClose(k)
  PROVE  BaseInv'
  <1>1. /\ shut' = [shut EXCEPT ![k] = TRUE] /\ queued' = [queued EXCEPT ![k] = {}]
        /\ UNCHANGED <<stack, pool, connection, conns, sent, loop, closeQueued, inactive,
                       isCallback, ends>>
    BY DEF ServeClose
  <1>2. TypeRest'
    BY <1>1, TypeParts DEF BaseInv, TypeRest, conns, ends
  <1>3. Advances
    BY <1>1, TypeParts DEF BaseInv, TypeRest, Advances, Begun, Dying, conns
  <1> QED
    BY <1>1, <1>2, <1>3, StayStep DEF conns

\* The ping task closes, in its block on TAG.
LEMMA NetworkChangesStep ==
  ASSUME BaseInv, NEW k \in Calls, NetworkChanges(k)
  PROVE  BaseInv' /\ Works(Writer(k))
  <1>1. PICK t \in Threads : t = Writer(k)
    BY ThreadFacts
  <1>2. PICK f, g : f = Frame("close", k) /\ g = Frame("net", k)
    OBVIOUS
  <1>3. /\ f \in FrameRec /\ f.at = "close" /\ f.on = k
        /\ g \in FrameRec /\ g.at = "net" /\ g.on = k
        /\ f.at \notin Own /\ g.at \notin Own
    BY <1>2, FrameOf, SocketPlaces
  <1>4. Quiet /\ TypeRest'
    BY TypeParts DEF BaseInv, NetworkChanges, Quiet, TypeRest, conns, socks, ends
  <1>5. /\ stack[t] = <<>> /\ Begun(k) /\ Free(t, SockTAG)
        /\ stack' = [stack EXCEPT ![t] = <<f, g>>]
    BY <1>1, <1>2 DEF NetworkChanges, Usable, Begun
  <1>6. Moves(t, {f, g})
    BY <1>3, <1>5, StartsTwo DEF Moves
  <1>7. FrameOk(f)' /\ FrameOk(g)'
    BY <1>3, <1>4, <1>5, FrameGoes DEF Quiet
  <1>8. Gets(t, f) /\ Gets(t, g)
    <2>1. Held(f) = {} /\ Held(g) = {SockTAG}
      BY <1>3 DEF Held
    <2> QED
      BY <1>5, <2>1, FreeMeans DEF Gets
  <1> QED
    BY <1>1, <1>3, <1>4, <1>6, <1>7, <1>8, WorksStep

LEMMA NetworkToldStep ==
  ASSUME BaseInv, NEW t \in Threads, NetworkTold(t)
  PROVE  BaseInv' /\ Works(t)
  <1>1. TypeRest'
    <2>1. isCallback' \in [Calls -> BOOLEAN]
      BY TypeParts DEF BaseInv, TypeRest, NetworkTold
    <2> QED
      BY <2>1, TypeParts DEF BaseInv, TypeRest, NetworkTold, conns, ends
  <1>2. Quiet
    BY DEF NetworkTold, Quiet, conns
  <1>3. stack[t] # <<>> /\ Return(t)
    BY DEF NetworkTold, At
  <1> QED
    BY <1>1, <1>2, <1>3, ReturnsStep

-----------------------------------------------------------------------------
(* The loop thread.                                                          *)

\* The engine refuses a request.
LEMMA RefuseStep ==
  ASSUME BaseInv, NEW k \in Calls, Refuse(k)
  PROVE  BaseInv' /\ Works(Loop(k))
  <1>1. PICK t, f : t \in Threads /\ t = Loop(k) /\ f = Frame("refused", k)
    BY ThreadFacts
  <1>2. /\ stack[t] = <<>> /\ Begun(k) /\ Free(t, Mutex) /\ stack' = [stack EXCEPT ![t] = <<f>>]
        /\ inactive' = [inactive EXCEPT ![k] = TRUE] /\ sent' = [sent EXCEPT ![k] = {}]
        /\ UNCHANGED <<pool, connection, conns, queued, loop, closeQueued, shut, isCallback,
                       ends>>
    BY <1>1 DEF Refuse, Runs, Idle, Begun
  <1>3. TypeRest'
    BY <1>2, TypeParts DEF BaseInv, TypeRest, conns, ends
  <1>4. Quiet
    BY <1>2, TypeParts DEF BaseInv, TypeRest, Quiet, conns
  <1>5. Held(f) = {Mutex}
    BY <1>1 DEF Held, Frame
  <1> QED
    BY <1>1, <1>2, <1>3, <1>4, <1>5, BeginsStep

\* callBackData is told.
LEMMA RefusedStep ==
  ASSUME BaseInv, NEW t \in Threads, Refused(t)
  PROVE  BaseInv' /\ Works(t)
  <1>1. PICK k, s : k = On(t) /\ s = stack[t]
    OBVIOUS
  <1>2. At(t, "refused") /\ s # <<>> /\ Head(s).at = "refused"
    BY <1>1 DEF Refused, At
  <1>3. k \in Calls /\ Begun(k) /\ Head(s).on = k
    BY <1>1, <1>2, OnTop
  <1>4. Quiet /\ TypeRest'
    BY TypeParts DEF BaseInv, Refused, Quiet, TypeRest, conns, socks, ends
  <1>5. PICK f, g : f = Frame("error", k) /\ g = Frame("serve", k)
    OBVIOUS
  <1>6. /\ f \in FrameRec /\ f.at = "error" /\ f.on = k
        /\ g \in FrameRec /\ g.at = "serve" /\ g.on = k
        /\ f.at \notin Own /\ g.at \notin Own
    BY <1>3, <1>5, FrameOf, SocketPlaces
  <1>7. CASE Return(t)
    BY <1>1, <1>2, <1>4, <1>7, ReturnsStep
  <1>8. CASE Becomes(t, <<f, g>>)
    <2>1. Moves(t, {f, g})
      BY <1>1, <1>2, <1>6, <1>8, BecomesTwo DEF BaseInv, Moves, Alone
    <2>2. FrameOk(f)' /\ FrameOk(g)'
      BY <1>3, <1>4, <1>6, FrameGoes DEF Quiet
    <2>3. Gets(t, f) /\ Gets(t, g)
      <3>1. /\ Held(f) = {Sock(k)} /\ Held(g) = {Mutex}
            /\ Held(Head(s)) = {Mutex} /\ Wanted(Head(s)) = {Sock(k)}
        BY <1>2, <1>3, <1>6 DEF Held, Wanted
      <3> QED
        BY <1>1, <1>2, <3>1, GetsLocks DEF BaseInv
    <2> QED
      BY <1>4, <1>6, <2>1, <2>2, <2>3, WorksStep
  <1> QED
    BY <1>1, <1>5, <1>7, <1>8 DEF Refused

\* The socket reports an error.
LEMMA SocketFailsStep ==
  ASSUME BaseInv, NEW k \in Calls, SocketFails(k)
  PROVE  BaseInv' /\ Works(Loop(k))
  <1>1. PICK t, f : t \in Threads /\ t = Loop(k) /\ f = Frame("error", k)
    BY ThreadFacts
  <1>2. /\ stack[t] = <<>> /\ Begun(k) /\ Free(t, Sock(k))
        /\ stack' = [stack EXCEPT ![t] = <<f>>]
    BY <1>1 DEF SocketFails, Runs, Idle, Begun
  <1>3. Quiet /\ TypeRest'
    BY TypeParts DEF BaseInv, SocketFails, Quiet, TypeRest, conns, socks, ends
  <1>4. Held(f) = {Sock(k)}
    BY <1>1 DEF Held, Frame
  <1> QED
    BY <1>1, <1>2, <1>3, <1>4, BeginsStep

\* It is closed for it.
LEMMA ErrorStep ==
  ASSUME BaseInv, NEW t \in Threads, Error(t)
  PROVE  BaseInv' /\ Works(t)
  <1>1. TypeRest'
    <2>1. PICK k : k = On(t)
      OBVIOUS
    <2>2. PICK b \in BOOLEAN : closeQueued' = [closeQueued EXCEPT ![k] = b]
      <3>1. k \in Calls
        BY <2>1, OnTop DEF Error, At
      <3> QED
        BY <2>1, <3>1, TypeParts DEF BaseInv, TypeRest, Error
    <2>3. isCallback' = [isCallback EXCEPT ![k] = TRUE]
      BY <2>1 DEF Error
    <2>4. closeQueued' \in [Calls -> BOOLEAN] /\ isCallback' \in [Calls -> BOOLEAN]
      BY <2>2, <2>3, TypeParts DEF BaseInv, TypeRest
    <2> QED
      BY <2>4, TypeParts DEF BaseInv, TypeRest, Error, conns, ends
  <1>2. Quiet
    BY DEF Error, Quiet, conns
  <1>3. stack[t] # <<>> /\ Return(t)
    BY DEF Error, At
  <1> QED
    BY <1>1, <1>2, <1>3, ReturnsStep

\* DESTROY.
LEMMA DestroyStep ==
  ASSUME BaseInv, NEW k \in Calls, Destroy(k)
  PROVE  BaseInv' /\ Works(Loop(k))
  <1>1. PICK t, f : t \in Threads /\ t = Loop(k) /\ f = Frame("destroy", k)
    BY ThreadFacts
  <1>2. /\ stack[t] = <<>> /\ Begun(k) /\ Free(t, Mutex) /\ stack' = [stack EXCEPT ![t] = <<f>>]
    BY <1>1 DEF Destroy, Runs, Idle, Begun
  <1>3. Quiet /\ TypeRest'
    BY TypeParts DEF BaseInv, Destroy, Quiet, TypeRest, conns, socks, ends
  <1>4. Held(f) = {Mutex}
    BY <1>1 DEF Held, Frame
  <1> QED
    BY <1>1, <1>2, <1>3, <1>4, BeginsStep

\* connect comes to its end.
LEMMA DownFacts ==
  ASSUME BaseInv, NEW k \in Calls, Begun(k), Down(k),
         \A j \in Calls : (isDestroy[j] => isDestroy'[j]) /\ (shut[j] => shut'[j])
                          /\ (inactive[j] => inactive'[j])
  PROVE  /\ loop' \in [Calls -> {"none", "connecting", "open", "down", "ended"}]
         /\ sent' \in [Calls -> SUBSET Calls]
         /\ loop'[k] = "down" /\ \A j \in Calls : j # k => loop'[j] = loop[j]
         /\ Advances /\ \A j \in Calls : loop'[j] = "none" <=> loop[j] = "none"
  <1>1. loop' = [loop EXCEPT ![k] = "down"] /\ sent' = [sent EXCEPT ![k] = {}]
    BY DEF Down
  <1>2. /\ loop' \in [Calls -> {"none", "connecting", "open", "down", "ended"}]
        /\ sent' \in [Calls -> SUBSET Calls]
        /\ loop'[k] = "down" /\ \A j \in Calls : j # k => loop'[j] = loop[j]
    BY <1>1, TypeParts DEF BaseInv, TypeRest
  <1> QED
    BY <1>2 DEF Advances, Begun, Dying

\* It does after the last upcall ...
LEMMA DestroyedStep ==
  ASSUME BaseInv, NEW t \in Threads, Destroyed(t)
  PROVE  BaseInv' /\ Works(t)
  <1>1. PICK k : k = On(t)
    OBVIOUS
  <1>2. /\ stack[t] # <<>> /\ Head(stack[t]).at = "destroy" /\ Return(t) /\ Down(k)
        /\ closeQueued' = [closeQueued EXCEPT ![k] = @ \/ ~shut[k]]
        /\ UNCHANGED <<pool, connection, conns, queued, shut, inactive, isCallback, ends>>
    BY <1>1 DEF Destroyed, At
  <1>3. k \in Calls /\ Begun(k)
    BY <1>1, <1>2, OnTop
  <1>4. /\ loop' \in [Calls -> {"none", "connecting", "open", "down", "ended"}]
        /\ sent' \in [Calls -> SUBSET Calls]
        /\ Advances /\ \A j \in Calls : loop'[j] = "none" <=> loop[j] = "none"
    BY <1>2, <1>3, DownFacts DEF conns
  <1>5. TypeRest'
    <2>1. closeQueued' \in [Calls -> BOOLEAN]
      <3>1. PICK b \in BOOLEAN : closeQueued' = [closeQueued EXCEPT ![k] = b]
        BY <1>2, <1>3, TypeParts DEF BaseInv, TypeRest
      <3> QED
        BY <3>1, TypeParts DEF BaseInv, TypeRest
    <2> QED
      BY <1>2, <1>4, <2>1, TypeParts DEF BaseInv, TypeRest, conns, ends
  <1>6. Moves(t, {})
    BY <1>2, Returns DEF BaseInv, Moves
  <1>7. ConnInv'
    <2>1. /\ \A j \in Calls : xWebSocket'[j] => Begun(j)'
          /\ \A j \in Calls : loop'[j] = "none" =>
               xCallBackMap'[j] = {} /\ \A c \in Calls : connection'[c] # j
          /\ Elems(pool') \subseteq Elems(pool)
      BY <1>2, <1>4 DEF BaseInv, ConnInv, Begun, conns
    <2> QED
      BY <1>4, <1>6, <2>1, ConnStep DEF Moves, Gains
  <1>8. BaseInv'
    BY <1>4, <1>5, <1>6, <1>7, BaseStep DEF Moves, Gains
  <1> QED
    BY <1>6, <1>8 DEF Works

\* ... or before the socket came to run.
LEMMA LoseStep ==
  ASSUME BaseInv, NEW k \in Calls, Lose(k)
  PROVE  BaseInv'
  <1>1. /\ loop[k] = "connecting" /\ Down(k)
        /\ UNCHANGED <<stack, pool, connection, conns, queued, closeQueued, shut, inactive,
                       isCallback, ends>>
    BY DEF Lose
  <1>2. /\ loop' \in [Calls -> {"none", "connecting", "open", "down", "ended"}]
        /\ sent' \in [Calls -> SUBSET Calls]
        /\ Advances /\ \A j \in Calls : loop'[j] = "none" <=> loop[j] = "none"
    BY <1>1, DownFacts DEF conns, Begun
  <1>3. TypeRest'
    BY <1>1, <1>2, TypeParts DEF BaseInv, TypeRest, conns, ends
  <1> QED
    BY <1>1, <1>2, <1>3, StayStep DEF conns

\* The next message leaves the queue of onOpen, or onOpen ends.
LEMMA DrainStep ==
  ASSUME BaseInv, NEW t \in Threads, Drain(t)
  PROVE  BaseInv' /\ (UNCHANGED stack \/ Works(t))
  <1>1. PICK k, s : k = On(t) /\ s = stack[t]
    OBVIOUS
  <1>2. s # <<>> /\ Head(s).at = "drain"
    BY <1>1 DEF Drain, At
  <1>3. k \in Calls /\ Begun(k) /\ Head(s).on = k /\ \A l \in Held(Head(s)) : Holds(t, l)
    BY <1>1, <1>2, OnTop
  <1>4. UNCHANGED <<pool, connection, xWebSocket, isDestroy, responded, xCallBackMap, sent, loop,
                    closeQueued, shut, inactive, isCallback, ends>>
    BY DEF Drain
  <1>5. PICK f, g, h : /\ f = Frame("release", k) /\ g = Frame("told", k)
                       /\ h = Frame("drain", k)
    OBVIOUS
  <1>6. \/ Return(t) /\ UNCHANGED <<queued, messageQueue>>
        \/ /\ messageQueue[k] # <<>>
           /\ messageQueue' = [messageQueue EXCEPT ![k] = Tail(@)]
           /\ \/ /\ queued' = [queued EXCEPT ![k] = @ \cup {Head(messageQueue[k])}]
                 /\ UNCHANGED stack
              \/ ~Usable(k) /\ Becomes(t, <<f, g, h>>) /\ UNCHANGED queued
    BY <1>1, <1>5 DEF Drain
  <1>7. queued' \in [Calls -> SUBSET Calls] /\ messageQueue' \in [Calls -> Seq(Calls)]
    <2>1. queued \in [Calls -> SUBSET Calls] /\ messageQueue \in [Calls -> Seq(Calls)]
      BY DEF BaseInv, TypeOK
    <2>2. CASE /\ messageQueue[k] # <<>>
               /\ messageQueue' = [messageQueue EXCEPT ![k] = Tail(@)]
               /\ \/ queued' = [queued EXCEPT ![k] = @ \cup {Head(messageQueue[k])}]
                  \/ UNCHANGED queued
      <3>1. PICK q \in Seq(Calls) : q = messageQueue[k] /\ q # <<>>
        BY <1>3, <2>1, <2>2
      <3>2. Head(q) \in Calls /\ Tail(q) \in Seq(Calls)
        BY <3>1
      <3>3. PICK c \in Calls, r \in Seq(Calls) : c = Head(q) /\ r = Tail(q)
        BY <3>2
      <3>7. Head(messageQueue[k]) = c /\ Tail(messageQueue[k]) = r
        BY <3>1, <3>3, Zenon
      <3>4. /\ messageQueue' = [messageQueue EXCEPT ![k] = r]
            /\ queued' = [queued EXCEPT ![k] = @ \cup {c}] \/ UNCHANGED queued
        BY <2>2, <3>7, Zenon
      <3>5. queued' \in [Calls -> SUBSET Calls]
        <4>1. CASE UNCHANGED queued
          BY <2>1, <4>1
        <4>2. CASE queued' = [queued EXCEPT ![k] = @ \cup {c}]
          BY <2>1, <4>2
        <4> QED
          BY <3>4, <4>1, <4>2
      <3>6. messageQueue' \in [Calls -> Seq(Calls)]
        BY <2>1, <3>4
      <3> QED
        BY <3>5, <3>6
    <2> QED
      BY <1>6, <2>1, <2>2
  <1>8. TypeRest'
    BY <1>4, <1>7, TypeParts DEF BaseInv, TypeRest, ends
  <1>9. Quiet
    BY <1>4 DEF Quiet
  <1>10. CASE UNCHANGED stack
    <2>1. Advances
      BY <1>4 DEF Advances, Begun, Dying
    <2> QED
      BY <1>4, <1>8, <1>10, <2>1, StayStep
  <1>11. CASE Return(t)
    BY <1>1, <1>2, <1>8, <1>9, <1>11, ReturnsStep
  <1>12. CASE ~Usable(k) /\ Becomes(t, <<f, g, h>>)
    <2>1. /\ f \in FrameRec /\ f.at = "release" /\ f.on = k
          /\ g \in FrameRec /\ g.at = "told" /\ g.on = k
          /\ h \in FrameRec /\ h.at = "drain" /\ h.on = k
          /\ \A e \in {f, g, h} : e.at \notin Own
      BY <1>3, <1>5, FrameOf, SocketPlaces
    <2>2. Moves(t, {f, g, h})
      BY <1>1, <1>2, <1>5, <1>12, <2>1, BecomesThree DEF BaseInv, Moves
    <2>3. FrameOk(f)' /\ FrameOk(g)' /\ FrameOk(h)'
      <3>1. Dying(k)
        BY <1>3, <1>12, UnusableDies
      <3>2. Begun(k)' /\ Dying(k)'
        BY <1>3, <1>4, <3>1 DEF Begun, Dying
      <3> QED
        BY <1>3, <2>1, <3>2 DEF FrameOk
    <2>4. Gets(t, f) /\ Gets(t, g) /\ Gets(t, h)
      <3>1. /\ Held(f) = {} /\ Held(g) = {Sock(k)} /\ Held(h) = {Sock(k)}
            /\ Held(Head(s)) = {Sock(k)}
        BY <1>2, <1>3, <2>1 DEF Held
      <3> QED
        BY <1>3, <3>1 DEF Gets
    <2> QED
      BY <1>8, <1>9, <2>1, <2>2, <2>3, <2>4, WorksStep
  <1> QED
    BY <1>6, <1>10, <1>11, <1>12

\* The web socket opens.
LEMMA OpenStep ==
  ASSUME BaseInv, NEW k \in Calls, Open(k)
  PROVE  BaseInv' /\ Moves(Loop(k), {Frame("drain", k)})
  <1>1. PICK t \in Threads : t = Loop(k)
    BY ThreadFacts
  <1>2. PICK f : f = Frame("drain", k)
    OBVIOUS
  <1>3. f \in FrameRec /\ f.at = "drain" /\ f.on = k
    BY <1>2, FrameOf, SocketPlaces
  <1>4. /\ loop[k] = "connecting" /\ loop' = [loop EXCEPT ![k] = "open"]
        /\ xWebSocket' = [xWebSocket EXCEPT ![k] = TRUE]
        /\ stack[t] = <<>> /\ Free(t, Sock(k)) /\ stack' = [stack EXCEPT ![t] = <<f>>]
        /\ UNCHANGED <<pool, connection, isDestroy, responded, xCallBackMap, messageQueue,
                       queued, closeQueued, shut, inactive, isCallback, ends>>
    BY <1>1, <1>2 DEF Open, Idle
  <1>5. Moves(t, {f})
    BY <1>3, <1>4, Starts DEF Moves
  <1>6. loop'[k] = "open" /\ \A j \in Calls : j # k => loop'[j] = loop[j]
    BY <1>4, TypeParts DEF BaseInv, TypeRest
  <1>7. Advances
    BY <1>4, <1>6 DEF Advances, Begun, Dying
  <1>8. FrameOk(f)' /\ Gets(t, f)
    <2>1. Held(f) = {Sock(k)}
      BY <1>3 DEF Held
    <2>2. \A u \in Threads \ {t} : ~Holds(u, Sock(k))
      BY <1>4, FreeMeans
    <2> QED
      BY <1>3, <1>6, <2>1, <2>2 DEF Gets, FrameOk, Begun
  <1>9. TypeRest'
    <2>1. PICK first \in SUBSET Calls : sent' = [sent EXCEPT ![k] = first]
      <3>1. \A first \in {{}, {k}} : first \in SUBSET Calls
        OBVIOUS
      <3> QED
        BY <3>1 DEF Open
    <2>2. /\ sent' \in [Calls -> SUBSET Calls] /\ xWebSocket' \in [Calls -> BOOLEAN]
          /\ loop' \in [Calls -> {"none", "connecting", "open", "down", "ended"}]
      BY <1>4, <2>1, TypeParts DEF BaseInv, TypeRest
    <2> QED
      BY <1>4, <2>2, TypeParts DEF BaseInv, TypeRest, ends
  <1>10. ConnInv'
    <2>1. \A j \in Calls : loop'[j] = "none" =>
            xCallBackMap'[j] = {} /\ \A d \in Calls : connection'[d] # j
      BY <1>4, <1>6 DEF BaseInv, ConnInv
    <2>2. \A j \in Calls : xWebSocket'[j] => Begun(j)'
      BY <1>4, <1>6, TypeParts DEF BaseInv, ConnInv, TypeRest, Begun
    <2>3. \A j \in Calls : loop'[j] = "none" <=> loop[j] = "none"
      BY <1>4, <1>6
    <2>4. Elems(pool') \subseteq Elems(pool)
      BY <1>4
    <2> QED
      BY <1>3, <1>5, <2>1, <2>2, <2>3, <2>4, ConnStep DEF Moves, Gains, Fresh, Putting
  <1>11. BaseInv'
    BY <1>5, <1>7, <1>8, <1>9, <1>10, BaseStep DEF Moves, Gains
  <1> QED
    BY <1>1, <1>2, <1>5, <1>11

\* The listener is told of the end.
LEMMA EndStep ==
  ASSUME BaseInv, NEW k \in Calls, End(k)
  PROVE  BaseInv' /\ Gains(Loop(k), {Frame("release", k)})
  <1>1. PICK t \in Threads : t = Loop(k)
    BY ThreadFacts
  <1>2. PICK f : f = Frame("release", k)
    OBVIOUS
  <1>3. f \in FrameRec /\ f.at = "release" /\ f.on = k
    BY <1>2 DEF Frame, FrameRec, Places
  <1>4. /\ loop[k] = "down" /\ loop' = [loop EXCEPT ![k] = "ended"]
        /\ stack' = [stack EXCEPT ![t] = <<f>>]
        /\ UNCHANGED <<pool, connection, conns, queued, sent, closeQueued, shut, inactive,
                       isCallback, ends>>
    BY <1>1, <1>2 DEF End
  <1>5. Gains(t, {f})
    BY <1>3, <1>4, BecomesAlone DEF Gains
  <1>6. loop'[k] = "ended" /\ \A j \in Calls : j # k => loop'[j] = loop[j]
    BY <1>4, TypeParts DEF BaseInv, TypeRest
  <1>7. Advances
    BY <1>4, <1>6 DEF Advances, Begun, Dying, conns
  <1>8. FrameOk(f)' /\ Gets(t, f)
    BY <1>3, <1>6 DEF FrameOk, Begun, Dying, Gets, Held
  <1>9. TypeRest'
    <2>1. loop' \in [Calls -> {"none", "connecting", "open", "down", "ended"}]
      BY <1>4, TypeParts DEF BaseInv, TypeRest
    <2> QED
      BY <1>4, <2>1, TypeParts DEF BaseInv, TypeRest, conns, ends
  <1>10. ConnInv'
    <2>1. \A j \in Calls : loop'[j] = "none" =>
            xCallBackMap'[j] = {} /\ \A d \in Calls : connection'[d] # j
      BY <1>4, <1>6 DEF BaseInv, ConnInv, conns
    <2>2. \A j \in Calls : xWebSocket'[j] => Begun(j)'
      BY <1>4, <1>6 DEF BaseInv, ConnInv, Begun, conns
    <2>3. \A j \in Calls : loop'[j] = "none" <=> loop[j] = "none"
      BY <1>4, <1>6
    <2>4. Elems(pool') \subseteq Elems(pool)
      BY <1>4
    <2> QED
      BY <1>3, <1>5, <2>1, <2>2, <2>3, <2>4, ConnStep DEF Fresh, Putting
  <1>11. BaseInv'
    BY <1>5, <1>7, <1>8, <1>9, <1>10, BaseStep
  <1> QED
    BY <1>1, <1>2, <1>5, <1>11

-----------------------------------------------------------------------------
(* The base invariant is one of the specification.                           *)

\* A step that changes nothing.
LEMMA StutterStep ==
  ASSUME BaseInv, UNCHANGED vars
  PROVE  BaseInv'
  <1>1. UNCHANGED <<stack, pool, connection, xWebSocket, isDestroy, responded, xCallBackMap,
                    messageQueue, queued, sent, loop, closeQueued, shut, inactive, isCallback,
                    answered, canceled, thrown>>
    BY DEF vars, conns, socks, ends
  <1>2. Advances
    BY <1>1 DEF Advances, Begun, Dying
  <1>3. TypeRest'
    BY <1>1, TypeParts DEF BaseInv, TypeRest
  <1> QED
    BY <1>1, <1>2, <1>3, StayStep

\* In the beginning every worker starts.
LEMMA BaseInit ==
  ASSUME Init
  PROVE  BaseInv
  <1> DEFINE f == Frame("start", None)
  <1>1. f \in FrameRec /\ f.at = "start" /\ Held(f) = {} /\ FrameOk(f)
    BY DEF Frame, FrameRec, Places, Held, FrameOk
  <1>2. stack = [t \in Threads |-> IF t[2] = "worker" THEN <<f>> ELSE <<>>]
    BY DEF Init, Frame
  <1> HIDE DEF f
  <1>3. <<f>> \in Seq(FrameRec) /\ DOMAIN <<f>> = {1} /\ <<f>>[1] = f /\ Len(<<f>>) = 1
    BY <1>1
  <1>4. \A t \in Threads : stack[t] \in Seq(FrameRec) /\ (stack[t] = <<>> \/ stack[t] = <<f>>)
    BY <1>2, <1>3
  <1>5. stack \in [Threads -> Seq(FrameRec)]
    BY <1>2, <1>3
  <1>6. \A t \in Threads : \A i \in DOMAIN stack[t] : i = 1 /\ stack[t][i] = f
    BY <1>3, <1>4
  <1>7. TypeRest
    BY DEF Init, TypeRest, IsInjective
  <1>8. TypeOK
    BY <1>5, <1>7, TypeParts
  <1>9. Shape(<<>>) /\ Shape(<<f>>)
    BY <1>1, <1>3 DEF Shape, Bottom, Dropped
  <1>10. StackInv
    BY <1>1, <1>4, <1>6, <1>9 DEF StackInv
  <1>11. LockInv
    BY <1>1, <1>6 DEF LockInv, Holds
  <1>12. ConnInv
    <2>1. Elems(pool) = {}
      BY DEF Init, Elems
    <2>2. \A t \in Threads : ~In(t, {"put", "add"})
      BY <1>1, <1>6 DEF In
    <2> QED
      BY <2>1, <2>2, ThreadFacts, ReusePoolAssumption DEF Init, ConnInv
  <1> QED
    BY <1>8, <1>10, <1>11, <1>12 DEF BaseInv

\* Every step keeps it.
LEMMA BaseNext ==
  ASSUME BaseInv, [Next]_vars
  PROVE  BaseInv'
  <1>1. CASE UNCHANGED vars
    BY <1>1, StutterStep
  <1>2. ASSUME NEW c \in Calls, Execute(c) PROVE BaseInv'
    BY <1>2, DnsFailsStep, EnterTagStep, GetStep, FoundStep, FoundBodilessStep, CreateStep,
       PutStep, AddStep, SendRefusedStep, SendStep, CacheStep, CancelThrownStep DEF Execute
  <1>3. ASSUME NEW t \in Threads, Methods(t) PROVE BaseInv'
    BY <1>3, OfferStep, CloseStep, SubmitStep, ReleaseStep, UnpoolStep, UnpooledStep,
       HandOverStep, SendFailsStep, NetworkToldStep, DrainStep, RefusedStep, ErrorStep,
       DestroyedStep DEF Methods
  <1>4. ASSUME NEW k \in Calls, WriterThread(k) PROVE BaseInv'
    BY <1>4, TakeMessageStep, ServeCloseStep, NetworkChangesStep DEF WriterThread
  <1>5. ASSUME NEW k \in Calls, LoopThread(k) PROVE BaseInv'
    BY <1>5, OpenStep, MessageStep, RefuseStep, SocketFailsStep, DestroyStep, LoseStep, EndStep
       DEF LoopThread
  <1> QED
    BY <1>1, <1>2, <1>3, <1>4, <1>5, CancelStep DEF Next

\* The frames of a thread are those of methods that call each other so, no lock
\* has two holders, and a connection nobody made is nowhere.
THEOREM BaseInvariant == Spec => []BaseInv
  <1>1. BaseInv /\ [Next]_vars => BaseInv'
    BY BaseNext
  <1> QED
    BY <1>1, BaseInit, PTL DEF Spec

\* Every variable has the values its declaration names.
THEOREM TypeCorrect == Spec => []TypeOK
  <1>1. BaseInv => TypeOK
    BY DEF BaseInv
  <1> QED
    BY <1>1, BaseInvariant, PTL

-----------------------------------------------------------------------------
(* Nobody is forgotten.                                                      *)

Entering == {"start", "get", "got", "send"}
Telling == {"release", "unpool", "unpooled"}

\* A thread that does not move.
LEMMA OthersStay ==
  ASSUME TypeOK, NEW t \in Threads, NEW N, Gains(t, N), NEW u \in Threads, u # t
  PROVE  stack'[u] = stack[u]
  BY StackType DEF Gains, NewFrames

\* A frame stays, unless it is the top one.
LEMMA InOnKept ==
  ASSUME TypeOK, StackInv, NEW t \in Threads, NEW N, Moves(t, N), NEW places, NEW k,
         places \cap Dropped = {}, InOn(t, places, k)
  PROVE  InOn(t, places, k)' \/ (Head(stack[t]).at \in places /\ On(t) = k)
  <1>1. PICK s : NewFrames(t, N, s) /\ KeepsFrames(t, N, s)
    BY DEF Moves
  <1>2. stack'[t] = s
    BY <1>1, StackType DEF NewFrames
  <1>3. PICK j \in DOMAIN stack[t] : stack[t][j].at \in places /\ stack[t][j].on = k
    BY DEF InOn
  <1>4. CASE j = 1
    <2>1. stack[t] # <<>>
      BY <1>3
    <2>2. stack[t][1] = Head(stack[t])
      BY <2>1, AtFacts
    <2> QED
      BY <1>3, <1>4, <2>2 DEF On
  <1>5. CASE j # 1
    <2>1. \E i \in DOMAIN s : s[i] = stack[t][j]
      BY <1>1, <1>3, <1>5 DEF KeepsFrames, Dropped
    <2> QED
      BY <1>2, <1>3, <2>1 DEF InOn
  <1> QED
    BY <1>4, <1>5

\* A new frame is there.
LEMMA InNew ==
  ASSUME TypeOK, NEW t \in Threads, NEW N, Moves(t, N), NEW f \in N, NEW places,
         f.at \in places
  PROVE  In(t, places)' /\ InOn(t, places, f.on)'
  <1>1. PICK s : NewFrames(t, N, s) /\ KeepsFrames(t, N, s)
    BY DEF Moves
  <1>2. stack'[t] = s
    BY <1>1, StackType DEF NewFrames
  <1>3. PICK i \in DOMAIN s : s[i] = f
    BY <1>1 DEF KeepsFrames
  <1> QED
    BY <1>2, <1>3 DEF In, InOn

\* A method that is alone is where the top frame is.
LEMMA InAlone ==
  ASSUME TypeOK, StackInv, NEW t \in Threads, stack[t] # <<>>, NEW places,
         \A p \in places : p \notin Below, In(t, places)
  PROVE  Head(stack[t]).at \in places
  BY AtFacts DEF In

\* What a step has to do with the calls.
Registered(c) == \E k \in Calls : c \in xCallBackMap[k]
Settled(c) == Worker(c) \in thrown \/ c \in answered \cup canceled \/ Registered(c)

\* A step that loses no call, and takes none out of the block before it is settled.
LEMMA CallKept ==
  ASSUME BaseInv, CallInv, NEW t \in Threads,
         \A u \in Threads : u # t => stack'[u] = stack[u],
         thrown \subseteq thrown', answered \subseteq answered', canceled \subseteq canceled',
         \A c \in Calls : Registered(c) => Settled(c)',
         \A c \in Calls : t = Worker(c) /\ In(t, Entering) => In(t, Entering)' \/ Settled(c)'
  PROVE  CallInv'
  <1> SUFFICES ASSUME NEW c \in Calls PROVE In(Worker(c), Entering)' \/ Settled(c)'
    BY DEF CallInv, Settled, Registered, Entering
  <1>1. In(Worker(c), Entering) \/ Settled(c)
    BY DEF CallInv, Settled, Registered, Entering
  <1>2. CASE Settled(c)
    BY <1>2 DEF Settled
  <1>3. CASE In(Worker(c), Entering)
    <2>1. CASE Worker(c) = t
      BY <1>3, <2>1
    <2>2. CASE Worker(c) # t
      BY <1>3, <2>2, ThreadFacts DEF In
    <2> QED
      BY <2>1, <2>2
  <1> QED
    BY <1>1, <1>2, <1>3

\* What a step has to do with the ends of connections.
LEMMA EndKept ==
  ASSUME BaseInv, EndInv, NEW t \in Threads,
         \A u \in Threads : u # t => stack'[u] = stack[u],
         thrown \subseteq thrown', \A k \in Calls : isDestroy[k] => isDestroy'[k],
         \A c \in Calls : t = Worker(c) /\ In(t, {"cancel"})' => t \in thrown',
         \A k \in Calls : loop'[k] = "ended" /\ Loop(k) \notin thrown' =>
           \/ loop[k] = "ended" /\ (xCallBackMap[k] = {} =>
                xCallBackMap'[k] = {} \/ InOn(Loop(k), Telling, k)')
           \/ InOn(Loop(k), {"release"}, k)',
         \A k \in Calls : t = Loop(k) /\ loop[k] = "ended" /\ t \notin thrown' =>
           /\ InOn(t, {"release"}, k) => InOn(t, {"release"}, k)' \/ isDestroy'[k]
           /\ InOn(t, Telling, k) => InOn(t, Telling, k)' \/ xCallBackMap'[k] = {}
  PROVE  EndInv'
  <1>1. ASSUME NEW c \in Calls, In(Worker(c), {"cancel"})' PROVE Worker(c) \in thrown'
    <2>1. CASE Worker(c) = t
      BY <1>1, <2>1
    <2>2. CASE Worker(c) # t
      <3>1. In(Worker(c), {"cancel"})
        BY <1>1, <2>2, ThreadFacts DEF In
      <3> QED
        BY <3>1 DEF EndInv
    <2> QED
      BY <2>1, <2>2
  <1>2. ASSUME NEW k \in Calls, loop'[k] = "ended", Loop(k) \notin thrown'
        PROVE  /\ isDestroy'[k] \/ InOn(Loop(k), {"release"}, k)'
               /\ xCallBackMap'[k] = {} \/ InOn(Loop(k), Telling, k)'
    <2>1. CASE InOn(Loop(k), {"release"}, k)'
      BY <2>1 DEF InOn, Telling
    <2>2. CASE loop[k] = "ended" /\ (xCallBackMap[k] = {} =>
                 xCallBackMap'[k] = {} \/ InOn(Loop(k), Telling, k)')
      <3>1. /\ isDestroy[k] \/ InOn(Loop(k), {"release"}, k)
            /\ xCallBackMap[k] = {} \/ InOn(Loop(k), Telling, k)
        BY <1>2, <2>2 DEF EndInv, Telling
      <3>2. CASE Loop(k) = t
        BY <1>2, <2>2, <3>1, <3>2
      <3>3. CASE Loop(k) # t
        <4>1. stack'[Loop(k)] = stack[Loop(k)]
          BY <3>3, ThreadFacts
        <4>2. \A places : InOn(Loop(k), places, k) => InOn(Loop(k), places, k)'
          BY <4>1 DEF InOn
        <4> QED
          BY <2>2, <3>1, <4>2
      <3> QED
        BY <3>2, <3>3
    <2> QED
      BY <1>2, <2>1, <2>2
  <1> QED
    BY <1>1, <1>2 DEF EndInv, Telling

TellInv == CallInv /\ EndInv

\* A method that has nothing to do with the calls of a connection.
LEMMA TellMoves ==
  ASSUME BaseInv, TellInv, NEW t \in Threads, NEW N, Moves(t, N),
         stack[t] = <<>> \/ Head(stack[t]).at \notin Entering \cup Telling,
         \A f \in N : f.at # "cancel",
         UNCHANGED <<xCallBackMap, isDestroy, answered, canceled, thrown>>,
         \A k \in Calls : loop'[k] = "ended" => loop[k] = "ended"
  PROVE  TellInv'
  <1>1. \A u \in Threads : u # t => stack'[u] = stack[u]
    BY OthersStay DEF BaseInv, Moves, Gains
  <1>2. ~In(t, Entering)
    <2>1. CASE stack[t] = <<>>
      BY <2>1 DEF In
    <2>2. CASE stack[t] # <<>>
      BY <2>2, InAlone DEF BaseInv, Entering, Below
    <2> QED
      BY <2>1, <2>2
  <1>3. CallInv'
    BY <1>1, <1>2, CallKept DEF TellInv, Settled, Registered
  <1>4. ~In(t, {"cancel"})' \/ In(t, {"cancel"})
    BY InStep DEF BaseInv, Moves
  <1>5. ASSUME NEW c \in Calls, t = Worker(c), In(t, {"cancel"})' PROVE t \in thrown'
    BY <1>4, <1>5 DEF TellInv, EndInv
  <1>6. ASSUME NEW k \in Calls
        PROVE  /\ InOn(t, {"release"}, k) => InOn(t, {"release"}, k)'
               /\ InOn(t, Telling, k) => InOn(t, Telling, k)'
    <2>1. CASE stack[t] = <<>>
      BY <2>1 DEF InOn
    <2>2. CASE stack[t] # <<>>
      BY <2>2, InOnKept DEF BaseInv, Telling, Dropped
    <2> QED
      BY <2>1, <2>2
  <1>7. EndInv'
    BY <1>1, <1>5, <1>6, EndKept DEF TellInv
  <1> QED
    BY <1>3, <1>7 DEF TellInv

\* A method that calls have yet to come to.
LEMMA TellEnters ==
  ASSUME BaseInv, TellInv, NEW t \in Threads, NEW c \in Calls, t = Worker(c),
         NEW N, Moves(t, N), thrown \subseteq thrown',
         \A f \in N : f.at = "cancel" => t \in thrown',
         answered \subseteq answered', UNCHANGED canceled,
         \A k \in Calls : isDestroy[k] => isDestroy'[k],
         \A d \in Calls : Registered(d) => Settled(d)',
         stack[t] # <<>>, Head(stack[t]).at \in Alone, Head(stack[t]).at # "cancel",
         (\E f \in N : f.at \in Entering) \/ Settled(c)',
         \A k \in Calls : loop'[k] = "ended" /\ Loop(k) \notin thrown' =>
           loop[k] = "ended" /\ (xCallBackMap[k] = {} =>
             xCallBackMap'[k] = {} \/ InOn(Loop(k), Telling, k))
  PROVE  TellInv'
  <1>1. \A u \in Threads : u # t => stack'[u] = stack[u]
    BY OthersStay DEF BaseInv, Moves, Gains
  <1>2. In(t, Entering)' \/ Settled(c)'
    BY InNew DEF BaseInv
  <1>3. CallInv'
    BY <1>1, <1>2, CallKept, ThreadFacts DEF TellInv
  <1>4. In(t, {"cancel"})' => t \in thrown'
    BY InStep DEF BaseInv, Moves, Below
  <1>5. \A k \in Calls : t # Loop(k)
    BY ThreadFacts
  <1>6. \A k \in Calls : InOn(Loop(k), Telling, k) => InOn(Loop(k), Telling, k)'
    BY <1>1, <1>5, ThreadFacts DEF InOn
  <1>7. EndInv'
    BY <1>1, <1>4, <1>5, <1>6, EndKept DEF TellInv
  <1> QED
    BY <1>3, <1>7 DEF TellInv

\* A step that leaves the frames alone.
LEMMA TellStays ==
  ASSUME BaseInv, TellInv, UNCHANGED <<stack, isDestroy, thrown>>,
         answered \subseteq answered', canceled \subseteq canceled',
         \A c \in Calls : Registered(c) => Settled(c)',
         \A k \in Calls : loop'[k] = "ended" => loop[k] = "ended",
         \A k \in Calls : xCallBackMap'[k] \subseteq xCallBackMap[k],
         NEW t \in Threads
  PROVE  TellInv'
  <1>1. \A u \in Threads : \A places, k : /\ In(u, places)' <=> In(u, places)
                                          /\ InOn(u, places, k)' <=> InOn(u, places, k)
    BY DEF In, InOn
  <1>2. CallInv'
    BY <1>1, CallKept DEF TellInv
  <1>3. EndInv'
    BY <1>1, EndKept DEF TellInv, EndInv
  <1> QED
    BY <1>2, <1>3 DEF TellInv

\* Those that begin, find a connection, or make one.
LEMMA TellBegins ==
  ASSUME BaseInv, TellInv, NEW c \in Calls,
         DnsFails(c) \/ EnterTag(c) \/ Get(c) \/ Found(c) \/ FoundBodiless(c)
  PROVE  TellInv'
  <1>1. PICK t \in Threads : t = Worker(c)
    BY ThreadFacts
  <1>2. stack[t] # <<>> /\ Head(stack[t]).at \in {"start", "get", "got"}
    BY <1>1 DEF DnsFails, EnterTag, Get, Found, FoundBodiless, At
  <1>3. Head(stack[t]).at \in Alone /\ Head(stack[t]).at # "cancel"
    BY <1>2 DEF Alone
  <1>4. /\ UNCHANGED <<xCallBackMap, loop, isDestroy, canceled>>
        /\ thrown \subseteq thrown' /\ answered \subseteq answered'
    BY DEF DnsFails, EnterTag, Get, Found, FoundBodiless, conns, socks, ends
  <1>5. \A d \in Calls : Registered(d) => Settled(d)'
    BY <1>4 DEF Registered, Settled
  <1>6. \E N : /\ Moves(t, N) /\ \A f \in N : f.at = "cancel" => t \in thrown'
               /\ (\E f \in N : f.at \in Entering) \/ Settled(c)'
    <2>1. CASE DnsFails(c)
      <3>1. Moves(t, {}) /\ c \in answered'
        BY <1>1, <2>1, DnsFailsStep DEF DnsFails
      <3> QED
        BY <3>1 DEF Settled
    <2>2. ASSUME NEW f, Moves(t, {f}), f.at \in Entering
          PROVE  \E N : /\ Moves(t, N) /\ \A g \in N : g.at = "cancel" => t \in thrown'
                        /\ (\E g \in N : g.at \in Entering) \/ Settled(c)'
      BY <2>2 DEF Entering
    <2>3. CASE EnterTag(c)
      <3>1. PICK f : f = Frame("get", None)
        OBVIOUS
      <3> QED
        BY <1>1, <2>2, <2>3, <3>1, EnterTagStep DEF Frame, Entering
    <2>4. CASE Get(c)
      <3>1. PICK f : f = Frame("got", None)
        OBVIOUS
      <3> QED
        BY <1>1, <2>2, <2>4, <3>1, GetStep DEF Frame, Entering
    <2>5. CASE Found(c)
      <3>1. PICK f : f = Frame("send", connection[c])
        OBVIOUS
      <3> QED
        BY <1>1, <2>2, <2>5, <3>1, FoundStep DEF Frame, Entering
    <2>6. CASE FoundBodiless(c)
      <3>1. PICK f : f = Frame("cancel", connection[c])
        OBVIOUS
      <3>2. Moves(t, {f}) /\ t \in thrown'
        BY <1>1, <2>6, <3>1, FoundBodilessStep DEF FoundBodiless
      <3> QED
        BY <1>1, <3>2 DEF Settled
    <2> QED
      BY <2>1, <2>3, <2>4, <2>5, <2>6
  <1> QED
    BY <1>1, <1>2, <1>3, <1>4, <1>5, <1>6, TellEnters

\* The connection a call makes has its callback.
LEMMA TellCreate ==
  ASSUME BaseInv, TellInv, NEW c \in Calls, Create(c)
  PROVE  TellInv'
  <1>1. PICK t \in Threads : t = Worker(c)
    BY ThreadFacts
  <1>2. stack[t] # <<>> /\ Head(stack[t]).at = "got"
    BY <1>1 DEF Create, At
  <1>3. /\ UNCHANGED <<isDestroy, answered, canceled, thrown>>
        /\ xCallBackMap' = [xCallBackMap EXCEPT ![c] = {c}]
        /\ loop' = [loop EXCEPT ![c] = "connecting"]
    BY DEF Create, ends
  <1>4. PICK f : f = Frame("put", None)
    OBVIOUS
  <1>5. Moves(t, {f}) /\ f.at = "put" /\ xCallBackMap[c] = {}
    BY <1>1, <1>4, CreateStep DEF Frame
  <1>6. /\ xCallBackMap'[c] = {c} /\ loop'[c] = "connecting"
        /\ \A k \in Calls : k # c => xCallBackMap'[k] = xCallBackMap[k] /\ loop'[k] = loop[k]
    BY <1>3 DEF BaseInv, TypeOK
  <1>7. \A d \in Calls : Registered(d) => Settled(d)'
    BY <1>5, <1>6 DEF Registered, Settled
  <1>8. Settled(c)'
    BY <1>6 DEF Registered, Settled
  <1> QED
    BY <1>1, <1>2, <1>3, <1>5, <1>6, <1>7, <1>8, TellEnters DEF Alone

\* A call that is refused has its answer, and one that sends is registered.
LEMMA TellSends ==
  ASSUME BaseInv, TellInv, NEW c \in Calls, SendRefused(c) \/ Send(c)
  PROVE  TellInv'
  <1>1. PICK t \in Threads : t = Worker(c)
    BY ThreadFacts
  <1>2. stack[t] # <<>> /\ Head(stack[t]).at = "send"
    BY <1>1 DEF SendRefused, Send, At
  <1>3. /\ UNCHANGED <<isDestroy, canceled, thrown, loop>>
        /\ answered \subseteq answered'
    BY DEF SendRefused, Send, conns, socks, ends
  <1>4. CASE SendRefused(c)
    <2>1. Moves(t, {}) /\ c \in answered' /\ UNCHANGED xCallBackMap
      BY <1>1, <1>4, SendRefusedStep DEF SendRefused, conns
    <2>2. \A d \in Calls : Registered(d) => Settled(d)'
      BY <2>1 DEF Registered, Settled
    <2>3. Settled(c)'
      BY <2>1 DEF Settled
    <2> QED
      BY <1>1, <1>2, <1>3, <2>1, <2>2, <2>3, TellEnters DEF Alone
  <1>5. CASE Send(c)
    <2>1. PICK k \in Calls : k = On(t)
      BY <1>2, AtFacts DEF BaseInv, On, FrameOk
    <2>2. xCallBackMap' = [xCallBackMap EXCEPT ![k] = @ \cup {c}] /\ ~isDestroy[k]
      BY <1>1, <1>5, <2>1 DEF Send
    <2>3. /\ xCallBackMap'[k] = xCallBackMap[k] \cup {c}
          /\ \A j \in Calls : j # k => xCallBackMap'[j] = xCallBackMap[j]
      BY <2>2 DEF BaseInv, TypeOK
    <2>4. PICK N : Moves(t, N) /\ \A f \in N : f.at \in {"offer", "sending", "cache"}
      BY <1>1, <1>5, SendStep
    <2>5. \A d \in Calls : Registered(d) => Settled(d)'
      BY <2>3 DEF Registered, Settled
    <2>6. Settled(c)'
      BY <2>3 DEF Registered, Settled
    <2>7. loop[k] = "ended" /\ Loop(k) \notin thrown => InOn(Loop(k), Telling, k)
      BY <2>2 DEF TellInv, EndInv, InOn, Telling
    <2> QED
      BY <1>1, <1>2, <1>3, <2>3, <2>4, <2>5, <2>6, <2>7, TellEnters DEF Alone
  <1> QED
    BY <1>4, <1>5

\* Methods between the registration and the answer.
LEMMA TellOn ==
  ASSUME BaseInv, TellInv, NEW t \in Threads, NEW c \in Calls,
         \/ t = Worker(c) /\ (Put(c) \/ Add(c) \/ Cache(c))
         \/ Offer(t) \/ Close(t)
  PROVE  TellInv'
  <1>1. stack[t] # <<>> /\ Head(stack[t]).at \in {"put", "add", "cache", "offer", "close"}
    BY DEF Put, Add, Cache, Offer, Close, At
  <1>2. UNCHANGED <<xCallBackMap, loop, isDestroy, answered, canceled, thrown>>
    BY DEF Put, Add, Cache, Offer, Close, conns, socks, ends
  <1>3. \E N : Moves(t, N) /\ \A f \in N : f.at # "cancel"
    <2>1. CASE t = Worker(c) /\ Put(c)
      <3>1. \/ Moves(t, {})
            \/ \E f : Moves(t, {f, Frame("add", c)}) /\ f.at = "close"
        BY <2>1, PutStep
      <3>2. CASE Moves(t, {})
        BY <3>2
      <3>3. CASE \E f : Moves(t, {f, Frame("add", c)}) /\ f.at = "close"
        <4>1. PICK f, g : g = Frame("add", c) /\ Moves(t, {f, g}) /\ f.at = "close"
          BY <3>3
        <4>2. g.at = "add"
          BY <4>1 DEF Frame
        <4> QED
          BY <4>1, <4>2
      <3> QED
        BY <3>1, <3>2, <3>3
    <2>2. CASE t = Worker(c) /\ Add(c)
      BY <2>2, AddStep
    <2>3. CASE t = Worker(c) /\ Cache(c)
      BY <2>3, CacheStep
    <2>4. CASE Offer(t)
      <3>1. PICK N : Moves(t, N) /\ \A f \in N : f.at \in {"offered", "release", "told"}
        BY <2>4, OfferStep
      <3> QED
        BY <3>1
    <2>5. CASE Close(t)
      <3>1. PICK N : Moves(t, N) /\ \A f \in N : f.at \in {"closing", "release", "told"}
        BY <2>5, CloseStep
      <3> QED
        BY <3>1
    <2> QED
      BY <2>1, <2>2, <2>3, <2>4, <2>5
  <1> QED
    BY <1>1, <1>2, <1>3, TellMoves DEF Entering, Telling

\* The catch block: its call was thrown out of execute.
LEMMA TellCancelThrown ==
  ASSUME BaseInv, TellInv, NEW c \in Calls, CancelThrown(c)
  PROVE  TellInv'
  <1>1. PICK t \in Threads : t = Worker(c)
    BY ThreadFacts
  <1>2. stack[t] # <<>> /\ Head(stack[t]).at = "cancel"
    BY <1>1 DEF CancelThrown, At
  <1>3. t \in thrown
    <2>1. In(t, {"cancel"})
      BY <1>1, InAt DEF CancelThrown
    <2> QED
      BY <1>1, <2>1 DEF TellInv, EndInv
  <1>4. UNCHANGED <<isDestroy, loop, answered, canceled, thrown>>
    BY DEF CancelThrown, socks, ends
  <1>5. /\ \A k \in Calls : xCallBackMap'[k] \subseteq xCallBackMap[k]
        /\ \A k \in Calls : \A d \in xCallBackMap[k] : d # c => d \in xCallBackMap'[k]
    <2>1. PICK k : xCallBackMap' = [xCallBackMap EXCEPT ![k] = @ \ {c}]
      BY DEF CancelThrown
    <2> QED
      BY <2>1 DEF BaseInv, TypeOK
  <1>6. Moves(t, {})
    BY <1>1, CancelThrownStep
  <1>7. \A u \in Threads : u # t => stack'[u] = stack[u]
    BY <1>6, OthersStay DEF BaseInv, Moves, Gains
  <1>8. \A d \in Calls : Registered(d) => Settled(d)'
    BY <1>1, <1>3, <1>4, <1>5 DEF Registered, Settled
  <1>9. CallInv'
    BY <1>1, <1>3, <1>4, <1>7, <1>8, CallKept DEF TellInv, Settled
  <1>10. \A k \in Calls : t # Loop(k)
    BY <1>1, ThreadFacts
  <1>11. \A k \in Calls : xCallBackMap[k] = {} => xCallBackMap'[k] = {}
    BY <1>5
  <1>12. EndInv'
    BY <1>3, <1>4, <1>7, <1>10, <1>11, EndKept DEF TellInv
  <1> QED
    BY <1>9, <1>12 DEF TellInv

\* The socket's executor takes the task, or the thread meets an exception.
LEMMA TellSubmit ==
  ASSUME BaseInv, TellInv, NEW t \in Threads, Submit(t)
  PROVE  TellInv'
  <1>1. stack[t] # <<>> /\ Head(stack[t]).at \in {"offered", "closing"}
    BY DEF Submit, At
  <1>2. UNCHANGED <<xCallBackMap, loop, isDestroy, answered, canceled>>
    BY DEF Submit, conns
  <1>3. CASE Return(t) /\ UNCHANGED thrown
    <2>1. Moves(t, {})
      BY <1>1, <1>3, Returns DEF BaseInv, Moves
    <2> QED
      BY <1>1, <1>2, <1>3, <2>1, TellMoves DEF Entering, Telling
  <1>4. CASE Throw(t)
    <2>1. thrown \subseteq thrown' /\ t \in thrown'
      BY <1>4 DEF Throw
    <2>2. \A u \in Threads : u # t => stack'[u] = stack[u]
      BY <1>4, Throws, OthersStay DEF BaseInv
    <2>3. \A d \in Calls : Registered(d) => Settled(d)'
      BY <1>2 DEF Registered, Settled
    <2>4. CallInv'
      BY <1>2, <2>1, <2>2, <2>3, CallKept DEF TellInv, Settled
    <2>5. EndInv'
      BY <1>2, <2>1, <2>2, EndKept DEF TellInv
    <2> QED
      BY <2>4, <2>5 DEF TellInv
  <1> QED
    BY <1>3, <1>4 DEF Submit

\* The connection is destroyed, by a thread that will tell its calls.
LEMMA TellRelease ==
  ASSUME BaseInv, TellInv, NEW t \in Threads, Release(t)
  PROVE  TellInv'
  <1>1. stack[t] # <<>> /\ Head(stack[t]).at = "release"
    BY DEF Release, At
  <1>2. UNCHANGED <<xCallBackMap, loop, answered, canceled, thrown>>
    BY DEF Release, socks, ends
  <1>3. PICK k \in Calls : k = On(t)
    BY <1>1, AtFacts DEF BaseInv, On, FrameOk
  <1>4. isDestroy'[k] /\ \A j \in Calls : isDestroy[j] => isDestroy'[j]
    BY <1>3 DEF BaseInv, TypeOK, Release
  <1>5. PICK f : f = Frame("unpool", k)
    OBVIOUS
  <1>6. Moves(t, {f}) /\ f.at = "unpool" /\ f.on = k
    BY <1>3, <1>5, ReleaseStep DEF Frame
  <1>7. \A u \in Threads : u # t => stack'[u] = stack[u]
    BY <1>6, OthersStay DEF BaseInv, Moves, Gains
  <1>8. CallInv'
    <2>1. ~In(t, Entering)
      BY <1>1, InAlone DEF BaseInv, Entering, Below
    <2> QED
      BY <1>2, <1>7, <2>1, CallKept DEF TellInv, Settled, Registered
  <1>9. In(t, {"cancel"})' => In(t, {"cancel"})
    BY <1>6, InStep DEF BaseInv, Moves
  <1>10. \A c \in Calls : t = Worker(c) /\ In(t, {"cancel"})' => t \in thrown'
    BY <1>2, <1>9 DEF TellInv, EndInv
  <1>11. ASSUME NEW j \in Calls
         PROVE  /\ InOn(t, {"release"}, j) => InOn(t, {"release"}, j)' \/ isDestroy'[j]
                /\ InOn(t, Telling, j) => InOn(t, Telling, j)'
    <2>1. InOn(t, {"release"}, j) => InOn(t, {"release"}, j)' \/ On(t) = j
      BY <1>6, InOnKept DEF BaseInv, Dropped
    <2>2. InOn(t, Telling, j) => InOn(t, Telling, j)' \/ On(t) = j
      BY <1>6, InOnKept DEF BaseInv, Telling, Dropped
    <2>3. InOn(t, Telling, k)'
      BY <1>6, InNew DEF BaseInv, Telling
    <2> QED
      BY <1>3, <1>4, <2>1, <2>2, <2>3
  <1>12. EndInv'
    BY <1>2, <1>4, <1>7, <1>10, <1>11, EndKept DEF TellInv
  <1> QED
    BY <1>8, <1>12 DEF TellInv

\* The calls of a connection are told, or will be when the other one is closed.
LEMMA TellUnpool ==
  ASSUME BaseInv, TellInv, NEW t \in Threads, Unpool(t) \/ Unpooled(t)
  PROVE  TellInv'
  <1>1. stack[t] # <<>> /\ Head(stack[t]).at \in {"unpool", "unpooled"}
    BY DEF Unpool, Unpooled, At
  <1>2. UNCHANGED <<loop, isDestroy, canceled, thrown>>
    BY DEF Unpool, Unpooled, socks
  <1>3. PICK k \in Calls : k = On(t)
    BY <1>1, AtFacts DEF BaseInv, On, FrameOk
  <1>4. PICK N : /\ Moves(t, N) /\ \A f \in N : f.at # "cancel"
                 /\ \/ FailCalls(k)
                    \/ /\ UNCHANGED <<answered, xCallBackMap>>
                       /\ \E g \in N : g.at = "unpooled" /\ g.on = k
    <2>1. CASE Unpool(t)
      <3>1. \/ Moves(t, {}) /\ FailCalls(k)
            \/ /\ \E f : Moves(t, {f, Frame("unpooled", k)}) /\ f.at = "close"
               /\ UNCHANGED <<answered, xCallBackMap>>
        BY <1>3, <2>1, UnpoolStep
      <3>2. CASE \E f : Moves(t, {f, Frame("unpooled", k)}) /\ f.at = "close"
        <4>1. PICK f, g : g = Frame("unpooled", k) /\ Moves(t, {f, g}) /\ f.at = "close"
          BY <3>2
        <4>2. g.at = "unpooled" /\ g.on = k
          BY <4>1 DEF Frame
        <4>3. CASE UNCHANGED <<answered, xCallBackMap>>
          BY <4>1, <4>2, <4>3
        <4>4. CASE FailCalls(k)
          BY <4>1, <4>2, <4>4
        <4> QED
          BY <3>1, <4>3, <4>4
      <3>3. CASE Moves(t, {}) /\ FailCalls(k)
        <4>1. PICK M : M = {} /\ Moves(t, M)
          BY <3>3
        <4> QED
          BY <3>3, <4>1
      <3> QED
        BY <3>1, <3>2, <3>3
    <2>2. CASE Unpooled(t)
      BY <1>3, <2>2, UnpooledStep DEF Unpooled
    <2> QED
      BY <2>1, <2>2
  <1>5. \A u \in Threads : u # t => stack'[u] = stack[u]
    BY <1>4, OthersStay DEF BaseInv, Moves, Gains
  <1>6. /\ answered \subseteq answered'
        /\ \A d \in Calls : Registered(d) => Settled(d)'
        /\ \A j \in Calls : xCallBackMap'[j] \subseteq xCallBackMap[j]
        /\ xCallBackMap'[k] = {} \/ \E g \in N : g.at = "unpooled" /\ g.on = k
    <2>1. CASE FailCalls(k)
      <3>1. /\ answered' = answered \cup xCallBackMap[k]
            /\ xCallBackMap'[k] = {} /\ \A j \in Calls : j # k => xCallBackMap'[j] = xCallBackMap[j]
        BY <2>1 DEF FailCalls, BaseInv, TypeOK
      <3> QED
        BY <3>1 DEF Registered, Settled
    <2>2. CASE /\ UNCHANGED <<answered, xCallBackMap>>
               /\ \E g \in N : g.at = "unpooled" /\ g.on = k
      BY <2>2 DEF Registered, Settled
    <2> QED
      BY <1>4, <2>1, <2>2
  <1>7. CallInv'
    <2>1. ~In(t, Entering)
      BY <1>1, InAlone DEF BaseInv, Entering, Below
    <2> QED
      BY <1>2, <1>5, <1>6, <2>1, CallKept DEF TellInv
  <1>8. In(t, {"cancel"})' => In(t, {"cancel"})
    BY <1>4, InStep DEF BaseInv, Moves
  <1>9. \A c \in Calls : t = Worker(c) /\ In(t, {"cancel"})' => t \in thrown'
    BY <1>2, <1>8 DEF TellInv, EndInv
  <1>10. ASSUME NEW j \in Calls
         PROVE  /\ InOn(t, {"release"}, j) => InOn(t, {"release"}, j)'
                /\ InOn(t, Telling, j) => InOn(t, Telling, j)' \/ xCallBackMap'[j] = {}
    <2>1. InOn(t, {"release"}, j) => InOn(t, {"release"}, j)'
      BY <1>1, <1>4, InOnKept DEF BaseInv, Dropped
    <2>2. InOn(t, Telling, j) => InOn(t, Telling, j)' \/ On(t) = j
      BY <1>4, InOnKept DEF BaseInv, Telling, Dropped
    <2>3. InOn(t, Telling, k)' \/ xCallBackMap'[k] = {}
      BY <1>4, <1>6, InNew DEF BaseInv, Telling
    <2> QED
      BY <1>3, <2>1, <2>2, <2>3
  <1>11. \A j \in Calls : xCallBackMap[j] = {} => xCallBackMap'[j] = {}
    BY <1>6
  <1>12. EndInv'
    BY <1>2, <1>5, <1>9, <1>10, <1>11, EndKept DEF TellInv
  <1> QED
    BY <1>7, <1>12 DEF TellInv

\* The listener's upcalls, and what the web socket does by itself.
LEMMA TellOpen ==
  ASSUME BaseInv, TellInv, NEW k \in Calls, Open(k) \/ End(k)
  PROVE  TellInv'
  <1>1. PICK t \in Threads : t = Loop(k)
    BY ThreadFacts
  <1>2. PICK f \in FrameRec :
           /\ stack' = [stack EXCEPT ![t] = <<f>>]
           /\ End(k) => f.at = "release" /\ f.on = k
    <2>1. \A p \in Places : Frame(p, k) \in FrameRec /\ Frame(p, k).at = p /\ Frame(p, k).on = k
      BY DEF Frame, FrameRec
    <2>2. "drain" \in Places /\ "release" \in Places
      BY DEF Places
    <2>3. CASE Open(k)
      <3>1. loop[k] = "connecting" /\ stack' = [stack EXCEPT ![t] = <<Frame("drain", k)>>]
        BY <1>1, <2>3 DEF Open
      <3> QED
        BY <2>1, <2>2, <3>1 DEF End
    <2>4. CASE End(k)
      <3>1. stack' = [stack EXCEPT ![t] = <<Frame("release", k)>>]
        BY <1>1, <2>4 DEF End
      <3> QED
        BY <2>1, <2>2, <3>1
    <2> QED
      BY <2>3, <2>4
  <1>3. stack'[t] = <<f>> /\ \A u \in Threads : u # t => stack'[u] = stack[u]
    BY <1>2, StackType DEF BaseInv
  <1>4. UNCHANGED <<xCallBackMap, isDestroy, answered, canceled, thrown>>
    BY DEF Open, End, conns, ends
  <1>5. /\ loop[k] # "ended" /\ \A j \in Calls : j # k => loop'[j] = loop[j]
        /\ loop'[k] = "ended" => End(k)
    BY DEF Open, End, BaseInv, TypeOK
  <1>6. \A j \in Calls : t # Worker(j) /\ (t = Loop(j) => j = k)
    BY <1>1, ThreadFacts
  <1>7. CallInv'
    BY <1>3, <1>4, <1>6, CallKept DEF TellInv, Settled, Registered
  <1>8. End(k) => InOn(t, {"release"}, k)'
    <2>1. 1 \in DOMAIN <<f>> /\ <<f>>[1] = f
      OBVIOUS
    <2> QED
      BY <1>2, <1>3, <2>1 DEF InOn
  <1>9. EndInv'
    BY <1>1, <1>3, <1>4, <1>5, <1>6, <1>8, EndKept DEF TellInv
  <1> QED
    BY <1>7, <1>9 DEF TellInv

\* The methods of the web socket's own threads.
LEMMA TellSocket ==
  ASSUME BaseInv, TellInv, NEW t \in Threads,
         \/ HandOver(t) \/ SendFails(t) \/ NetworkTold(t)
         \/ Drain(t) \/ Refused(t) \/ Error(t) \/ Destroyed(t)
  PROVE  TellInv'
  <1>1. /\ stack[t] # <<>>
        /\ Head(stack[t]).at \in {"native", "net", "drain", "refused", "error", "destroy"}
    BY DEF HandOver, SendFails, NetworkTold, Drain, Refused, Error, Destroyed, At
  <1>2. UNCHANGED <<xCallBackMap, isDestroy, answered, canceled, thrown>>
    BY DEF HandOver, SendFails, NetworkTold, Drain, Refused, Error, Destroyed, conns, ends
  <1>3. UNCHANGED loop \/ \E k : loop' = [loop EXCEPT ![k] = "down"]
    BY DEF HandOver, SendFails, NetworkTold, Drain, Refused, Error, Destroyed, Down, socks
  <1>4. \A k \in Calls : loop'[k] = "ended" => loop[k] = "ended"
    BY <1>3 DEF BaseInv, TypeOK
  <1>5. UNCHANGED stack \/ Works(t)
    BY HandOverStep, SendFailsStep, NetworkToldStep, DrainStep, RefusedStep, ErrorStep,
       DestroyedStep
  <1>6. CASE UNCHANGED stack
    <2>1. \A d \in Calls : Registered(d) => Settled(d)'
      BY <1>2 DEF Registered, Settled
    <2> QED
      BY <1>2, <1>4, <1>6, <2>1, TellStays
  <1>7. CASE Works(t)
    BY <1>1, <1>2, <1>4, <1>7, TellMoves DEF Works, Own, Entering, Telling
  <1> QED
    BY <1>5, <1>6, <1>7

\* What they begin.
LEMMA TellStarts ==
  ASSUME BaseInv, TellInv, NEW k \in Calls,
         \/ TakeMessage(k) \/ NetworkChanges(k)
         \/ Refuse(k) \/ SocketFails(k) \/ Destroy(k)
  PROVE  TellInv'
  <1>1. UNCHANGED <<xCallBackMap, isDestroy, answered, canceled, thrown, loop>>
    BY DEF TakeMessage, NetworkChanges, Refuse, SocketFails, Destroy, conns, socks, ends
  <1>2. Writer(k) \in Threads /\ Loop(k) \in Threads
    BY ThreadFacts
  <1>3. UNCHANGED stack \/ \E t \in Threads : stack[t] = <<>> /\ Works(t)
    <2>1. stack[Writer(k)] = <<>> \/ stack[Loop(k)] = <<>>
      BY DEF TakeMessage, NetworkChanges, Refuse, SocketFails, Destroy, Runs, Idle
    <2>2. CASE TakeMessage(k) \/ NetworkChanges(k)
      BY <1>2, <2>2, TakeMessageStep, NetworkChangesStep DEF TakeMessage, NetworkChanges
    <2>3. CASE Refuse(k) \/ SocketFails(k) \/ Destroy(k)
      BY <1>2, <2>3, RefuseStep, SocketFailsStep, DestroyStep
         DEF Refuse, SocketFails, Destroy, Runs, Idle
    <2> QED
      BY <2>2, <2>3
  <1>4. CASE UNCHANGED stack
    <2>1. \A d \in Calls : Registered(d) => Settled(d)'
      BY <1>1 DEF Registered, Settled
    <2> QED
      BY <1>1, <1>2, <1>4, <2>1, TellStays
  <1>5. ASSUME NEW t \in Threads, stack[t] = <<>>, Works(t) PROVE TellInv'
    BY <1>1, <1>5, TellMoves DEF Works, Own
  <1> QED
    BY <1>3, <1>4, <1>5

\* A response is told to its call.
LEMMA TellMessage ==
  ASSUME BaseInv, TellInv, NEW k \in Calls, Message(k)
  PROVE  TellInv'
  <1>1. PICK c \in Calls :
          /\ answered' = answered \cup ({c} \cap xCallBackMap[k])
          /\ xCallBackMap' = [xCallBackMap EXCEPT ![k] = @ \ {c}]
    <2>1. sent[k] \subseteq Calls
      BY DEF BaseInv, TypeOK
    <2> QED
      BY <2>1 DEF Message
  <1>2. /\ xCallBackMap'[k] = xCallBackMap[k] \ {c}
        /\ \A j \in Calls : j # k => xCallBackMap'[j] = xCallBackMap[j]
    BY <1>1 DEF BaseInv, TypeOK
  <1>3. UNCHANGED <<stack, isDestroy, loop, canceled, thrown>>
    BY DEF Message
  <1>4. \A d \in Calls : Registered(d) => Settled(d)'
    BY <1>1, <1>2, <1>3 DEF Registered, Settled
  <1>5. \A j \in Calls : xCallBackMap'[j] \subseteq xCallBackMap[j]
    BY <1>2
  <1>6. Loop(k) \in Threads
    BY ThreadFacts
  <1> QED
    BY <1>1, <1>3, <1>4, <1>5, <1>6, TellStays

\* A call is cancelled.
LEMMA TellCancel ==
  ASSUME BaseInv, TellInv, NEW c \in Calls, Cancel(c)
  PROVE  TellInv'
  <1>1. PICK k : xCallBackMap' = [xCallBackMap EXCEPT ![k] = @ \ {c}]
    BY DEF Cancel
  <1>2. /\ \A j \in Calls : xCallBackMap'[j] \subseteq xCallBackMap[j]
        /\ \A j \in Calls : \A d \in xCallBackMap[j] : d # c => d \in xCallBackMap'[j]
    BY <1>1 DEF BaseInv, TypeOK
  <1>3. UNCHANGED <<stack, isDestroy, loop, answered, thrown>> /\ canceled' = canceled \cup {c}
    BY DEF Cancel, socks
  <1>4. \A d \in Calls : Registered(d) => Settled(d)'
    BY <1>2, <1>3 DEF Registered, Settled
  <1>5. Loop(c) \in Threads
    BY ThreadFacts
  <1> QED
    BY <1>2, <1>3, <1>4, <1>5, TellStays

\* A connection is lost, or its close frame is served.
LEMMA TellLose ==
  ASSUME BaseInv, TellInv, NEW k \in Calls, Lose(k) \/ ServeClose(k)
  PROVE  TellInv'
  <1>1. UNCHANGED <<stack, xCallBackMap, isDestroy, answered, canceled, thrown>>
    BY DEF Lose, ServeClose, conns, ends
  <1>2. \A j \in Calls : loop'[j] = "ended" => loop[j] = "ended"
    BY DEF Lose, Down, ServeClose, BaseInv, TypeOK
  <1>3. \A d \in Calls : Registered(d) => Settled(d)'
    BY <1>1 DEF Registered, Settled
  <1>4. Loop(k) \in Threads
    BY ThreadFacts
  <1> QED
    BY <1>1, <1>2, <1>3, <1>4, TellStays

\* The calls are all on their way in the beginning.
LEMMA TellInit ==
  ASSUME Init
  PROVE  TellInv
  <1> DEFINE f == Frame("start", None)
  <1>1. f.at = "start"
    BY DEF Frame
  <1>2. stack = [t \in Threads |-> IF t[2] = "worker" THEN <<f>> ELSE <<>>]
    BY DEF Init, Frame
  <1> HIDE DEF f
  <1>3. DOMAIN <<f>> = {1} /\ <<f>>[1] = f
    OBVIOUS
  <1>4. \A c \in Calls : stack[Worker(c)] = <<f>>
    BY <1>2, ThreadFacts
  <1>5. \A c \in Calls : In(Worker(c), {"start", "get", "got", "send"})
    BY <1>1, <1>3, <1>4 DEF In
  <1>6. \A c \in Calls : ~In(Worker(c), {"cancel"})
    BY <1>1, <1>3, <1>4 DEF In
  <1>7. \A k \in Calls : loop[k] = "none"
    BY DEF Init
  <1> QED
    BY <1>5, <1>6, <1>7 DEF TellInv, CallInv, EndInv

\* Every step preserves the invariant about what calls are told.
LEMMA TellNext ==
  ASSUME BaseInv, TellInv, [Next]_vars
  PROVE  TellInv'
  <1>1. CASE UNCHANGED vars
    <2>1. UNCHANGED <<stack, xCallBackMap, isDestroy, loop, answered, canceled, thrown>>
      BY <1>1 DEF vars, conns, socks, ends
    <2>2. /\ \A u, places : In(u, places)' <=> In(u, places)
          /\ \A u, places, k : InOn(u, places, k)' <=> InOn(u, places, k)
      BY <2>1 DEF In, InOn
    <2> QED
      BY <2>1, <2>2 DEF TellInv, CallInv, EndInv
  <1>2. ASSUME NEW c \in Calls, Execute(c) PROVE TellInv'
    BY <1>2, TellBegins, TellCreate, TellSends, TellOn, TellCancelThrown, ThreadFacts
       DEF Execute
  <1>3. ASSUME NEW t \in Threads, Methods(t) PROVE TellInv'
    BY <1>3, TellOn, TellSubmit, TellRelease, TellUnpool, TellSocket, ThreadFacts DEF Methods
  <1>4. ASSUME NEW k \in Calls, WriterThread(k) \/ LoopThread(k) PROVE TellInv'
    BY <1>4, TellOpen, TellStarts, TellMessage, TellLose DEF WriterThread, LoopThread
  <1> QED
    BY <1>1, <1>2, <1>3, <1>4, TellCancel DEF Next

\* A call that is left alone has its answer, or will be told by a thread.
LEMMA TellMeans ==
  ASSUME BaseInv, TellInv
  PROVE  NoneForgotten
  <1> SUFFICES ASSUME NEW c \in Calls, stack[Worker(c)] = <<>>,
                      c \notin answered \cup canceled, Worker(c) \notin thrown
               PROVE  \E k \in Calls :
                        /\ c \in xCallBackMap[k]
                        /\ loop[k] # "ended" \/ stack[Loop(k)] # <<>> \/ Loop(k) \in thrown
    BY DEF NoneForgotten
  <1>1. ~In(Worker(c), {"start", "get", "got", "send"})
    BY DEF In
  <1>2. PICK k \in Calls : c \in xCallBackMap[k]
    BY <1>1 DEF TellInv, CallInv
  <1>3. loop[k] = "ended" /\ Loop(k) \notin thrown => stack[Loop(k)] # <<>>
    BY <1>2 DEF TellInv, EndInv, InOn
  <1> QED
    BY <1>2, <1>3

\* Every call that execute has left got its answer, was cancelled or waits in a
\* connection that will tell it, but for those an exception took.
THEOREM NobodyIsForgotten == Spec => []NoneForgotten
  <1>1. Init => TellInv
    BY TellInit
  <1>2. BaseInv /\ TellInv /\ [Next]_vars => TellInv'
    BY TellNext
  <1>3. BaseInv /\ TellInv => NoneForgotten
    BY TellMeans
  <1> QED
    BY <1>1, <1>2, <1>3, BaseInvariant, PTL DEF Spec

-----------------------------------------------------------------------------
(* The pool.                                                                 *)

\* The live connections are finitely many, and fewer without one of them.
LEMMA FewerFacts ==
  ASSUME NEW S, IsFiniteSet(S), NEW T, T \subseteq S
  PROVE  /\ IsFiniteSet(T) /\ Cardinality(T) \in Nat /\ Cardinality(S) \in Nat
         /\ Cardinality(T) <= Cardinality(S)
         /\ T # S => Cardinality(T) < Cardinality(S)
  <1>1. IsFiniteSet(T) /\ Cardinality(T) <= Cardinality(S)
    BY FS_Subset
  <1>2. Cardinality(S) = Cardinality(T) => S = T
    BY FS_Subset
  <1>3. Cardinality(T) \in Nat /\ Cardinality(S) \in Nat
    BY <1>1, FS_CardinalityType
  <1> QED
    BY <1>1, <1>2, <1>3

\* The connections of the pool that are not destroyed, as a set.
LEMMA AliveFacts ==
  ASSUME TypeOK
  PROVE  /\ Alive = {k \in Elems(pool) : ~isDestroy[k]} /\ Elems(pool) \subseteq Calls
         /\ IsFiniteSet(Elems(pool)) /\ Cardinality(Elems(pool)) = Len(pool)
         /\ IsFiniteSet(Alive) /\ Cardinality(Alive) \in Nat
         /\ NoneDestroyed(pool) <=> Alive = Elems(pool)
  <1>1. pool \in Seq(Calls) /\ IsInjective(pool)
    BY DEF TypeOK
  <1>2. Alive = {k \in Elems(pool) : ~isDestroy[k]}
    BY DEF Alive, Elems
  <1>3. \A j \in DOMAIN pool : pool[j] \in Calls
    BY <1>1
  <1>4. Elems(pool) \subseteq Calls
    BY <1>3 DEF Elems
  <1>5. IsFiniteSet(Elems(pool)) /\ Cardinality(Elems(pool)) = Len(pool)
    BY <1>1, CountElems
  <1>6. IsFiniteSet(Alive) /\ Cardinality(Alive) \in Nat
    BY <1>2, <1>5, FewerFacts
  <1>7. NoneDestroyed(pool) <=> \A k \in Elems(pool) : ~isDestroy[k]
    BY DEF NoneDestroyed, Elems
  <1> QED
    BY <1>2, <1>4, <1>5, <1>6, <1>7

\* A pool of fewer or destroyed connections has no less room.
LEMMA Shrinks ==
  ASSUME TypeOK, TypeOK', PoolSound, Elems(pool') \subseteq Elems(pool),
         \A k \in Calls : isDestroy[k] => isDestroy'[k]
  PROVE  /\ Alive' \subseteq Alive /\ PoolSound'
         /\ Room => Room'
         /\ RoomToMake => RoomToMake'
         /\ Alive' # Alive => Room'
  <1>1. PICK A, B, m, n : A = Alive /\ B = Alive' /\ m = Cardinality(A) /\ n = Cardinality(B)
    OBVIOUS
  <1>2. /\ Alive' = {k \in Elems(pool') : ~isDestroy'[k]}
        /\ NoneDestroyed(pool)' <=> \A k \in Elems(pool') : ~isDestroy'[k]
    BY DEF Alive, Elems, NoneDestroyed
  <1>4. B \subseteq A
    BY <1>1, <1>2, AliveFacts
  <1>5. m \in Nat /\ n \in Nat /\ n <= m /\ (B # A => n < m)
    BY <1>1, <1>4, AliveFacts, FewerFacts
  <1>6. MaxIdle \in Nat /\ m <= MaxIdle + 1
    BY <1>1, ReusePoolAssumption DEF PoolSound
  <1>7. Room' <=> n <= MaxIdle
    BY <1>1 DEF Room
  <1>8. Room <=> m <= MaxIdle
    BY <1>1 DEF Room
  <1>9. B # A => Room'
    BY <1>5, <1>6, <1>7
  <1>10. Room => Room'
    BY <1>5, <1>6, <1>7, <1>8
  <1>11. NoneDestroyed(pool) => NoneDestroyed(pool)' \/ Room'
    <2>1. CASE B = A
      <3>1. NoneDestroyed(pool) => A = Elems(pool)
        BY <1>1, AliveFacts
      <3> QED
        BY <1>1, <1>2, <2>1, <3>1
    <2> QED
      BY <1>9, <2>1
  <1>12. PoolSound'
    <2>1. n <= MaxIdle + 1
      BY <1>5, <1>6
    <2> QED
      BY <1>1, <1>4, <2>1 DEF PoolSound
  <1> QED
    BY <1>1, <1>4, <1>9, <1>10, <1>11, <1>12 DEF RoomToMake

\* What the thread in the block on TAG knows, once it has looked at the pool.
Inside == {"got", "put", "add"}
Knows(c) ==
  /\ In(Worker(c), {"got"}) =>
       /\ \A j \in Alive : authority[j] = authority[c] => j = connection[c]
       /\ connection[c] \in Alive \/ RoomToMake
  /\ In(Worker(c), Putting) => \A j \in Alive : authority[j] # authority[c]
  /\ In(Worker(c), {"put"}) => RoomToMake
  /\ In(Worker(c), {"add"}) => Room

\* The invariant, with what the threads in the block on TAG know per call.
LEMMA PoolMeans == PoolInv <=> PoolSound /\ \A c \in Calls : Knows(c)
  BY DEF PoolInv, Knows, Putting

\* Steps outside of the block, which at most remove or destroy connections.
LEMMA PoolKept ==
  ASSUME TypeOK, TypeOK', PoolInv, Elems(pool') \subseteq Elems(pool),
         \A k \in Calls : isDestroy[k] => isDestroy'[k],
         \A c \in Calls : \A places : places \subseteq Inside /\ In(Worker(c), places)' =>
           In(Worker(c), places),
         \A c \in Calls : connection'[c] = connection[c] \/ ~In(Worker(c), {"got"})'
  PROVE  PoolInv'
  <1>1. /\ Alive' \subseteq Alive /\ PoolSound'
        /\ Room => Room'
        /\ RoomToMake => RoomToMake'
        /\ Alive' # Alive => Room'
    BY Shrinks DEF PoolInv
  <1>2. ASSUME NEW c \in Calls PROVE Knows(c)'
    <2>1. Knows(c)
      BY PoolMeans
    <2>2. /\ In(Worker(c), {"got"})' => In(Worker(c), {"got"})
          /\ In(Worker(c), Putting)' => In(Worker(c), Putting)
          /\ In(Worker(c), {"put"})' => In(Worker(c), {"put"})
          /\ In(Worker(c), {"add"})' => In(Worker(c), {"add"})
      BY DEF Inside, Putting
    <2>3. ASSUME In(Worker(c), {"got"})'
          PROVE  /\ \A j \in Alive' : authority[j] = authority[c] => j = connection'[c]
                 /\ connection'[c] \in Alive' \/ RoomToMake'
      <3>1. connection'[c] = connection[c]
        BY <2>3
      <3>2. RoomToMake' \/ Alive' = Alive
        BY <1>1 DEF RoomToMake
      <3> QED
        BY <1>1, <2>1, <2>2, <2>3, <3>1, <3>2 DEF Knows
    <2>4. In(Worker(c), Putting)' => \A j \in Alive' : authority[j] # authority[c]
      BY <1>1, <2>1, <2>2 DEF Knows
    <2>5. /\ In(Worker(c), {"put"})' => RoomToMake'
          /\ In(Worker(c), {"add"})' => Room'
      BY <1>1, <2>1, <2>2 DEF Knows
    <2> QED
      BY <2>3, <2>4, <2>5 DEF Knows
  <1>3. PoolInv' <=> PoolSound' /\ \A c \in Calls : Knows(c)'
    BY DEF PoolInv, Knows, Putting
  <1> QED
    BY <1>1, <1>2, <1>3

\* No step of one thread but those in the block brings it there.
LEMMA PoolMoves ==
  ASSUME BaseInv, BaseInv', PoolInv, Elems(pool') \subseteq Elems(pool), UNCHANGED connection,
         \A k \in Calls : isDestroy[k] => isDestroy'[k],
         NEW t \in Threads, NEW N, Gains(t, N), \A f \in N : f.at \notin Inside
  PROVE  PoolInv'
  <1>1. ASSUME NEW c \in Calls, NEW places, places \subseteq Inside, In(Worker(c), places)'
        PROVE  In(Worker(c), places)
    BY <1>1, InStep, ThreadFacts DEF BaseInv, Gains
  <1> QED
    BY <1>1, PoolKept DEF BaseInv

\* The block on TAG: only the thread in it comes to a place there.
LEMMA InBlock ==
  ASSUME BaseInv, NEW c \in Calls, NEW N, Gains(Worker(c), N),
         DOMAIN stack[Worker(c)] = {1}, In(Worker(c), Tagged),
         NEW d \in Calls, NEW places, places \subseteq Inside, In(Worker(d), places)'
  PROVE  d = c /\ \E f \in N : f.at \in places
  <1>1. PICK s : NewFrames(Worker(c), N, s)
    BY DEF Gains
  <1>2. stack'[Worker(c)] = s /\ \A i \in DOMAIN s : s[i] \in N
    BY <1>1, StackType, ThreadFacts DEF NewFrames, BaseInv
  <1>3. CASE d = c
    BY <1>2, <1>3 DEF In
  <1>4. CASE d # c
    <2>1. In(Worker(d), places)
      BY <1>1, <1>4, InStep, ThreadFacts DEF BaseInv
    <2>2. In(Worker(d), Tagged)
      BY <2>1 DEF In, Inside, Tagged
    <2> QED
      BY <1>4, <2>2, OneInTag
  <1> QED
    BY <1>3, <1>4

\* Methods outside of the block.
LEMMA PoolOutside ==
  ASSUME BaseInv, BaseInv', PoolInv, NEW c \in Calls,
         \/ DnsFails(c) \/ EnterTag(c) \/ Found(c) \/ FoundBodiless(c)
         \/ SendRefused(c) \/ Send(c) \/ Cache(c) \/ CancelThrown(c)
  PROVE  PoolInv'
  <1>1. PICK t \in Threads : t = Worker(c)
    BY ThreadFacts
  <1>2. UNCHANGED <<pool, connection, isDestroy>>
    BY DEF DnsFails, EnterTag, Found, FoundBodiless, SendRefused, Send, Cache, CancelThrown,
           conns
  <1>3. \E N : Moves(t, N) /\ \A f \in N : f.at \notin Inside
    <2>1. CASE DnsFails(c)
      BY <1>1, <2>1, DnsFailsStep
    <2>2. ASSUME NEW f, Moves(t, {f}), f.at \notin Inside
          PROVE  \E N : Moves(t, N) /\ \A g \in N : g.at \notin Inside
      BY <2>2
    <2>3. CASE EnterTag(c)
      <3>1. PICK f : f = Frame("get", None)
        OBVIOUS
      <3> QED
        BY <1>1, <2>2, <2>3, <3>1, EnterTagStep DEF Frame, Inside
    <2>4. CASE Found(c)
      <3>1. PICK f : f = Frame("send", connection[c])
        OBVIOUS
      <3> QED
        BY <1>1, <2>2, <2>4, <3>1, FoundStep DEF Frame, Inside
    <2>5. CASE FoundBodiless(c)
      <3>1. PICK f : f = Frame("cancel", connection[c])
        OBVIOUS
      <3> QED
        BY <1>1, <2>2, <2>5, <3>1, FoundBodilessStep DEF Frame, Inside
    <2>6. CASE SendRefused(c)
      BY <1>1, <2>6, SendRefusedStep
    <2>7. CASE Send(c)
      <3>1. PICK N : Moves(t, N) /\ \A f \in N : f.at \in {"offer", "sending", "cache"}
        BY <1>1, <2>7, SendStep
      <3> QED
        BY <3>1 DEF Inside
    <2>8. CASE Cache(c)
      BY <1>1, <2>8, CacheStep
    <2>9. CASE CancelThrown(c)
      BY <1>1, <2>9, CancelThrownStep
    <2> QED
      BY <2>1, <2>3, <2>4, <2>5, <2>6, <2>7, <2>8, <2>9
  <1> QED
    BY <1>2, <1>3, PoolMoves DEF Moves, Gains

\* The steps of the methods of a connection.
LEMMA PoolMethods ==
  ASSUME BaseInv, BaseInv', PoolInv, NEW t \in Threads,
         Offer(t) \/ Close(t) \/ Submit(t) \/ Release(t) \/ Unpool(t) \/ Unpooled(t)
  PROVE  PoolInv'
  <1>1. UNCHANGED connection /\ \A k \in Calls : isDestroy[k] => isDestroy'[k]
    BY DEF Offer, Close, Submit, Release, Unpool, Unpooled, conns, BaseInv, TypeOK
  <1>2. Elems(pool') \subseteq Elems(pool)
    <2>1. CASE Unpool(t)
      BY <2>1, UnpoolStep
    <2>2. CASE Offer(t) \/ Close(t) \/ Submit(t) \/ Release(t) \/ Unpooled(t)
      BY <2>2 DEF Offer, Close, Submit, Release, Unpooled
    <2> QED
      BY <2>1, <2>2
  <1>3. \E N : Gains(t, N) /\ \A f \in N : f.at \notin Inside
    <2>1. CASE Offer(t)
      <3>1. PICK N : Moves(t, N) /\ \A f \in N : f.at \in {"offered", "release", "told"}
        BY <2>1, OfferStep
      <3> QED
        BY <3>1 DEF Inside, Moves, Gains
    <2>2. CASE Close(t)
      <3>1. PICK N : Moves(t, N) /\ \A f \in N : f.at \in {"closing", "release", "told"}
        BY <2>2, CloseStep
      <3> QED
        BY <3>1 DEF Inside, Moves, Gains
    <2>3. CASE Submit(t)
      <3>1. CASE Moves(t, {})
        BY <3>1 DEF Moves, Gains
      <3>2. CASE Throw(t)
        <4>1. PICK N : Gains(t, N) /\ \A f \in N : f.at = "cancel"
          BY <3>2, Throws
        <4> QED
          BY <4>1 DEF Inside
      <3> QED
        BY <2>3, <3>1, <3>2, SubmitStep
    <2>4. CASE Release(t)
      <3>1. PICK f : f = Frame("unpool", On(t))
        OBVIOUS
      <3>2. PICK N : N = {f} /\ Moves(t, N)
        BY <2>4, <3>1, ReleaseStep
      <3>3. f.at \notin Inside
        BY <3>1 DEF Frame, Inside
      <3> QED
        BY <3>2, <3>3 DEF Moves, Gains
    <2>5. CASE Unpool(t)
      <3>1. CASE Moves(t, {})
        BY <3>1 DEF Moves, Gains
      <3>2. CASE \E f : Moves(t, {f, Frame("unpooled", On(t))}) /\ f.at = "close"
        <4>1. PICK f, g : g = Frame("unpooled", On(t)) /\ Moves(t, {f, g}) /\ f.at = "close"
          BY <3>2
        <4>2. g.at \notin Inside /\ f.at \notin Inside
          BY <4>1 DEF Frame, Inside
        <4>3. PICK N : N = {f, g} /\ Moves(t, N)
          BY <4>1
        <4> QED
          BY <4>2, <4>3 DEF Moves, Gains
      <3> QED
        BY <2>5, <3>1, <3>2, UnpoolStep
    <2>6. CASE Unpooled(t)
      BY <2>6, UnpooledStep DEF Moves, Gains
    <2> QED
      BY <2>1, <2>2, <2>3, <2>4, <2>5, <2>6
  <1> QED
    BY <1>1, <1>2, <1>3, PoolMoves

\* Steps of nobody's frames, and those that bring a thread to places of methods.
LEMMA PoolQuiet ==
  ASSUME BaseInv, BaseInv', PoolInv, UNCHANGED <<pool, connection, isDestroy>>,
         UNCHANGED stack \/ \E t \in Threads : Works(t)
  PROVE  PoolInv'
  <1>1. CASE UNCHANGED stack
    <2>1. \A u, places : In(u, places)' <=> In(u, places)
      BY <1>1 DEF In
    <2> QED
      BY <1>1, <2>1, PoolKept DEF BaseInv
  <1>2. ASSUME NEW t \in Threads, Works(t) PROVE PoolInv'
    <2>1. PICK N : Gains(t, N) /\ \A f \in N : f.at \notin Inside
      BY <1>2 DEF Works, Moves, Gains, Own, Fresh, Putting, Inside
    <2> QED
      BY <2>1, PoolMoves
  <1> QED
    BY <1>1, <1>2

\* The methods of the web socket's own threads.
LEMMA PoolSocket ==
  ASSUME BaseInv, BaseInv', PoolInv, NEW t \in Threads,
         \/ HandOver(t) \/ SendFails(t) \/ NetworkTold(t)
         \/ Drain(t) \/ Refused(t) \/ Error(t) \/ Destroyed(t)
  PROVE  PoolInv'
  <1>1. UNCHANGED <<pool, connection, isDestroy>>
    BY DEF HandOver, SendFails, NetworkTold, Drain, Refused, Error, Destroyed, conns
  <1>2. UNCHANGED stack \/ Works(t)
    BY HandOverStep, SendFailsStep, NetworkToldStep, DrainStep, RefusedStep, ErrorStep,
       DestroyedStep
  <1> QED
    BY <1>1, <1>2, PoolQuiet

\* What these threads begin, and a cancellation.
LEMMA PoolListener ==
  ASSUME BaseInv, BaseInv', PoolInv, NEW k \in Calls,
         WriterThread(k) \/ LoopThread(k) \/ Cancel(k)
  PROVE  PoolInv'
  <1>1. UNCHANGED <<pool, connection, isDestroy>>
    BY DEF WriterThread, TakeMessage, ServeClose, NetworkChanges, LoopThread, Open, Message,
           Refuse, SocketFails, Destroy, Lose, End, Cancel, conns
  <1>2. Writer(k) \in Threads /\ Loop(k) \in Threads
    BY ThreadFacts
  <1>3. CASE Open(k) \/ End(k)
    <2>1. PICK f : Gains(Loop(k), {f}) /\ f.at \notin Inside
      <3>1. PICK f, g : f = Frame("drain", k) /\ g = Frame("release", k)
        OBVIOUS
      <3>2. f.at \notin Inside /\ g.at \notin Inside
        BY <3>1 DEF Frame, Inside
      <3>3. CASE Open(k)
        BY <3>1, <3>2, <3>3, OpenStep DEF Moves, Gains
      <3>4. CASE End(k)
        BY <3>1, <3>2, <3>4, EndStep
      <3> QED
        BY <1>3, <3>3, <3>4
    <2> QED
      BY <1>1, <1>2, <2>1, PoolMoves
  <1>4. CASE \/ TakeMessage(k) \/ NetworkChanges(k) \/ Refuse(k) \/ SocketFails(k)
             \/ Destroy(k)
    BY <1>1, <1>2, <1>4, PoolQuiet, TakeMessageStep, NetworkChangesStep, RefuseStep,
       SocketFailsStep, DestroyStep
  <1>5. CASE Message(k) \/ Lose(k) \/ ServeClose(k) \/ Cancel(k)
    <2>1. UNCHANGED stack
      BY <1>5 DEF Message, Lose, ServeClose, Cancel
    <2> QED
      BY <1>1, <2>1, PoolQuiet
  <1> QED
    BY <1>3, <1>4, <1>5 DEF WriterThread, LoopThread

\* The frames of a thread in the block are one.
LEMMA AloneInBlock ==
  ASSUME BaseInv, NEW t \in Threads, NEW place \in {"get", "got", "put"}, At(t, place)
  PROVE  DOMAIN stack[t] = {1} /\ In(t, Tagged) /\ In(t, {place})
  <1>1. stack[t] # <<>> /\ Head(stack[t]).at = place
    BY DEF At
  <1>2. DOMAIN stack[t] = {1}
    BY <1>1, AtFacts DEF BaseInv, Alone
  <1>3. In(t, {place})
    BY InAt
  <1> QED
    BY <1>2, <1>3 DEF In, Tagged

\* What is known after a step of the thread in the block.
LEMMA PoolBlock ==
  ASSUME BaseInv, NEW c \in Calls, NEW N, Gains(Worker(c), N),
         DOMAIN stack[Worker(c)] = {1}, In(Worker(c), Tagged), PoolSound',
         (\E f \in N : f.at = "got") =>
           /\ \A j \in Alive' : authority[j] = authority[c] => j = connection'[c]
           /\ connection'[c] \in Alive' \/ RoomToMake',
         (\E f \in N : f.at \in Putting) => \A j \in Alive' : authority[j] # authority[c],
         (\E f \in N : f.at = "put") => RoomToMake',
         (\E f \in N : f.at = "add") => Room'
  PROVE  PoolInv'
  <1>1. ASSUME NEW d \in Calls, NEW places, places \subseteq Inside, In(Worker(d), places)'
        PROVE  d = c /\ \E f \in N : f.at \in places
    BY <1>1, InBlock
  <1>2. ASSUME NEW d \in Calls PROVE Knows(d)'
    <2>1. ASSUME In(Worker(d), {"got"})'
          PROVE  /\ \A j \in Alive' : authority[j] = authority[d] => j = connection'[d]
                 /\ connection'[d] \in Alive' \/ RoomToMake'
      <3>1. d = c /\ \E f \in N : f.at \in {"got"}
        BY <1>1, <2>1 DEF Inside
      <3>2. \E f \in N : f.at = "got"
        BY <3>1
      <3> QED
        BY <3>1, <3>2
    <2>2. ASSUME In(Worker(d), Putting)' PROVE \A j \in Alive' : authority[j] # authority[d]
      <3>1. d = c /\ \E f \in N : f.at \in Putting
        BY <1>1, <2>2 DEF Inside, Putting
      <3> QED
        BY <3>1
    <2>3. ASSUME In(Worker(d), {"put"})' PROVE RoomToMake'
      <3>1. \E f \in N : f.at \in {"put"}
        BY <1>1, <2>3 DEF Inside
      <3>2. \E f \in N : f.at = "put"
        BY <3>1
      <3> QED
        BY <3>2
    <2>4. ASSUME In(Worker(d), {"add"})' PROVE Room'
      <3>1. \E f \in N : f.at \in {"add"}
        BY <1>1, <2>4 DEF Inside
      <3>2. \E f \in N : f.at = "add"
        BY <3>1
      <3> QED
        BY <3>2
    <2> QED
      BY <2>1, <2>2, <2>3, <2>4 DEF Knows
  <1>3. PoolInv' <=> PoolSound' /\ \A d \in Calls : Knows(d)'
    BY DEF PoolInv, Knows, Putting
  <1> QED
    BY <1>2, <1>3

\* get leaves what lives, and finds the only one that will do, or room.
LEMMA PoolGet ==
  ASSUME BaseInv, BaseInv', PoolInv, NEW c \in Calls, Get(c)
  PROVE  PoolInv'
  <1>1. PICK t, f : t \in Threads /\ t = Worker(c) /\ f = Frame("got", None)
    BY ThreadFacts
  <1>2. f.at = "got" /\ Gains(t, {f})
    BY <1>1, GetStep DEF Frame, Moves, Gains
  <1>3. DOMAIN stack[t] = {1} /\ In(t, Tagged)
    BY <1>1, AloneInBlock DEF Get
  <1>4. /\ Elems(pool') \subseteq Elems(pool) /\ Alive \subseteq Elems(pool')
        /\ UNCHANGED isDestroy
    BY GetFinds DEF Get, conns
  <1>5. Alive' = {k \in Elems(pool') : ~isDestroy[k]}
    BY <1>4 DEF Alive, Elems
  <1>6. Alive' = Alive
    BY <1>4, <1>5, AliveFacts DEF BaseInv
  <1>7. PoolSound'
    BY <1>4, Shrinks DEF BaseInv, PoolInv
  <1>8. /\ \A j \in Alive' : authority[j] = authority[c] => j = connection'[c]
        /\ connection'[c] \in Alive' \/ RoomToMake'
    <2>1. CASE /\ connection' = [connection EXCEPT ![c] = None]
               /\ \A k \in Alive : authority[k] # authority[c]
               /\ \A k \in Elems(pool') : ~isDestroy[k]
      <3>1. NoneDestroyed(pool)'
        BY <1>4, <2>1 DEF NoneDestroyed, Elems
      <3> QED
        BY <1>6, <2>1, <3>1 DEF RoomToMake
    <2>2. CASE \E k \in Alive : /\ connection' = [connection EXCEPT ![c] = k]
                                /\ authority[k] = authority[c]
      <3>1. PICK k \in Alive : connection' = [connection EXCEPT ![c] = k]
                               /\ authority[k] = authority[c]
        BY <2>2
      <3>2. connection'[c] = k
        BY <3>1 DEF BaseInv, TypeOK
      <3>3. \A j \in Alive : authority[j] = authority[c] => j = k
        BY <3>1 DEF PoolInv, PoolSound
      <3> QED
        BY <1>6, <3>1, <3>2, <3>3
    <2> QED
      BY <2>1, <2>2, GetFinds
  <1> QED
    BY <1>1, <1>2, <1>3, <1>7, <1>8, PoolBlock DEF Putting

\* A connection is made only if there is none alive, and room.
LEMMA PoolCreate ==
  ASSUME BaseInv, BaseInv', PoolInv, NEW c \in Calls, Create(c)
  PROVE  PoolInv'
  <1>1. PICK t, f : t \in Threads /\ t = Worker(c) /\ f = Frame("put", None)
    BY ThreadFacts
  <1>2. f.at = "put" /\ Gains(t, {f})
    BY <1>1, CreateStep DEF Frame, Moves, Gains
  <1>3. DOMAIN stack[t] = {1} /\ In(t, Tagged) /\ In(t, {"got"})
    BY <1>1, AloneInBlock DEF Create
  <1>4. UNCHANGED <<pool, isDestroy>>
    BY DEF Create
  <1>5. Alive' = Alive /\ PoolSound' /\ (RoomToMake => RoomToMake')
    BY <1>4 DEF Alive, PoolInv, PoolSound, RoomToMake, Room, NoneDestroyed
  <1>6. connection[c] \notin Alive
    <2>1. connection[c] = None \/ isDestroy[connection[c]]
      BY DEF Create
    <2>2. None \notin Alive
      BY AliveFacts, ReusePoolAssumption DEF BaseInv
    <2> QED
      BY <2>1, <2>2, AliveFacts DEF BaseInv
  <1>7. Knows(c)
    BY PoolMeans
  <1>8. (\A j \in Alive : authority[j] # authority[c]) /\ RoomToMake
    BY <1>1, <1>3, <1>6, <1>7 DEF Knows
  <1> QED
    BY <1>1, <1>2, <1>3, <1>5, <1>8, PoolBlock

\* After cleanUp there is room for the connection.
LEMMA RoomAfter ==
  ASSUME BaseInv, PoolSound, RoomToMake, NEW r \in cleanUp(pool)
  PROVE  \E S : /\ IsFiniteSet(S) /\ Cardinality(S) <= MaxIdle
                /\ {k \in Elems(r.rest) : ~isDestroy[k]} \subseteq S
                /\ S \subseteq Elems(pool)
  <1>1. /\ r.rest \in Seq(Calls) /\ IsInjective(r.rest) /\ Elems(r.rest) \subseteq Elems(pool)
        /\ NoneDestroyed(pool) /\ Len(pool) <= MaxIdle + 1 => Len(r.rest) <= MaxIdle
    BY CleanUpFacts DEF BaseInv, TypeOK
  <1>2. CASE Room
    <2>1. {k \in Elems(r.rest) : ~isDestroy[k]} \subseteq Alive
      BY <1>1, AliveFacts DEF BaseInv
    <2>2. IsFiniteSet(Alive) /\ Cardinality(Alive) <= MaxIdle /\ Alive \subseteq Elems(pool)
      BY <1>2, AliveFacts DEF BaseInv, Room
    <2> QED
      BY <2>1, <2>2
  <1>3. CASE NoneDestroyed(pool)
    <2>1. Len(pool) <= MaxIdle + 1
      BY <1>3, AliveFacts DEF BaseInv, PoolSound
    <2>2. Len(r.rest) <= MaxIdle
      BY <1>1, <1>3, <2>1
    <2>3. IsFiniteSet(Elems(r.rest)) /\ Cardinality(Elems(r.rest)) = Len(r.rest)
      BY <1>1, CountElems
    <2>4. PICK S : S = Elems(r.rest)
      OBVIOUS
    <2>5. IsFiniteSet(S) /\ Cardinality(S) <= MaxIdle /\ S \subseteq Elems(pool)
      BY <1>1, <2>2, <2>3, <2>4
    <2> QED
      BY <2>4, <2>5
  <1> QED
    BY <1>2, <1>3 DEF RoomToMake

\* A connection that joins others is one more, and the only one of its authority.
LEMMA PoolJoins ==
  ASSUME BaseInv, BaseInv', PoolSound, NEW c \in Calls, UNCHANGED isDestroy,
         \A j \in Alive : authority[j] # authority[c],
         NEW P \in Seq(Calls), Elems(P) \subseteq Elems(pool), pool' = Append(P, c),
         NEW S, IsFiniteSet(S), Cardinality(S) <= MaxIdle,
         {k \in Elems(P) : ~isDestroy[k]} \subseteq S
  PROVE  PoolSound'
  <1>1. Elems(pool') = Elems(P) \cup {c}
    BY AppendElems
  <1>2. Alive' = {k \in Elems(pool') : ~isDestroy[k]}
    BY DEF Alive, Elems
  <1>3. Alive' \subseteq S \cup {c}
    BY <1>1, <1>2
  <1>4. PICK A, m, n, l : /\ A = Alive' /\ m = Cardinality(A) /\ n = Cardinality(S)
                          /\ l = Cardinality(S \cup {c})
    OBVIOUS
  <1>5. IsFiniteSet(S \cup {c}) /\ (l = n \/ l = n + 1)
    BY <1>4, FS_AddElement
  <1>6. n \in Nat /\ n <= MaxIdle /\ MaxIdle \in Nat
    BY <1>4, FS_CardinalityType, ReusePoolAssumption
  <1>7. m \in Nat /\ l \in Nat /\ m <= l
    BY <1>3, <1>4, <1>5, FewerFacts
  <1>8. m <= MaxIdle + 1
    BY <1>5, <1>6, <1>7
  <1>9. ASSUME NEW j \in Alive', NEW k \in Alive', j # k PROVE authority[j] # authority[k]
    <2>1. \A i \in Alive' : i = c \/ i \in Alive
      BY <1>1, <1>2, AliveFacts DEF BaseInv
    <2> QED
      BY <1>9, <2>1 DEF PoolSound
  <1> QED
    BY <1>4, <1>8, <1>9 DEF PoolSound

\* put.
LEMMA PoolPut ==
  ASSUME BaseInv, BaseInv', PoolInv, NEW c \in Calls, Put(c)
  PROVE  PoolInv'
  <1>1. PICK t \in Threads : t = Worker(c)
    BY ThreadFacts
  <1>2. DOMAIN stack[t] = {1} /\ In(t, Tagged) /\ In(t, {"put"})
    BY <1>1, AloneInBlock DEF Put
  <1>3. Knows(c)
    BY PoolMeans
  <1>4. (\A j \in Alive : authority[j] # authority[c]) /\ RoomToMake
    BY <1>1, <1>2, <1>3 DEF Knows, In, Putting
  <1>5. UNCHANGED isDestroy
    BY PutStep
  <1>6. PICK r \in cleanUp(pool) :
           \/ pool' = Append(r.rest, c) /\ Moves(t, {})
           \/ /\ pool' = r.rest
              /\ \E f : Moves(t, {f, Frame("add", c)}) /\ f.at = "close"
    BY <1>1, PutStep
  <1>7. r.rest \in Seq(Calls) /\ IsInjective(r.rest) /\ Elems(r.rest) \subseteq Elems(pool)
    BY CleanUpFacts DEF BaseInv, TypeOK
  <1>8. PICK S : /\ IsFiniteSet(S) /\ Cardinality(S) <= MaxIdle
                 /\ {k \in Elems(r.rest) : ~isDestroy[k]} \subseteq S
    BY <1>4, RoomAfter DEF PoolInv
  <1>9. CASE pool' = Append(r.rest, c) /\ Moves(t, {})
    <2>1. PICK P : P = r.rest
      OBVIOUS
    <2>2. PoolSound'
      BY <1>4, <1>5, <1>7, <1>8, <1>9, <2>1, PoolJoins DEF PoolInv
    <2>3. PICK N : N = {} /\ Gains(t, N)
      BY <1>9 DEF Moves, Gains
    <2> QED
      BY <1>1, <1>2, <2>2, <2>3, PoolBlock
  <1>10. CASE /\ pool' = r.rest
              /\ \E f : Moves(t, {f, Frame("add", c)}) /\ f.at = "close"
    <2>1. PICK f, g : g = Frame("add", c) /\ Moves(t, {f, g}) /\ f.at = "close"
      BY <1>10
    <2>2. PICK N : N = {f, g} /\ Gains(t, N)
      BY <2>1 DEF Moves, Gains
    <2>3. \A h \in N : h.at \in {"close", "add"}
      BY <2>1, <2>2 DEF Frame
    <2>4. Alive' \subseteq Alive /\ PoolSound'
      BY <1>5, <1>7, <1>10, Shrinks DEF BaseInv, PoolInv
    <2>5. Room'
      <3>1. Alive' = {k \in Elems(r.rest) : ~isDestroy[k]}
        BY <1>5, <1>10 DEF Alive, Elems
      <3>2. PICK A, m, n : A = Alive' /\ m = Cardinality(A) /\ n = Cardinality(S)
        OBVIOUS
      <3>3. m \in Nat /\ n \in Nat /\ m <= n /\ n <= MaxIdle /\ MaxIdle \in Nat
        BY <1>8, <3>1, <3>2, FewerFacts, ReusePoolAssumption
      <3>4. m <= MaxIdle
        BY <3>3
      <3> QED
        BY <3>2, <3>4 DEF Room
    <2>6. \A j \in Alive' : authority[j] # authority[c]
      BY <1>4, <2>4
    <2>7. (\A h \in N : h.at # "got" /\ h.at # "put")
      BY <2>3
    <2> QED
      BY <1>1, <1>2, <2>2, <2>4, <2>5, <2>6, <2>7, PoolBlock
  <1> QED
    BY <1>6, <1>9, <1>10

\* The rest of put.
LEMMA PoolAdd ==
  ASSUME BaseInv, BaseInv', PoolInv, NEW c \in Calls, Add(c)
  PROVE  PoolInv'
  <1>1. PICK t \in Threads : t = Worker(c)
    BY ThreadFacts
  <1>2. In(t, {"add"})
    BY <1>1, InAt DEF Add
  <1>3. Knows(c)
    BY PoolMeans
  <1>4. (\A j \in Alive : authority[j] # authority[c]) /\ Room
    BY <1>1, <1>2, <1>3 DEF Knows, In, Putting
  <1>5. UNCHANGED isDestroy /\ pool' = Append(pool, c)
    BY AddStep
  <1>6. PICK P, S : P = pool /\ S = Alive
    OBVIOUS
  <1>7. /\ P \in Seq(Calls) /\ Elems(P) \subseteq Elems(pool)
        /\ IsFiniteSet(S) /\ Cardinality(S) <= MaxIdle
        /\ {k \in Elems(P) : ~isDestroy[k]} \subseteq S
    BY <1>4, <1>6, AliveFacts DEF BaseInv, TypeOK, Room
  <1>8. PoolSound'
    BY <1>4, <1>5, <1>6, <1>7, PoolJoins DEF PoolInv
  <1>9. ASSUME NEW d \in Calls, NEW places \in SUBSET Inside PROVE ~In(Worker(d), places)'
    <2>1. CASE d = c
      BY <2>1, AddStep DEF Inside, Places
    <2>2. CASE d # c
      <3>1. SUFFICES ASSUME In(Worker(d), places)' PROVE FALSE
        OBVIOUS
      <3>2. PICK N : N = {} /\ Gains(t, N)
        BY <1>1, AddStep DEF Moves, Gains
      <3>3. In(Worker(d), places)
        BY <3>1, <3>2, InStep, ThreadFacts DEF BaseInv, Gains
      <3>4. In(Worker(d), Tagged) /\ In(Worker(c), Tagged)
        BY <1>1, <1>2, <3>3 DEF In, Inside, Tagged
      <3> QED
        BY <2>2, <3>4, OneInTag
    <2> QED
      BY <2>1, <2>2
  <1>10. \A d \in Calls : /\ ~In(Worker(d), {"got"})' /\ ~In(Worker(d), {"put"})'
                          /\ ~In(Worker(d), {"add"})' /\ ~In(Worker(d), {"put", "add"})'
    BY <1>9 DEF Inside
  <1> QED
    BY <1>8, <1>10 DEF PoolInv

\* The pool is empty at first.
LEMMA PoolInit ==
  ASSUME Init
  PROVE  PoolInv
  <1>1. BaseInv
    BY BaseInit
  <1>2. pool = <<>> /\ Elems(pool) = {}
    BY DEF Init, Elems
  <1>3. Alive = {}
    BY <1>1, <1>2, AliveFacts DEF BaseInv
  <1>4. Cardinality(Alive) = 0 /\ MaxIdle \in Nat
    BY <1>3, FS_EmptySet, ReusePoolAssumption
  <1>5. PoolSound /\ Room
    BY <1>3, <1>4 DEF PoolSound, Room
  <1>6. \A c \in Calls : ~In(Worker(c), {"got"})
    <2>1. \A t \in Threads : stack[t] = <<[at |-> "start", on |-> None]>> \/ stack[t] = <<>>
      BY DEF Init
    <2>2. \A t \in Threads : \A i \in DOMAIN stack[t] : stack[t][i].at = "start"
      BY <2>1
    <2> QED
      BY <2>2, ThreadFacts DEF In
  <1> QED
    BY <1>3, <1>5, <1>6 DEF PoolInv, RoomToMake

\* Every step preserves the invariant about the pool.
LEMMA PoolNext ==
  ASSUME BaseInv, BaseInv', PoolInv, [Next]_vars
  PROVE  PoolInv'
  <1>1. CASE UNCHANGED vars
    <2>1. UNCHANGED <<stack, pool, connection, isDestroy>>
      BY <1>1 DEF vars, conns
    <2>2. \A u, places : In(u, places)' <=> In(u, places)
      BY <2>1 DEF In
    <2> QED
      BY <2>1, <2>2, PoolKept DEF BaseInv
  <1>2. ASSUME NEW c \in Calls, Execute(c) PROVE PoolInv'
    BY <1>2, PoolOutside, PoolGet, PoolCreate, PoolPut, PoolAdd DEF Execute
  <1>3. ASSUME NEW t \in Threads, Methods(t) PROVE PoolInv'
    BY <1>3, PoolMethods, PoolSocket DEF Methods
  <1> QED
    BY <1>1, <1>2, <1>3, PoolListener DEF Next

\* The pool holds at most one connection more than maxIdleConnections, and never
\* two that a request could use.
THEOREM PoolIsSound == Spec => []PoolSound
  <1>1. Init => PoolInv
    BY PoolInit
  <1>2. BaseInv /\ BaseInv' /\ PoolInv /\ [Next]_vars => PoolInv'
    BY PoolNext
  <1>3. PoolInv => PoolSound
    BY DEF PoolInv
  <1> QED
    BY <1>1, <1>2, <1>3, BaseInvariant, PTL DEF Spec

-----------------------------------------------------------------------------
(* Threads that wait for each other.                                         *)

\* Every thread of S waits for another one of S.
Stuck(S) == S \subseteq Busy /\ S # {} /\ \A t \in S : \E u \in S : Waits(t, u)

\* None of them waits for the native mutex, or in an error upcall.
Knot(S) == Stuck(S) /\ \A t \in S : stack[t][1].at \notin {"native", "error"}

\* Where a thread of a knot waits.
Waiting == {"start", "get", "put", "unpool", "send", "release", "cancel", "offer", "close",
            "refused", "destroy"}

\* What a thread waits for it does not hold, and its top frame holds no monitor.
LEMMA StuckFacts ==
  ASSUME BaseInv, NEW S, Knot(S), NEW t \in S
  PROVE  /\ t \in Threads /\ stack[t] # <<>> /\ stack[t] \in Seq(FrameRec)
         /\ Shape(stack[t]) /\ \A i \in DOMAIN stack[t] : FrameOk(stack[t][i])
         /\ stack[t][1] = Head(stack[t]) /\ 1 \in DOMAIN stack[t]
         /\ DOMAIN stack[t] = 1..Len(stack[t]) /\ Len(stack[t]) \in Nat
         /\ stack[t][1].at \in Waiting
         /\ \E l \in Wanted(stack[t][1]) : ~Holds(t, l) /\ \E u \in S : Holds(u, l)
  <1>1. t \in Threads /\ stack[t] # <<>>
    BY DEF Knot, Stuck, Busy
  <1>2. stack[t] \in Seq(FrameRec) /\ Shape(stack[t])
        /\ \A i \in DOMAIN stack[t] : FrameOk(stack[t][i])
    BY <1>1, StackType DEF BaseInv, StackInv
  <1>3. stack[t][1] = Head(stack[t]) /\ 1 \in DOMAIN stack[t]
    BY <1>1, AtFacts DEF BaseInv
  <1>4. PICK u \in S, l \in Wanted(stack[t][1]) : t # u /\ Holds(u, l)
    BY <1>3 DEF Knot, Stuck, Waits
  <1>5. u \in Threads
    BY DEF Knot, Stuck, Busy
  <1>6. ~Holds(t, l)
    BY <1>1, <1>4, <1>5 DEF BaseInv, LockInv
  <1>7. stack[t][1].at \in Waiting
    BY <1>4 DEF Wanted, Knot, Waiting
  <1>8. DOMAIN stack[t] = 1..Len(stack[t]) /\ Len(stack[t]) \in Nat
    BY <1>2
  <1> QED
    BY <1>1, <1>2, <1>3, <1>4, <1>6, <1>7, <1>8

\* Who holds the monitor of a web socket and waits has told its listener.
LEMMA SockHolder ==
  ASSUME BaseInv, NEW S, Knot(S), NEW t \in S, NEW k, Holds(t, Sock(k))
  PROVE  \E i \in DOMAIN stack[t] : stack[t][i].at = "told" /\ stack[t][i].on = k
  <1>1. PICK i \in DOMAIN stack[t] : Sock(k) \in Held(stack[t][i])
    BY DEF Holds
  <1>2. PICK f : f = stack[t][i]
    OBVIOUS
  <1>3. f \in FrameRec
    BY <1>2, StuckFacts
  <1>4. f.at \in {"offered", "closing", "told", "drain", "native", "error"} /\ f.on = k
    BY <1>1, <1>2, <1>3 DEF Held, FrameRec, Sock, TAG, Pool, Conn, SockTAG, Mutex
  <1>5. CASE i = 1
    BY <1>2, <1>4, <1>5, StuckFacts DEF Waiting, Shape, Dropped, Knot
  <1>6. CASE i # 1
    <2>1. f.at \in {"told", "drain"}
      BY <1>2, <1>4, <1>6, StuckFacts DEF Shape, Below
    <2>2. ASSUME f.at = "drain" PROVE \E j \in DOMAIN stack[t] : j = i - 1 /\ Tells(stack[t][j], f)
      <3>1. i - 1 \in DOMAIN stack[t] /\ i - 1 + 1 = i
        BY <1>6, StuckFacts
      <3>2. stack[t][i - 1].at = "told"
        BY <1>2, <1>6, <2>2, StuckFacts DEF Shape
      <3>3. Tells(stack[t][i - 1], stack[t][i])
        BY <3>1, <3>2, StuckFacts DEF Shape
      <3> QED
        BY <1>2, <3>1, <3>3
    <2>3. ASSUME f.at = "drain" PROVE \E j \in DOMAIN stack[t] : stack[t][j].at = "told" /\ stack[t][j].on = k
      <3>1. PICK j \in DOMAIN stack[t] : j = i - 1 /\ Tells(stack[t][j], f)
        BY <2>2, <2>3
      <3>2. stack[t][j].at = "told"
        BY <1>2, <1>6, <2>3, <3>1, StuckFacts DEF Shape
      <3>3. stack[t][j].on = k
        BY <1>4, <2>3, <3>1 DEF Tells
      <3> QED
        BY <3>2, <3>3
    <2> QED
      BY <1>2, <1>4, <2>1, <2>3
  <1> QED
    BY <1>5, <1>6

\* Who holds the monitor of the pool and waits closes a connection that ends.
LEMMA PoolHolder ==
  ASSUME BaseInv, NEW S, Knot(S), NEW t \in S, Holds(t, Pool)
  PROVE  Dying(On(t))
  <1>1. PICK s : s = stack[t]
    OBVIOUS
  <1>2. /\ s # <<>> /\ s \in Seq(FrameRec) /\ Shape(s) /\ FrameOk(s[1])
        /\ s[1] = Head(s) /\ 1 \in DOMAIN s /\ s[1].at \in Waiting
    BY <1>1, StuckFacts
  <1>3. PICK i \in DOMAIN s : Pool \in Held(s[i])
    BY <1>1 DEF Holds
  <1>4. s[i].at \in Evicting
    BY <1>3 DEF Held, Evicting, Sock, TAG, Pool, Conn, SockTAG, Mutex
  <1>5. PICK l \in Wanted(s[1]), u \in S : Holds(u, l) /\ ~Holds(t, l)
    BY <1>1, StuckFacts
  <1>7. i # 1
    BY <1>2, <1>4 DEF Evicting, Waiting
  <1>8. DOMAIN s = 1..Len(s) /\ Len(s) \in Nat
    BY <1>2
  <1>9. s[1].at \notin Alone
    BY <1>2, <1>7, <1>8 DEF Shape
  <1>10. s[1].at # "offer"
    <2> SUFFICES ASSUME s[1].at = "offer" PROVE FALSE
      OBVIOUS
    <2>1. Len(s) = 2 /\ s[2].at = "sending"
      BY <1>2 DEF Shape, Frame
    <2>2. i = 2
      BY <1>7, <1>8, <2>1
    <2> QED
      BY <1>4, <2>1, <2>2 DEF Evicting
  <1>11. s[1].at # "unpool"
    BY <1>5 DEF Wanted
  <1>12. s[1].at \in {"release", "close"}
    BY <1>2, <1>9, <1>10, <1>11 DEF Alone, Waiting
  <1>13. CASE s[1].at = "release"
    BY <1>1, <1>2, <1>13 DEF FrameOk, On
  <1>14. CASE s[1].at = "close"
    <2>1. Holds(u, Sock(s[1].on))
      BY <1>5, <1>14 DEF Wanted
    <2>2. PICK j \in DOMAIN stack[u] : stack[u][j].at = "told" /\ stack[u][j].on = s[1].on
      BY <2>1, SockHolder
    <2>3. FrameOk(stack[u][j])
      BY StuckFacts
    <2>4. Dying(s[1].on)
      BY <2>2, <2>3 DEF FrameOk
    <2> QED
      BY <1>1, <1>2, <2>4 DEF On
  <1> QED
    BY <1>12, <1>13, <1>14

\* In a knot nobody holds the monitor of the pool.
NoPool(S) == Knot(S) /\ \A t \in S : ~Holds(t, Pool)

\* Without it a thread waits in a method of the socket, or of the connection; below
\* a release there is what told the listener, and then the first method.
LEMMA NoPoolFacts ==
  ASSUME BaseInv, NEW S, NoPool(S), NEW t \in S
  PROVE  /\ stack[t][1].at \in {"start", "send", "release", "cancel", "offer", "close",
                                "refused", "destroy"}
         /\ \A i \in DOMAIN stack[t] : i # 1 =>
              \/ i = 2 /\ stack[t][1].at \in {"offer", "close"}
                 /\ stack[t][2].at \in {"sending", "net"}
              \/ i = 2 /\ stack[t][1].at = "release"
                 /\ stack[t][2].at = "told" /\ stack[t][2].on = stack[t][1].on
              \/ i = 3 /\ stack[t][1].at = "release" /\ stack[t][3].at \in {"drain", "net"}
         /\ stack[t][1].at = "offer" => stack[t][2].on = stack[t][1].on
  <1>0. Knot(S)
    BY DEF NoPool
  <1>1. PICK s : s = stack[t]
    OBVIOUS
  <1>2. /\ s # <<>> /\ s \in Seq(FrameRec) /\ Shape(s) /\ 1 \in DOMAIN s
        /\ DOMAIN s = 1..Len(s) /\ Len(s) \in Nat /\ s[1].at \in Waiting
    BY <1>0, <1>1, StuckFacts
  <1>3. \A i \in DOMAIN s : s[i].at \notin Evicting
    BY <1>1 DEF NoPool, Holds, Held, Evicting
  <1>4. PICK l \in Wanted(s[1]), u \in S : Holds(u, l) /\ ~Holds(t, l)
    BY <1>0, <1>1, StuckFacts
  <1>5. s[1].at \in {"start", "send", "release", "cancel", "offer", "close", "refused",
                     "destroy"}
    BY <1>2, <1>4 DEF Wanted, Waiting, NoPool
  <1>6. s[1].at = "offer" => Len(s) = 2 /\ s[2].at = "sending" /\ s[2].on = s[1].on
    BY <1>2 DEF Shape, Frame
  <1>7. s[1].at = "close" => Len(s) = 2 /\ s[2].at = "net"
    <2> SUFFICES ASSUME s[1].at = "close" PROVE Len(s) = 2 /\ s[2].at = "net"
      OBVIOUS
    <2>1. 2 \in DOMAIN s /\ s[2].at \in {"add", "unpooled", "net"}
      BY <1>2 DEF Shape
    <2>2. s[2].at = "net"
      BY <1>3, <2>1 DEF Evicting
    <2> QED
      BY <1>2, <2>1, <2>2 DEF Shape, Bottom
  <1>8. s[1].at = "release" => \/ Len(s) = 1
                               \/ /\ Len(s) \in {2, 3} /\ s[2].at = "told" /\ s[2].on = s[1].on
                                  /\ Len(s) = 3 => s[3].at \in {"drain", "net"}
    <2> SUFFICES ASSUME s[1].at = "release", Len(s) # 1
                 PROVE  /\ Len(s) \in {2, 3} /\ s[2].at = "told" /\ s[2].on = s[1].on
                        /\ Len(s) = 3 => s[3].at \in {"drain", "net"}
      OBVIOUS
    <2>1. 2 \in DOMAIN s /\ s[2] = Frame("told", s[1].on)
      BY <1>2 DEF Shape
    <2>2. s[2].at = "told" /\ s[2].on = s[1].on
      BY <2>1 DEF Frame
    <2>3. CASE Len(s) = 2
      BY <2>2, <2>3
    <2>4. CASE Len(s) # 2
      <3>1. 3 \in DOMAIN s /\ 2 + 1 = 3
        BY <1>2, <2>1, <2>4
      <3>2. Tells(s[2], s[3])
        BY <1>2, <2>1, <2>2, <3>1 DEF Shape
      <3>3. s[3].at # "sending"
        <4> SUFFICES ASSUME s[3].at = "sending" PROVE FALSE
          OBVIOUS
        <4>1. s[3].on = s[1].on
          BY <2>2, <3>2 DEF Tells
        <4>2. Conn(s[1].on) \in Held(s[3])
          BY <4>1 DEF Held
        <4>3. l = Conn(s[1].on)
          BY <1>4 DEF Wanted
        <4> QED
          BY <1>1, <1>4, <3>1, <4>2, <4>3 DEF Holds
      <3>4. s[3].at \in {"drain", "net"}
        BY <1>3, <3>1, <3>2, <3>3 DEF Tells, Evicting
      <3>5. Len(s) = 3
        BY <1>2, <3>1, <3>4 DEF Shape, Bottom
      <3> QED
        BY <2>2, <3>4, <3>5
    <2> QED
      BY <2>3, <2>4
  <1>9. s[1].at \in Alone => Len(s) = 1
    BY <1>2 DEF Shape
  <1>10. ASSUME NEW i \in DOMAIN s, i # 1
         PROVE  \/ i = 2 /\ s[1].at \in {"offer", "close"} /\ s[2].at \in {"sending", "net"}
                \/ i = 2 /\ s[1].at = "release" /\ s[2].at = "told" /\ s[2].on = s[1].on
                \/ i = 3 /\ s[1].at = "release" /\ s[3].at \in {"drain", "net"}
    <2>1. Len(s) # 1 /\ i \in 1..Len(s)
      BY <1>2, <1>10
    <2>2. s[1].at \in {"offer", "close", "release"}
      BY <1>5, <1>9, <2>1 DEF Alone
    <2>3. CASE s[1].at = "offer"
      BY <1>6, <1>10, <2>1, <2>3
    <2>4. CASE s[1].at = "close"
      BY <1>7, <1>10, <2>1, <2>4
    <2>5. CASE s[1].at = "release"
      BY <1>8, <1>10, <2>1, <2>5
    <2> QED
      BY <2>2, <2>3, <2>4, <2>5
  <1> QED
    BY <1>1, <1>5, <1>6, <1>10

\* Then the monitor of a socket is held by a thread that tells a listener ...
LEMMA SockHeld ==
  ASSUME BaseInv, NEW S, NoPool(S), NEW t \in S, NEW k, Holds(t, Sock(k))
  PROVE  stack[t][1].at = "release" /\ stack[t][1].on = k /\ Dying(k)
  <1>0. Knot(S)
    BY DEF NoPool
  <1>1. PICK i \in DOMAIN stack[t] : stack[t][i].at = "told" /\ stack[t][i].on = k
    BY <1>0, SockHolder
  <1>2. i # 1
    BY <1>0, <1>1, StuckFacts DEF Waiting
  <1>3. stack[t][1].at = "release" /\ stack[t][1].on = k
    BY <1>1, <1>2, NoPoolFacts
  <1>4. FrameOk(stack[t][1])
    BY <1>0, StuckFacts
  <1> QED
    BY <1>3, <1>4 DEF FrameOk

\* ... and the monitor of a connection by one that sends.
LEMMA ConnHeld ==
  ASSUME BaseInv, NEW S, NoPool(S), NEW t \in S, NEW k, Holds(t, Conn(k))
  PROVE  stack[t][1].at = "offer" /\ stack[t][1].on = k
  <1>0. Knot(S)
    BY DEF NoPool
  <1>1. PICK i \in DOMAIN stack[t] : Conn(k) \in Held(stack[t][i])
    BY DEF Holds
  <1>2. PICK f : f = stack[t][i]
    OBVIOUS
  <1>3. f \in FrameRec
    BY <1>0, <1>2, StuckFacts
  <1>4. f.at \in {"cache", "sending", "unpool", "unpooled"} /\ f.on = k
    BY <1>1, <1>2, <1>3 DEF Held, FrameRec, Sock, TAG, Pool, Conn, SockTAG, Mutex
  <1>5. i # 1
    BY <1>2, <1>4, NoPoolFacts
  <1>6. i = 2 /\ f.at = "sending" /\ stack[t][1].at \in {"offer", "close"}
    BY <1>2, <1>4, <1>5, NoPoolFacts
  <1>7. stack[t][1].at = "close" => stack[t][2].at \in {"add", "unpooled", "net"}
    BY <1>0, StuckFacts DEF Shape
  <1> QED
    BY <1>2, <1>4, <1>6, <1>7, NoPoolFacts

\* Nobody waits for TAG: its holder would wait for the monitor of the pool.
LEMMA NobodyStarts ==
  ASSUME BaseInv, NEW S, NoPool(S), NEW t \in S
  PROVE  stack[t][1].at # "start"
  <1> SUFFICES ASSUME stack[t][1].at = "start" PROVE FALSE
    OBVIOUS
  <1>0. Knot(S)
    BY DEF NoPool
  <1>1. PICK u \in S : Holds(u, TAG)
    <2>1. Wanted(stack[t][1]) = {TAG}
      BY DEF Wanted
    <2> QED
      BY <1>0, <2>1, StuckFacts
  <1>2. PICK i \in DOMAIN stack[u] : TAG \in Held(stack[u][i])
    BY <1>1 DEF Holds
  <1>3. PICK f : f = stack[u][i]
    OBVIOUS
  <1>4. f.at \in {"get", "got", "put", "add"}
    BY <1>2, <1>3 DEF Held, Sock, TAG, Pool, Conn, SockTAG, Mutex
  <1> QED
    BY <1>3, <1>4, NoPoolFacts

\* Who waits for the monitor of a socket waits for a thread that tells its
\* listener, which waits for one that sends.
LEMMA SockKnot ==
  ASSUME BaseInv, NEW S, NoPool(S), NEW t \in S, Wanted(stack[t][1]) = {Sock(stack[t][1].on)}
  PROVE  SendStuck(S)
  <1>0. Knot(S)
    BY DEF NoPool
  <1>1. PICK k : k = stack[t][1].on
    OBVIOUS
  <1>2. PICK u \in S : Holds(u, Sock(k))
    BY <1>0, <1>1, StuckFacts
  <1>3. stack[u][1].at = "release" /\ stack[u][1].on = k /\ Dying(k)
    BY <1>2, SockHeld
  <1>4. PICK v \in S : Holds(v, Conn(k))
    <2>1. Wanted(stack[u][1]) = {Conn(k)}
      BY <1>3 DEF Wanted
    <2> QED
      BY <1>0, <2>1, StuckFacts
  <1>5. stack[v][1].at = "offer" /\ stack[v][1].on = k
    BY <1>4, ConnHeld
  <1>6. stack[u][1] = Head(stack[u]) /\ stack[v][1] = Head(stack[v])
    BY <1>0, StuckFacts
  <1> QED
    BY <1>2, <1>3, <1>4, <1>5, <1>6 DEF SendStuck, Place, On

\* Without the monitor of the pool the knot is one of a send.
LEMMA SendKnot ==
  ASSUME BaseInv, NEW S, NoPool(S)
  PROVE  SendStuck(S)
  <1>0. Knot(S)
    BY DEF NoPool
  <1>1. PICK t \in S : TRUE
    BY <1>0 DEF Knot, Stuck
  <1>2. \A u \in S : stack[u][1].at \in {"offer", "close", "refused", "destroy"} =>
          Wanted(stack[u][1]) = {Sock(stack[u][1].on)}
    BY DEF Wanted
  <1>3. CASE stack[t][1].at \in {"offer", "close", "refused", "destroy"}
    BY <1>2, <1>3, SockKnot
  <1>4. CASE stack[t][1].at \in {"send", "release", "cancel"}
    <2>1. Wanted(stack[t][1]) = {Conn(stack[t][1].on)}
      BY <1>4 DEF Wanted
    <2>2. PICK v \in S : Holds(v, Conn(stack[t][1].on))
      BY <1>0, <2>1, StuckFacts
    <2>3. stack[v][1].at = "offer"
      BY <2>2, ConnHeld
    <2> QED
      BY <1>2, <2>3, SockKnot
  <1> QED
    BY <1>3, <1>4, NoPoolFacts, NobodyStarts

\* Threads wait for each other for ever only in four ways: one of them holds the
\* monitor of the pool, in a method of a connection that comes to its end; a send
\* waits for the monitor of a socket whose holder tells the connection its end
\* (XConnection.kt:127, XRealWebSocket.kt:363); the writer waits for the native
\* mutex and an upcall holds it; an error upcall waits for the ping task.
THEOREM OnlyTheDyingAreStuck == Spec => []StuckOnlyWhenDying
  <1>1. BaseInv => StuckOnlyWhenDying
    <2> SUFFICES ASSUME BaseInv, NEW S \in SUBSET Blocked, Deadlocked(S)
                 PROVE  PoolStuck(S) \/ SendStuck(S) \/ MutexStuck(S) \/ PingStuck(S)
      BY DEF StuckOnlyWhenDying
    <2>1. Stuck(S)
      BY DEF Stuck, Deadlocked, Blocked
    <2>2. ASSUME NEW t \in S PROVE stack[t][1] = Head(stack[t])
      <3>1. t \in Threads /\ stack[t] # <<>>
        BY <2>1 DEF Stuck, Busy
      <3> QED
        BY <3>1, AtFacts DEF BaseInv
    <2>3. ASSUME NEW t \in S, stack[t][1].at = "native" PROVE MutexStuck(S)
      <3>1. PICK u \in S : Holds(u, Mutex)
        BY <2>1, <2>2, <2>3 DEF Stuck, Waits, Wanted
      <3> QED
        BY <2>2, <2>3, <3>1 DEF MutexStuck, Place
    <2>4. ASSUME NEW t \in S, stack[t][1].at = "error" PROVE PingStuck(S)
      <3>1. PICK u \in S : Holds(u, SockTAG)
        BY <2>1, <2>2, <2>4 DEF Stuck, Waits, Wanted
      <3> QED
        BY <2>2, <2>4, <3>1 DEF PingStuck, Place
    <2>5. CASE Knot(S)
      <3>1. CASE NoPool(S)
        BY <3>1, SendKnot
      <3>2. CASE ~NoPool(S)
        <4>1. PICK t \in S : Holds(t, Pool)
          BY <2>5, <3>2 DEF NoPool
        <4>2. Dying(On(t))
          BY <2>5, <4>1, PoolHolder
        <4> QED
          BY <4>1, <4>2 DEF PoolStuck
      <3> QED
        BY <3>1, <3>2
    <2> QED
      BY <2>1, <2>3, <2>4, <2>5 DEF Knot
  <1> QED
    BY <1>1, BaseInvariant, PTL
================================================================================
