-------------------------- MODULE EventEngineProofs --------------------------
(***************************************************************************)
(* The event engine for every calendar, every bound on orders and events,  *)
(* every price and fee, and every queue of events: a replay is exact, the  *)
(* ledger is the sum of the journal, orders end with their bar, no fill    *)
(* looks ahead and nothing but its halt follows a bankruptcy.              *)
(*                                                                         *)
(* The argument is about a journal J and the state s that it replays to,   *)
(* Facts(J, s), and not about the running engine: a fact that holds of the *)
(* empty journal and is kept by every accepted event holds of whatever the *)
(* journal contains, published or not, and the engine's own state is the   *)
(* replay of its journal for as long as it answers.                        *)
(***************************************************************************)
EXTENDS EventEngine, FiniteSetTheorems, TLAPS

-----------------------------------------------------------------------------
(* Folds over a sequence: what one more element does.                      *)

\* A set of natural numbers that is not empty has a smallest member.
LEMMA SmallestMember ==
  ASSUME NEW T \in SUBSET Nat, T # {}
  PROVE  \E n \in T : \A m \in T : n <= m
  <1>1. PICK n \in T : \A m \in T : ~(<<m, n>> \in OpToRel(<, Nat))
    BY NatLessThanWellFounded, WFMin
  <1>2. \A m \in T : <<m, n>> \in OpToRel(<, Nat) <=> m < n
    BY DEF OpToRel
  <1>3. n \in Nat /\ \A m \in T : m \in Nat
    OBVIOUS
  <1>4. \A m \in T : ~(m < n)
    BY <1>1, <1>2
  <1> QED
    BY <1>3, <1>4

\* The last number of a set that holds n and smaller ones.
LEMMA LargestIs ==
  ASSUME NEW n \in Nat, NEW s \in SUBSET (1..n), n \in s
  PROVE  Max(s) = n
  <1>1. \A y \in s : y \in Nat /\ n >= y
    OBVIOUS
  <1>2. \A x \in s : (\A y \in s : x >= y) => x = n
    BY <1>1
  <1> QED
    BY <1>1, <1>2 DEF Max

\* One unfolding of the replay of J over the subsets of its first n places.
ReplayStep(g, J, n) ==
    [s \in SUBSET (1..n) |->
       IF s = {} THEN Fresh ELSE Turn(g[s \ {Max(s)}], J[Max(s)])]

\* The replay of J can be unfolded over any number of its places.
LEMMA ReplaysExist ==
  ASSUME NEW J, NEW size \in Nat
  PROVE  \E g : g = ReplayStep(g, J, size)
  <1> DEFINE Bad == {n \in Nat : ~\E g : g = ReplayStep(g, J, n)}
  <1>1. Bad = {}
    <2> SUFFICES ASSUME Bad # {} PROVE FALSE
      OBVIOUS
    <2>1. PICK n \in Bad : \A m \in Bad : n <= m
      <3>1. Bad \in SUBSET Nat
        OBVIOUS
      <3> HIDE DEF Bad
      <3> QED
        BY <3>1, SmallestMember
    <2>2. n \in Nat /\ ~\E g : g = ReplayStep(g, J, n)
      BY <2>1
    <2>3. CASE n = 0
      <3> DEFINE g == [s \in SUBSET (1..0) |-> Fresh]
      <3>1. \A s \in SUBSET (1..0) : s = {}
        OBVIOUS
      <3>2. g = ReplayStep(g, J, 0)
        BY <3>1 DEF ReplayStep
      <3> QED
        BY <2>2, <2>3, <3>2
    <2>4. CASE n > 0
      <3>1. n - 1 \in Nat /\ n - 1 \notin Bad
        <4>1. n - 1 \in Nat /\ ~(n <= n - 1)
          BY <2>2, <2>4
        <4> HIDE DEF Bad
        <4> QED
          BY <2>1, <4>1
      <3>2. PICK g : g = ReplayStep(g, J, n - 1)
        BY <3>1
      <3> DEFINE h == [s \in SUBSET (1..n) |->
                         IF n \in s THEN Turn(g[s \ {n}], J[n]) ELSE g[s]]
      <3>3. ASSUME NEW s \in SUBSET (1..n)
            PROVE  h[s] = IF s = {} THEN Fresh ELSE Turn(h[s \ {Max(s)}], J[Max(s)])
        <4>1. CASE n \in s
          <5>1. Max(s) = n /\ s # {}
            BY <2>2, <4>1, LargestIs
          <5>2. s \ {n} \in SUBSET (1..n) /\ n \notin s \ {n}
            OBVIOUS
          <5>3. h[s \ {n}] = g[s \ {n}]
            BY <5>2
          <5>4. h[s] = Turn(g[s \ {n}], J[n])
            BY <4>1
          <5> HIDE DEF h
          <5> QED
            BY <5>1, <5>3, <5>4
        <4>2. CASE n \notin s
          <5>0. \A x \in 1..n : x # n => x \in 1..(n - 1)
            BY <2>2
          <5>1. s \in SUBSET (1..(n - 1)) /\ s \ {Max(s)} \in SUBSET (1..n)
                /\ n \notin s \ {Max(s)}
            BY <4>2, <5>0
          <5>2. g[s] = IF s = {} THEN Fresh ELSE Turn(g[s \ {Max(s)}], J[Max(s)])
            BY <3>2, <5>1 DEF ReplayStep
          <5>3. h[s] = g[s] /\ h[s \ {Max(s)}] = g[s \ {Max(s)}]
            BY <4>2, <5>1
          <5> HIDE DEF h
          <5> QED
            BY <5>2, <5>3
        <4> QED
          BY <4>1, <4>2
      <3>4. h = [s \in SUBSET (1..n) |-> h[s]]
        OBVIOUS
      <3>5. h = ReplayStep(h, J, n)
        <4> HIDE DEF h
        <4> QED
          BY <3>3, <3>4 DEF ReplayStep
      <3> QED
        BY <2>2, <3>5
    <2> QED
      BY <2>2, <2>3, <2>4
  <1> QED
    BY <1>1

\* A replay is a function of the prefixes of the journal.
LEMMA ReplayIsStepwise ==
  ASSUME NEW S, NEW J \in Seq(S)
  PROVE  \E g : /\ Replay(J) = g[1..Len(J)]
                /\ g[{}] = Fresh
                /\ \A n \in 1..Len(J) : g[1..n] = Turn(g[1..(n - 1)], J[n])
  <1> DEFINE g == CHOOSE x : x = ReplayStep(x, J, Len(J))
  <1>0. Len(J) \in Nat /\ DOMAIN J = 1..Len(J)
    OBVIOUS
  <1>1. g = ReplayStep(g, J, Len(J))
    BY <1>0, ReplaysExist
  <1>2. Replay(J) = g[1..Len(J)]
    <2>1. Replay(J) =
            (CHOOSE x : x = [s \in SUBSET DOMAIN J |->
                IF s = {} THEN Fresh ELSE Turn(x[s \ {Max(s)}], J[Max(s)])])[DOMAIN J]
      BY DEF Replay, FoldLeft, MapThenFoldSet
    <2> QED
      BY <1>0, <2>1 DEF ReplayStep
  <1> HIDE DEF g
  <1>3. g[{}] = Fresh
    BY <1>1 DEF ReplayStep
  <1>4. ASSUME NEW n \in 1..Len(J) PROVE g[1..n] = Turn(g[1..(n - 1)], J[n])
    <2>1. /\ n \in Nat /\ 1..n \in SUBSET (1..Len(J)) /\ 1..n \in SUBSET (1..n)
          /\ n \in 1..n /\ (1..n) \ {n} = 1..(n - 1)
      BY <1>0
    <2>2. Max(1..n) = n /\ 1..n # {}
      BY <2>1, LargestIs
    <2>3. g[1..n] = Turn(g[(1..n) \ {Max(1..n)}], J[Max(1..n)])
      BY <1>1, <2>1, <2>2 DEF ReplayStep
    <2> QED
      BY <2>1, <2>2, <2>3
  <1> QED
    BY <1>2, <1>3, <1>4

\* The replay of an empty journal is a fresh engine, and one more event is one more
\* turn (DeterministicEventEngine.replay).
LEMMA ReplayOfNothing == Replay(<<>>) = Fresh
  <1>1. <<>> \in Seq({}) /\ Len(<<>>) = 0 /\ 1..0 = {}
    OBVIOUS
  <1>2. PICK g : Replay(<<>>) = g[1..Len(<<>>)] /\ g[{}] = Fresh
    BY <1>1, ReplayIsStepwise
  <1> QED
    BY <1>1, <1>2

\* A journal with one event more replays to one turn more.
LEMMA ReplayOfOneMore ==
  ASSUME NEW S, NEW J \in Seq(S), NEW e \in S
  PROVE  Replay(Append(J, e)) = Turn(Replay(J), e)
  <1> DEFINE K == Append(J, e)
  <1>0. /\ K \in Seq(S) /\ Len(K) = Len(J) + 1 /\ Len(J) \in Nat
        /\ \A i \in 1..Len(J) : K[i] = J[i]
        /\ K[Len(J) + 1] = e
    OBVIOUS
  <1> HIDE DEF K
  <1>1. PICK g : /\ Replay(J) = g[1..Len(J)]
                 /\ g[{}] = Fresh
                 /\ \A n \in 1..Len(J) : g[1..n] = Turn(g[1..(n - 1)], J[n])
    BY ReplayIsStepwise
  <1>2. PICK h : /\ Replay(K) = h[1..Len(K)]
                 /\ h[{}] = Fresh
                 /\ \A n \in 1..Len(K) : h[1..n] = Turn(h[1..(n - 1)], K[n])
    BY <1>0, ReplayIsStepwise
  <1> DEFINE Bad == {n \in 0..Len(J) : h[1..n] # g[1..n]}
  <1>3. Bad = {}
    <2> SUFFICES ASSUME Bad # {} PROVE FALSE
      OBVIOUS
    <2>1. PICK n \in Bad : \A m \in Bad : n <= m
      <3>1. Bad \in SUBSET Nat
        OBVIOUS
      <3> HIDE DEF Bad
      <3> QED
        BY <3>1, SmallestMember
    <2>2. n \in 0..Len(J) /\ h[1..n] # g[1..n]
      BY <2>1
    <2>3. n # 0
      BY <1>1, <1>2, <2>2
    <2>4. /\ n \in 1..Len(J) /\ n \in 1..Len(K)
          /\ n - 1 \in 0..Len(J) /\ ~(n <= n - 1)
      BY <1>0, <2>2, <2>3
    <2>5. n - 1 \notin Bad
      <3> HIDE DEF Bad
      <3> QED
        BY <2>1, <2>4
    <2>6. h[1..(n - 1)] = g[1..(n - 1)]
      BY <2>4, <2>5
    <2> QED
      BY <1>0, <1>1, <1>2, <2>2, <2>4, <2>6
  <1>4. h[1..Len(J)] = g[1..Len(J)]
    BY <1>0, <1>3
  <1>5. Len(K) \in 1..Len(K) /\ Len(K) - 1 = Len(J)
    BY <1>0
  <1>6. h[1..Len(K)] = Turn(h[1..Len(J)], K[Len(K)])
    BY <1>2, <1>5
  <1> QED
    BY <1>0, <1>1, <1>2, <1>4, <1>6 DEF K

\* One unfolding of the sum of J over the subsets of its first n places.
SumStep(g, J, n) ==
    [s \in SUBSET (1..n) |->
       IF s = {} THEN 0 ELSE g[s \ {Max(s)}] + J[Max(s)]]

\* The sum of J can be unfolded over any number of its places.
LEMMA SumsExist ==
  ASSUME NEW J, NEW size \in Nat
  PROVE  \E g : g = SumStep(g, J, size)
  <1> DEFINE Bad == {n \in Nat : ~\E g : g = SumStep(g, J, n)}
  <1>1. Bad = {}
    <2> SUFFICES ASSUME Bad # {} PROVE FALSE
      OBVIOUS
    <2>1. PICK n \in Bad : \A m \in Bad : n <= m
      <3>1. Bad \in SUBSET Nat
        OBVIOUS
      <3> HIDE DEF Bad
      <3> QED
        BY <3>1, SmallestMember
    <2>2. n \in Nat /\ ~\E g : g = SumStep(g, J, n)
      BY <2>1
    <2>3. CASE n = 0
      <3> DEFINE g == [s \in SUBSET (1..0) |-> 0]
      <3>1. \A s \in SUBSET (1..0) : s = {}
        OBVIOUS
      <3>2. g = SumStep(g, J, 0)
        BY <3>1 DEF SumStep
      <3> QED
        BY <2>2, <2>3, <3>2
    <2>4. CASE n > 0
      <3>1. n - 1 \in Nat /\ n - 1 \notin Bad
        <4>1. n - 1 \in Nat /\ ~(n <= n - 1)
          BY <2>2, <2>4
        <4> HIDE DEF Bad
        <4> QED
          BY <2>1, <4>1
      <3>2. PICK g : g = SumStep(g, J, n - 1)
        BY <3>1
      <3> DEFINE h == [s \in SUBSET (1..n) |->
                         IF n \in s THEN g[s \ {n}] + J[n] ELSE g[s]]
      <3>3. ASSUME NEW s \in SUBSET (1..n)
            PROVE  h[s] = IF s = {} THEN 0 ELSE h[s \ {Max(s)}] + J[Max(s)]
        <4>1. CASE n \in s
          <5>1. Max(s) = n /\ s # {}
            BY <2>2, <4>1, LargestIs
          <5>2. s \ {n} \in SUBSET (1..n) /\ n \notin s \ {n}
            OBVIOUS
          <5>3. h[s \ {n}] = g[s \ {n}]
            BY <5>2
          <5>4. h[s] = g[s \ {n}] + J[n]
            BY <4>1
          <5> HIDE DEF h
          <5> QED
            BY <5>1, <5>3, <5>4
        <4>2. CASE n \notin s
          <5>0. \A x \in 1..n : x # n => x \in 1..(n - 1)
            BY <2>2
          <5>1. s \in SUBSET (1..(n - 1)) /\ s \ {Max(s)} \in SUBSET (1..n)
                /\ n \notin s \ {Max(s)}
            BY <4>2, <5>0
          <5>2. g[s] = IF s = {} THEN 0 ELSE g[s \ {Max(s)}] + J[Max(s)]
            BY <3>2, <5>1 DEF SumStep
          <5>3. h[s] = g[s] /\ h[s \ {Max(s)}] = g[s \ {Max(s)}]
            BY <4>2, <5>1
          <5> HIDE DEF h
          <5> QED
            BY <5>2, <5>3
        <4> QED
          BY <4>1, <4>2
      <3>4. h = [s \in SUBSET (1..n) |-> h[s]]
        OBVIOUS
      <3>5. h = SumStep(h, J, n)
        <4> HIDE DEF h
        <4> QED
          BY <3>3, <3>4 DEF SumStep
      <3> QED
        BY <2>2, <3>5
    <2> QED
      BY <2>2, <2>3, <2>4
  <1> QED
    BY <1>1

\* A sum is a function of the prefixes of the sequence.
LEMMA SumIsStepwise ==
  ASSUME NEW S, NEW J \in Seq(S)
  PROVE  \E g : /\ Sum(J) = g[1..Len(J)]
                /\ g[{}] = 0
                /\ \A n \in 1..Len(J) : g[1..n] = g[1..(n - 1)] + J[n]
  <1> DEFINE g == CHOOSE x : x = SumStep(x, J, Len(J))
  <1>0. Len(J) \in Nat /\ DOMAIN J = 1..Len(J)
    OBVIOUS
  <1>1. g = SumStep(g, J, Len(J))
    BY <1>0, SumsExist
  <1>2. Sum(J) = g[1..Len(J)]
    <2>1. Sum(J) =
            (CHOOSE x : x = [s \in SUBSET DOMAIN J |->
                IF s = {} THEN 0 ELSE x[s \ {Max(s)}] + J[Max(s)]])[DOMAIN J]
      BY DEF Sum, FoldLeft, MapThenFoldSet
    <2> QED
      BY <1>0, <2>1 DEF SumStep
  <1> HIDE DEF g
  <1>3. g[{}] = 0
    BY <1>1 DEF SumStep
  <1>4. ASSUME NEW n \in 1..Len(J) PROVE g[1..n] = g[1..(n - 1)] + J[n]
    <2>1. /\ n \in Nat /\ 1..n \in SUBSET (1..Len(J)) /\ 1..n \in SUBSET (1..n)
          /\ n \in 1..n /\ (1..n) \ {n} = 1..(n - 1)
      BY <1>0
    <2>2. Max(1..n) = n /\ 1..n # {}
      BY <2>1, LargestIs
    <2>3. g[1..n] = g[(1..n) \ {Max(1..n)}] + J[Max(1..n)]
      BY <1>1, <2>1, <2>2 DEF SumStep
    <2> QED
      BY <2>1, <2>2, <2>3
  <1> QED
    BY <1>2, <1>3, <1>4

\* Nothing adds up to 0, and one more term is added.
LEMMA SumOfNothing == Sum(<<>>) = 0
  <1>1. <<>> \in Seq({}) /\ Len(<<>>) = 0 /\ 1..0 = {}
    OBVIOUS
  <1>2. PICK g : Sum(<<>>) = g[1..Len(<<>>)] /\ g[{}] = 0
    BY <1>1, SumIsStepwise
  <1> QED
    BY <1>1, <1>2

\* One more term is added.
LEMMA SumOfOneMore ==
  ASSUME NEW S, NEW J \in Seq(S), NEW e \in S
  PROVE  Sum(Append(J, e)) = Sum(J) + e
  <1> DEFINE K == Append(J, e)
  <1>0. /\ K \in Seq(S) /\ Len(K) = Len(J) + 1 /\ Len(J) \in Nat
        /\ \A i \in 1..Len(J) : K[i] = J[i]
        /\ K[Len(J) + 1] = e
    OBVIOUS
  <1> HIDE DEF K
  <1>1. PICK g : /\ Sum(J) = g[1..Len(J)]
                 /\ g[{}] = 0
                 /\ \A n \in 1..Len(J) : g[1..n] = g[1..(n - 1)] + J[n]
    BY SumIsStepwise
  <1>2. PICK h : /\ Sum(K) = h[1..Len(K)]
                 /\ h[{}] = 0
                 /\ \A n \in 1..Len(K) : h[1..n] = h[1..(n - 1)] + K[n]
    BY <1>0, SumIsStepwise
  <1> DEFINE Bad == {n \in 0..Len(J) : h[1..n] # g[1..n]}
  <1>3. Bad = {}
    <2> SUFFICES ASSUME Bad # {} PROVE FALSE
      OBVIOUS
    <2>1. PICK n \in Bad : \A m \in Bad : n <= m
      <3>1. Bad \in SUBSET Nat
        OBVIOUS
      <3> HIDE DEF Bad
      <3> QED
        BY <3>1, SmallestMember
    <2>2. n \in 0..Len(J) /\ h[1..n] # g[1..n]
      BY <2>1
    <2>3. n # 0
      BY <1>1, <1>2, <2>2
    <2>4. /\ n \in 1..Len(J) /\ n \in 1..Len(K)
          /\ n - 1 \in 0..Len(J) /\ ~(n <= n - 1)
      BY <1>0, <2>2, <2>3
    <2>5. n - 1 \notin Bad
      <3> HIDE DEF Bad
      <3> QED
        BY <2>1, <2>4
    <2>6. h[1..(n - 1)] = g[1..(n - 1)]
      BY <2>4, <2>5
    <2> QED
      BY <1>0, <1>1, <1>2, <2>2, <2>4, <2>6
  <1>4. h[1..Len(J)] = g[1..Len(J)]
    BY <1>0, <1>3
  <1>5. Len(K) \in 1..Len(K) /\ Len(K) - 1 = Len(J)
    BY <1>0
  <1>6. h[1..Len(K)] = h[1..Len(J)] + K[Len(K)]
    BY <1>2, <1>5
  <1> QED
    BY <1>0, <1>1, <1>2, <1>4, <1>6 DEF K

\* A sum of integers is an integer.
LEMMA SumIsInteger ==
  ASSUME NEW J \in Seq(Int)
  PROVE  Sum(J) \in Int
  <1>0. Len(J) \in Nat
    OBVIOUS
  <1>1. PICK g : /\ Sum(J) = g[1..Len(J)]
                 /\ g[{}] = 0
                 /\ \A n \in 1..Len(J) : g[1..n] = g[1..(n - 1)] + J[n]
    BY SumIsStepwise
  <1> DEFINE Bad == {n \in 0..Len(J) : g[1..n] \notin Int}
  <1>2. Bad = {}
    <2> SUFFICES ASSUME Bad # {} PROVE FALSE
      OBVIOUS
    <2>1. PICK n \in Bad : \A m \in Bad : n <= m
      <3>1. Bad \in SUBSET Nat
        OBVIOUS
      <3> HIDE DEF Bad
      <3> QED
        BY <3>1, SmallestMember
    <2>2. n \in 0..Len(J) /\ g[1..n] \notin Int
      BY <2>1
    <2>3. n # 0
      BY <1>1, <2>2
    <2>4. n \in 1..Len(J) /\ n - 1 \in 0..Len(J) /\ ~(n <= n - 1)
      BY <1>0, <2>2, <2>3
    <2>5. n - 1 \notin Bad
      <3> HIDE DEF Bad
      <3> QED
        BY <2>1, <2>4
    <2>6. g[1..(n - 1)] \in Int /\ J[n] \in Int
      BY <2>4, <2>5
    <2> QED
      BY <1>1, <2>2, <2>4, <2>6
  <1>3. Len(J) \in 0..Len(J)
    BY <1>0
  <1> QED
    BY <1>1, <1>2, <1>3

-----------------------------------------------------------------------------
(* What is true of a journal J of accepted events and of the state s that  *)
(* it replays to.                                                          *)

Orders == [qty : Int, filled : Int, status : {"submitted", "accepted", "part", "filled",
           "rejected", "cancelled"}, bar : Bars]

Typed(s) ==
    /\ {s.cursor, s.cash, s.position, s.charges, s.worth, s.openPrice} \subseteq Int
    /\ s.cursor >= -1
    /\ s.openBar \in Bars \cup {-1} /\ s.closeBar \in Bars \cup {-1}
    /\ DOMAIN s.orders \subseteq Int
    /\ \A o \in DOMAIN s.orders : s.orders[o] \in Orders

\* The journal is in the order of its coordinates, and the reducer knows all of it.
Ordered(J, s) ==
    /\ \A i, k \in DOMAIN J : i < k => J[i].at < J[k].at
    /\ \A i \in DOMAIN J : J[i].at <= s.cursor
    /\ s.seen = {J[i] : i \in DOMAIN J}
    /\ \A i \in DOMAIN J : Identity(J[i]) \subseteq s.used

\* The open mark is never behind the close mark, nor ahead of the cursor.
Marked(s) ==
    /\ s.closeBar <= s.openBar
    /\ 100 * s.openBar <= s.cursor
    /\ s.closeBar >= 0 => 100 * s.closeBar + 60 <= s.cursor
    /\ OpenOrders(s) # {} => s.closeBar < s.openBar

Balanced(J, s) ==
    /\ s.cash = InitialCash - Sum([i \in DOMAIN J |-> Spent(J[i])])
    /\ s.position = Sum([i \in DOMAIN J |-> Bought(J[i])])
    /\ s.charges = Sum([i \in DOMAIN J |-> Fee(J[i])])
    /\ \A i, k \in DOMAIN J :
          J[i].kind = "fill" /\ J[k].kind = "fill" /\ J[i].id = J[k].id => i = k

\* What of order o was filled according to the journal.
Part(e, o)   == IF e.order = o THEN Bought(e) ELSE 0
Filled(J, o) == Sum([i \in DOMAIN J |-> Part(J[i], o)])

\* An order comes from a submission of its bar, and while it is open its bar is the
\* current one and has no charge and no close.
DayOrder(J, s, o) ==
    LET order == s.orders[o]
    IN  /\ \E i \in DOMAIN J :
              J[i].kind = "submit" /\ J[i].order = o /\ J[i].bar = order.bar
        /\ Filled(J, o) = order.filled
        /\ order.qty > 0 => 0 <= order.filled /\ order.filled <= order.qty
        /\ order.qty < 0 => order.qty <= order.filled /\ order.filled <= 0
        /\ order.qty # 0
        /\ o \in OpenOrders(s) =>
              /\ order.bar = s.openBar
              /\ \A i \in DOMAIN J : J[i].kind # "halt" => J[i].bar <= order.bar
              /\ \A i \in DOMAIN J : J[i].kind \in {"charge", "close"} => J[i].bar # order.bar

DayOrders(J, s) ==
    /\ \A o \in DOMAIN s.orders : DayOrder(J, s, o)
    /\ \A o \in Int \ DOMAIN s.orders : Filled(J, o) = 0

\* Every submission has its target, every target its signal, every fill its submission.
FromSignal(J, i) ==
    \E g \in DOMAIN J : J[g].kind = "signal" /\ J[g].at = J[i].cause /\ g < i
FromTarget(J, i) ==
    \E t \in DOMAIN J :
        J[t].kind = "target" /\ J[t].at = J[i].cause /\ t < i /\ J[t].amount = J[i].bar
FromSubmit(J, i) ==
    \E b \in DOMAIN J :
        J[b].kind = "submit" /\ J[b].order = J[i].order /\ J[b].bar = J[i].bar /\ b < i

Descends(J) ==
    \A i \in DOMAIN J :
        /\ J[i].kind = "target" => FromSignal(J, i)
        /\ J[i].kind = "submit" => FromTarget(J, i)
        /\ J[i].kind = "fill" => FromSubmit(J, i)

\* The last event tells whether the engine is halted or must halt.
Halts(J, s) ==
    Len(J) > 0 =>
        LET last == J[Len(J)]
        IN  /\ s.halted = (last.kind = "halt")
            /\ last.kind # "halt" /\ Bankrupt(s.worth) => s.due = last.at

\* The last two events, as the property says it of the journal.
Followed(J) ==
    Len(J) > 1 =>
        LET before == J[Len(J) - 1]
            last == J[Len(J)]
        IN  /\ before.kind # "halt"
            /\ Bankrupt(Replay(Front(J)).worth) => last.kind = "halt" /\ last.cause = before.at

Facts(J, s) ==
    /\ Typed(s) /\ Ordered(J, s) /\ Marked(s) /\ Balanced(J, s)
    /\ DayOrders(J, s) /\ Descends(J) /\ Halts(J, s) /\ Followed(J)

EngineInv ==
    /\ journal \in Seq(Events) /\ pending \subseteq Events
    /\ mode \in {"live", "poisoned"}
    /\ mode = "live" => state = Replay(journal)
    /\ Facts(journal, Replay(journal))

-----------------------------------------------------------------------------
(* Events, journals with one event more, and what an event publishes.      *)

\* The kinds and their phases.
LEMMA Phases ==
  /\ DOMAIN PhaseOf = {"open", "submit", "accept", "reject", "fill", "cancel", "charge",
                       "close", "signal", "target", "halt"}
  /\ PhaseOf["open"] = 10 /\ PhaseOf["submit"] = 20 /\ PhaseOf["accept"] = 30
  /\ PhaseOf["reject"] = 30 /\ PhaseOf["fill"] = 30 /\ PhaseOf["cancel"] = 40
  /\ PhaseOf["charge"] = 50 /\ PhaseOf["close"] = 60 /\ PhaseOf["signal"] = 70
  /\ PhaseOf["target"] = 80 /\ PhaseOf["halt"] = 90
  BY DEF PhaseOf

\* An event's coordinate tells its bar, and its phase within the bar.
LEMMA EventFacts ==
  ASSUME NEW e \in Events
  PROVE  /\ e.kind \in DOMAIN PhaseOf /\ e.bar \in Bars /\ e.bar \in Nat
         /\ {e.at, e.cause, e.order, e.id, e.amount, e.holdings, e.price, e.ref, e.fee}
              \subseteq Int
         /\ PhaseOf[e.kind] \in 10..90
         /\ 100 * e.bar + PhaseOf[e.kind] <= e.at
         /\ e.at <= 100 * e.bar + PhaseOf[e.kind] + 9
         /\ e.kind = "submit" => e.amount # 0
         /\ e.kind = "target" => e.amount > e.bar
  <1>1. /\ e.kind \in DOMAIN PhaseOf /\ e.bar \in Bars /\ e.bar \in Nat
        /\ {e.at, e.cause, e.order, e.id, e.amount, e.holdings, e.price, e.ref, e.fee}
             \subseteq Int
        /\ e.kind = "submit" => e.amount # 0
        /\ e.kind = "target" => e.amount > e.bar
    BY EngineAssumption DEF Events
  <1>2. PICK n \in 0..MaxOrdinal : e.at = At(e.kind, e.bar, n)
    BY DEF Events
  <1>3. PhaseOf[e.kind] \in 10..90
    BY <1>1, Phases
  <1>4. n \in Nat /\ n <= 9
    BY <1>2, EngineAssumption
  <1> QED
    BY <1>1, <1>2, <1>3, <1>4 DEF At

\* A journal with one event more.
LEMMA OneMore ==
  ASSUME NEW J \in Seq(Events), NEW e \in Events
  PROVE  /\ Append(J, e) \in Seq(Events)
         /\ Len(J) \in Nat /\ Len(Append(J, e)) = Len(J) + 1
         /\ DOMAIN J = 1..Len(J)
         /\ DOMAIN Append(J, e) = DOMAIN J \cup {Len(J) + 1}
         /\ \A i \in DOMAIN J : Append(J, e)[i] = J[i] /\ J[i] \in Events /\ i < Len(J) + 1
         /\ Append(J, e)[Len(J) + 1] = e
         /\ Len(J) + 1 \notin DOMAIN J
         /\ Front(Append(J, e)) = J
  <1>1. /\ Append(J, e) \in Seq(Events)
        /\ Len(J) \in Nat /\ Len(Append(J, e)) = Len(J) + 1
        /\ DOMAIN J = 1..Len(J)
        /\ \A i \in DOMAIN J : Append(J, e)[i] = J[i] /\ J[i] \in Events
        /\ Append(J, e)[Len(J) + 1] = e
    OBVIOUS
  <1>2. DOMAIN Append(J, e) = 1..(Len(J) + 1)
    BY <1>1
  <1>3. /\ DOMAIN Append(J, e) = DOMAIN J \cup {Len(J) + 1}
        /\ \A i \in DOMAIN J : i < Len(J) + 1
        /\ Len(J) + 1 \notin DOMAIN J
    BY <1>1, <1>2
  <1>4. Front(Append(J, e)) = J
    BY <1>1 DEF Front
  <1> QED
    BY <1>1, <1>3, <1>4

\* Sums of integers over a journal with one event more.
LEMMA SumOfTerms ==
  ASSUME NEW N \in Nat, NEW f \in [1..N -> Int], NEW g \in [1..(N + 1) -> Int],
         \A i \in 1..N : g[i] = f[i]
  PROVE  Sum(g) = Sum(f) + g[N + 1] /\ Sum(f) \in Int
  <1>1. f \in Seq(Int) /\ Len(f) = N
    OBVIOUS
  <1>2. g = Append(f, g[N + 1])
    <2>1. g \in Seq(Int) /\ Len(g) = N + 1 /\ g[N + 1] \in Int
      OBVIOUS
    <2>2. Append(f, g[N + 1]) \in Seq(Int) /\ Len(Append(f, g[N + 1])) = N + 1
      BY <1>1, <2>1
    <2>3. \A i \in 1..(N + 1) : g[i] = Append(f, g[N + 1])[i]
      BY <1>1, <2>1
    <2> QED
      BY <2>1, <2>2, <2>3
  <1>3. g[N + 1] \in Int
    OBVIOUS
  <1>4. Sum(Append(f, g[N + 1])) = Sum(f) + g[N + 1]
    BY <1>1, <1>3, SumOfOneMore
  <1> QED
    BY <1>1, <1>2, <1>4, SumIsInteger

\* What the terms of an event add up to.
LEMMA TermsAreIntegers ==
  ASSUME NEW e \in Events
  PROVE  /\ Fee(e) \in Int /\ Bought(e) \in Int /\ Spent(e) \in Int
         /\ \A o : Part(e, o) \in Int
  <1>1. e.fee \in Int /\ e.amount \in Int /\ e.price \in Int
    BY EventFacts
  <1>2. Fee(e) \in Int /\ Bought(e) \in Int
    BY <1>1 DEF Fee, Bought
  <1>3. Spent(e) \in Int
    BY <1>1, <1>2 DEF Spent
  <1> QED
    BY <1>2, <1>3 DEF Part

\* What is published of an accepted event: the journal's side of the state, ...
LEMMA PublishedSeen ==
  ASSUME NEW s, NEW e
  PROVE  /\ Publish(s, e).seen = s.seen \cup {e}
         /\ Publish(s, e).cursor = e.at
         /\ Publish(s, e).used = s.used \cup Identity(e)
  BY DEF Publish

\* ... the ledger, ...
LEMMA PublishedLedger ==
  ASSUME NEW s, NEW e
  PROVE  /\ Publish(s, e).cash = Cash(s, e)
         /\ Publish(s, e).position = Position(s, e)
         /\ Publish(s, e).worth = Worth(s, e)
  BY DEF Publish

\* ... its charges, ...
LEMMA PublishedCharges ==
  ASSUME NEW s, NEW e, s.charges \in Int, e.fee \in Int, e.amount \in Int
  PROVE  Publish(s, e).charges = s.charges + Fee(e)
  <1>1. CASE e.kind = "fill"
    BY <1>1 DEF Publish, Fee
  <1>2. CASE e.kind = "charge"
    BY <1>2 DEF Publish, Fee
  <1>3. CASE e.kind \notin {"fill", "charge"}
    <2>1. Publish(s, e).charges = s.charges /\ Fee(e) = 0
      BY <1>3 DEF Publish, Fee
    <2> QED
      BY <2>1
  <1> QED
    BY <1>1, <1>2, <1>3

\* ... the marks, ...
LEMMA PublishedMarks ==
  ASSUME NEW s, NEW e
  PROVE  /\ e.kind = "open" => Publish(s, e).openBar = e.bar /\ Publish(s, e).openPrice = e.price
         /\ e.kind # "open" => /\ Publish(s, e).openBar = s.openBar
                               /\ Publish(s, e).openPrice = s.openPrice
         /\ e.kind = "close" => Publish(s, e).closeBar = e.bar
         /\ e.kind # "close" => Publish(s, e).closeBar = s.closeBar
  BY DEF Publish

\* ... the halts, ...
LEMMA PublishedHalt ==
  ASSUME NEW s, NEW e
  PROVE  /\ Publish(s, e).halted = (e.kind = "halt")
         /\ e.kind # "halt" /\ Bankrupt(Worth(s, e)) => Publish(s, e).due = e.at
  <1>1. Publish(s, e).halted = (e.kind = "halt")
    BY DEF Publish
  <1>2. e.kind # "halt" /\ Bankrupt(Worth(s, e)) => Publish(s, e).due = e.at
    BY DEF Publish
  <1> QED
    BY <1>1, <1>2

\* ... and the orders.
LEMMA PublishedOrders ==
  ASSUME NEW s, NEW e, e.kind \in OfOrder \cup {"submit"}
  PROVE  /\ DOMAIN Publish(s, e).orders = DOMAIN s.orders \cup {e.order}
         /\ Publish(s, e).orders[e.order] = OrderAfter(s, e)
         /\ \A o \in DOMAIN s.orders : o # e.order => Publish(s, e).orders[o] = s.orders[o]
  <1>1. Publish(s, e).orders = [o \in DOMAIN s.orders \cup {e.order} |->
                                  IF o = e.order THEN OrderAfter(s, e) ELSE s.orders[o]]
    BY DEF Publish
  <1> QED
    BY <1>1

\* A kind that has no order leaves the orders, and with them the open ones.
LEMMA OrdersKept ==
  ASSUME NEW s, NEW e, e.kind \notin OfOrder \cup {"submit"}
  PROVE  Publish(s, e).orders = s.orders /\ OpenOrders(Publish(s, e)) = OpenOrders(s)
  BY DEF Publish, OpenOrders

\* A submission makes a new order.
LEMMA OrderMade ==
  ASSUME NEW s, Typed(s), NEW e \in Events, e.kind = "submit", Accepts(s, e)
  PROVE  LET t == Publish(s, e)
         IN  /\ e.order \notin DOMAIN s.orders
             /\ DOMAIN t.orders = DOMAIN s.orders \cup {e.order}
             /\ \A o \in DOMAIN s.orders : t.orders[o] = s.orders[o]
             /\ t.orders[e.order] \in Orders
             /\ t.orders[e.order].qty = e.amount /\ t.orders[e.order].filled = 0
             /\ t.orders[e.order].bar = e.bar /\ e.bar = s.openBar
             /\ t.orders[e.order].status = "submitted"
  <1> DEFINE t == Publish(s, e)
  <1>1. e.order \notin DOMAIN s.orders /\ s.openBar = e.bar
    BY DEF Accepts, Planned
  <1>2. /\ DOMAIN t.orders = DOMAIN s.orders \cup {e.order}
        /\ t.orders[e.order] = OrderAfter(s, e)
        /\ \A o \in DOMAIN s.orders : o # e.order => t.orders[o] = s.orders[o]
    BY PublishedOrders
  <1>3. OrderAfter(s, e) =
          [qty |-> e.amount, filled |-> 0, status |-> "submitted", bar |-> e.bar]
    BY DEF OrderAfter
  <1>4. e.amount \in Int /\ e.bar \in Bars
    BY EventFacts
  <1>5. OrderAfter(s, e) \in Orders
    BY <1>3, <1>4 DEF Orders
  <1> HIDE DEF t
  <1> QED
    BY <1>1, <1>2, <1>3, <1>5 DEF t

\* The other order events change one order of the bar that is open.
LEMMA OrderMoved ==
  ASSUME NEW s, Typed(s), NEW e \in Events, e.kind \in OfOrder, Accepts(s, e)
  PROVE  LET t == Publish(s, e)
             old == s.orders[e.order]
             new == t.orders[e.order]
         IN  /\ e.order \in OpenOrders(s) /\ e.order \in DOMAIN s.orders
             /\ DOMAIN t.orders = DOMAIN s.orders
             /\ \A o \in DOMAIN s.orders : o # e.order => t.orders[o] = s.orders[o]
             /\ new \in Orders /\ new.qty = old.qty /\ new.bar = old.bar /\ old.bar = e.bar
             /\ new.filled = old.filled + Bought(e)
             /\ e.kind = "fill" =>
                  \/ old.qty - old.filled > 0 /\ e.amount \in 1..(old.qty - old.filled)
                  \/ old.qty - old.filled <= 0 /\ -e.amount \in 1..(-(old.qty - old.filled))
  <1> DEFINE t == Publish(s, e)
  <1> DEFINE old == s.orders[e.order]
  <1>1. /\ e.order \in DOMAIN s.orders /\ old.bar = e.bar
        /\ old.status \in {"submitted", "accepted", "part"}
        /\ e.kind = "fill" => WithinResidual(e.amount, Residual(old))
    BY DEF Accepts, Planned, InStatus, OfOrder
  <1>2. e.order \in OpenOrders(s)
    BY <1>1 DEF OpenOrders
  <1>3. /\ DOMAIN t.orders = DOMAIN s.orders \cup {e.order}
        /\ t.orders[e.order] = OrderAfter(s, e)
        /\ \A o \in DOMAIN s.orders : o # e.order => t.orders[o] = s.orders[o]
    BY PublishedOrders
  <1>4. old \in Orders /\ old.filled \in Int /\ old.qty \in Int /\ e.amount \in Int
    BY <1>1, EventFacts DEF Typed, Orders
  <1>5. /\ OrderAfter(s, e) \in Orders
        /\ OrderAfter(s, e).qty = old.qty /\ OrderAfter(s, e).bar = old.bar
        /\ OrderAfter(s, e).filled = old.filled + Bought(e)
    <2>1. CASE e.kind = "fill"
      <3> DEFINE n == old.filled + e.amount
      <3> DEFINE st == IF n = old.qty THEN "filled" ELSE "part"
      <3>1. OrderAfter(s, e) = [old EXCEPT !.filled = n, !.status = st]
        BY <2>1 DEF OrderAfter
      <3>2. n \in Int /\ st \in {"filled", "part"} /\ Bought(e) = e.amount
        BY <1>4, <2>1 DEF Bought
      <3> HIDE DEF st
      <3> QED
        BY <1>4, <3>1, <3>2 DEF Orders
    <2>2. CASE e.kind # "fill"
      <3>1. PICK st \in {"accepted", "rejected", "cancelled"} :
               OrderAfter(s, e) = [old EXCEPT !.status = st]
        BY <2>2 DEF OrderAfter, OfOrder
      <3>2. Bought(e) = 0
        BY <2>2 DEF Bought
      <3> QED
        BY <1>4, <3>1, <3>2 DEF Orders
    <2> QED
      BY <2>1, <2>2
  <1>6. e.kind = "fill" =>
          \/ old.qty - old.filled > 0 /\ e.amount \in 1..(old.qty - old.filled)
          \/ old.qty - old.filled <= 0 /\ -e.amount \in 1..(-(old.qty - old.filled))
    BY <1>1, <1>4 DEF WithinResidual, Residual
  <1> HIDE DEF t
  <1>7. /\ DOMAIN t.orders = DOMAIN s.orders
        /\ \A o \in DOMAIN s.orders : o # e.order => t.orders[o] = s.orders[o]
        /\ t.orders[e.order] = OrderAfter(s, e)
    BY <1>1, <1>3
  <1> QED
    BY <1>1, <1>2, <1>5, <1>6, <1>7 DEF t

\* The reducer's state keeps its types.
LEMMA TypedStep ==
  ASSUME NEW s, Typed(s), NEW e \in Events, Accepts(s, e)
  PROVE  Typed(Publish(s, e))
  <1> DEFINE t == Publish(s, e)
  <1>1. /\ {s.cursor, s.cash, s.position, s.charges, s.worth, s.openPrice} \subseteq Int
        /\ {e.at, e.price, e.amount, e.fee} \subseteq Int
        /\ e.at > s.cursor /\ s.cursor >= -1 /\ e.bar \in Bars /\ e.order \in Int
    BY EventFacts DEF Typed, Accepts
  <1>2. t.cash \in Int /\ t.position \in Int /\ t.charges \in Int
    <2>1. Cash(s, e) \in Int /\ Position(s, e) \in Int
      BY <1>1 DEF Cash, Position
    <2>2. Fee(e) \in Int
      BY TermsAreIntegers
    <2> QED
      BY <1>1, <2>1, <2>2, PublishedLedger, PublishedCharges
  <1>3. t.worth \in Int
    <2>1. Cash(s, e) \in Int /\ Position(s, e) \in Int
      BY <1>1 DEF Cash, Position
    <2> QED
      BY <1>1, <2>1, PublishedLedger DEF Worth
  <1>4. t.openPrice \in Int /\ t.cursor \in Int /\ t.cursor >= -1
    BY <1>1, PublishedMarks, PublishedSeen
  <1>5. t.openBar \in Bars \cup {-1} /\ t.closeBar \in Bars \cup {-1}
    BY <1>1, PublishedMarks DEF Typed
  <1>6. DOMAIN t.orders \subseteq Int /\ \A o \in DOMAIN t.orders : t.orders[o] \in Orders
    <2>1. CASE e.kind = "submit"
      BY <1>1, <2>1, OrderMade DEF Typed
    <2>2. CASE e.kind \in OfOrder
      BY <1>1, <2>2, OrderMoved DEF Typed
    <2>3. CASE e.kind \notin OfOrder \cup {"submit"}
      BY <2>3, OrdersKept DEF Typed
    <2> QED
      BY <2>1, <2>2, <2>3
  <1> HIDE DEF t
  <1>7. Typed(t)
    BY <1>2, <1>3, <1>4, <1>5, <1>6 DEF Typed
  <1> QED
    BY <1>7 DEF t

\* The journal stays in order, and the reducer knows all of it.
LEMMA OrderedStep ==
  ASSUME NEW J \in Seq(Events), NEW s, Typed(s), Ordered(J, s), NEW e \in Events,
         Accepts(s, e)
  PROVE  Ordered(Append(J, e), Publish(s, e))
  <1> DEFINE K == Append(J, e)
  <1> DEFINE t == Publish(s, e)
  <1>1. /\ DOMAIN K = DOMAIN J \cup {Len(J) + 1}
        /\ \A i \in DOMAIN J : K[i] = J[i] /\ i \in Nat /\ i < Len(J) + 1 /\ J[i].at \in Int
        /\ K[Len(J) + 1] = e /\ Len(J) + 1 \in Nat
    BY OneMore, EventFacts
  <1>2. e.at > s.cursor /\ e.at \in Int /\ s.cursor \in Int
    BY EventFacts DEF Accepts, Typed
  <1>3. t.cursor = e.at /\ t.seen = s.seen \cup {e} /\ t.used = s.used \cup Identity(e)
    BY PublishedSeen
  <1> HIDE DEF K, t
  <1>4. \A i \in DOMAIN J : J[i].at < e.at
    BY <1>1, <1>2 DEF Ordered
  <1>5. \A i, k \in DOMAIN K : i < k => K[i].at < K[k].at
    BY <1>1, <1>4 DEF Ordered
  <1>6. \A i \in DOMAIN K : K[i].at <= t.cursor
    BY <1>1, <1>2, <1>3, <1>4
  <1>7. t.seen = {K[i] : i \in DOMAIN K}
    BY <1>1, <1>3 DEF Ordered
  <1>8. \A i \in DOMAIN K : Identity(K[i]) \subseteq t.used
    BY <1>1, <1>3 DEF Ordered
  <1>9. Ordered(K, t)
    BY <1>5, <1>6, <1>7, <1>8 DEF Ordered
  <1> QED
    BY <1>9 DEF K, t

\* The marks stay in their order: what opens a bar comes before what closes it, and no
\* order is submitted to a bar that is closed.
LEMMA MarkedStep ==
  ASSUME NEW s, Typed(s), Marked(s), NEW e \in Events, Accepts(s, e)
  PROVE  Marked(Publish(s, e))
  <1> DEFINE t == Publish(s, e)
  <1>1. /\ s.cursor \in Int /\ s.openBar \in Int /\ s.closeBar \in Int
        /\ e.at \in Int /\ e.bar \in Nat /\ e.at > s.cursor
        /\ 100 * e.bar + PhaseOf[e.kind] <= e.at
        /\ e.at <= 100 * e.bar + PhaseOf[e.kind] + 9
    <2>1. s.openBar \in Int /\ s.closeBar \in Int
      <3>1. Bars \cup {-1} \subseteq Int
        BY EngineAssumption
      <3> QED
        BY <3>1 DEF Typed
    <2> QED
      BY <2>1, EventFacts DEF Typed, Accepts
  <1>2. /\ s.closeBar <= s.openBar /\ 100 * s.openBar <= s.cursor
        /\ s.closeBar >= 0 => 100 * s.closeBar + 60 <= s.cursor
        /\ OpenOrders(s) # {} => s.closeBar < s.openBar
    BY DEF Marked
  <1>3. t.cursor = e.at
    BY PublishedSeen
  <1>4. CASE e.kind = "open"
    <2>1. t.openBar = e.bar /\ t.closeBar = s.closeBar /\ s.openBar # e.bar
      BY <1>4, PublishedMarks DEF Accepts, Planned
    <2>2. PhaseOf[e.kind] = 10
      BY <1>4, Phases
    <2>3. s.closeBar < e.bar /\ 100 * e.bar <= e.at
      BY <1>1, <1>2, <2>1, <2>2
    <2> HIDE DEF t
    <2> QED
      BY <1>1, <1>2, <1>3, <2>1, <2>3 DEF Marked, t
  <1>5. CASE e.kind = "close"
    <2>1. t.closeBar = e.bar /\ t.openBar = s.openBar /\ s.openBar = e.bar /\ OpenOrders(s) = {}
      BY <1>5, PublishedMarks DEF Accepts, Planned
    <2>2. PhaseOf[e.kind] = 60
      BY <1>5, Phases
    <2>3. OpenOrders(t) = {}
      BY <1>5, <2>1, OrdersKept DEF OfOrder
    <2> HIDE DEF t
    <2> QED
      BY <1>1, <1>2, <1>3, <2>1, <2>2, <2>3 DEF Marked, t
  <1>6. CASE e.kind = "submit"
    <2>1. t.closeBar = s.closeBar /\ t.openBar = s.openBar /\ s.openBar = e.bar
      BY <1>6, PublishedMarks DEF Accepts, Planned
    <2>2. PhaseOf[e.kind] = 20
      BY <1>6, Phases
    <2>3. s.closeBar < e.bar
      BY <1>1, <1>2, <2>1, <2>2
    <2> HIDE DEF t
    <2> QED
      BY <1>1, <1>2, <1>3, <2>1, <2>3 DEF Marked, t
  <1>7. CASE e.kind \notin {"open", "close", "submit"}
    <2>1. t.closeBar = s.closeBar /\ t.openBar = s.openBar
      BY <1>7, PublishedMarks
    <2>2. OpenOrders(t) # {} => OpenOrders(s) # {}
      <3>1. CASE e.kind \in OfOrder
        BY <3>1, OrderMoved
      <3>2. CASE e.kind \notin OfOrder
        BY <1>7, <3>2, OrdersKept
      <3> QED
        BY <3>1, <3>2
    <2> HIDE DEF t
    <2> QED
      BY <1>1, <1>2, <1>3, <2>1, <2>2 DEF Marked, t
  <1> QED
    BY <1>4, <1>5, <1>6, <1>7

\* The ledger adds what the event spends, buys and charges, and a fill's identity is new.
LEMMA BalancedStep ==
  ASSUME NEW J \in Seq(Events), NEW s, Typed(s), Ordered(J, s), Balanced(J, s),
         NEW e \in Events, Accepts(s, e)
  PROVE  Balanced(Append(J, e), Publish(s, e))
  <1> DEFINE K == Append(J, e)
  <1> DEFINE t == Publish(s, e)
  <1> DEFINE n == Len(J)
  <1>1. /\ K \in Seq(Events) /\ n \in Nat /\ DOMAIN J = 1..n /\ DOMAIN K = 1..(n + 1)
        /\ \A i \in 1..n : K[i] = J[i] /\ J[i] \in Events
        /\ K[n + 1] = e
    BY OneMore
  <1>2. \A i \in 1..(n + 1) : K[i] \in Events
    BY <1>1
  <1>3. /\ {s.cash, s.position, s.charges} \subseteq Int
        /\ {e.amount, e.price, e.fee} \subseteq Int
    BY EventFacts DEF Typed
  <1>4. t.cash = s.cash - Spent(e)
    <2>1. Cash(s, e) = s.cash - Spent(e)
      <3>1. CASE e.kind = "fill"
        BY <1>3, <3>1 DEF Cash, Spent, Bought, Fee
      <3>2. CASE e.kind = "charge"
        <4>1. Bought(e) = 0 /\ Fee(e) = e.amount
          BY <3>2 DEF Bought, Fee
        <4>2. Spent(e) = e.amount
          BY <1>3, <4>1 DEF Spent
        <4> QED
          BY <3>2, <4>2 DEF Cash
      <3>3. CASE e.kind \notin {"fill", "charge"}
        <4>1. Bought(e) = 0 /\ Fee(e) = 0
          BY <3>3 DEF Bought, Fee
        <4>2. Spent(e) = 0
          BY <1>3, <4>1 DEF Spent
        <4>3. Cash(s, e) = s.cash
          BY <3>3 DEF Cash
        <4> QED
          BY <1>3, <4>2, <4>3
      <3> QED
        BY <3>1, <3>2, <3>3
    <2> QED
      BY <2>1, PublishedLedger
  <1>5. t.position = s.position + Bought(e)
    <2>1. Position(s, e) = s.position + Bought(e)
      BY <1>3 DEF Position, Bought
    <2> QED
      BY <2>1, PublishedLedger
  <1>6. t.charges = s.charges + Fee(e)
    BY <1>3, PublishedCharges
  <1>7. Sum([i \in DOMAIN K |-> Spent(K[i])]) = Sum([i \in DOMAIN J |-> Spent(J[i])]) + Spent(e)
    <2> DEFINE f == [i \in 1..n |-> Spent(J[i])]
    <2> DEFINE g == [i \in 1..(n + 1) |-> Spent(K[i])]
    <2>1. f \in [1..n -> Int] /\ g \in [1..(n + 1) -> Int]
      BY <1>1, <1>2, TermsAreIntegers
    <2>2. \A i \in 1..n : g[i] = f[i]
      BY <1>1
    <2>3. g[n + 1] = Spent(e)
      BY <1>1
    <2> HIDE DEF f, g, K, n
    <2>4. Sum(g) = Sum(f) + Spent(e)
      BY <1>1, <2>1, <2>2, <2>3, SumOfTerms
    <2> QED
      BY <1>1, <2>4 DEF f, g
  <1>8. Sum([i \in DOMAIN K |-> Bought(K[i])]) =
           Sum([i \in DOMAIN J |-> Bought(J[i])]) + Bought(e)
    <2> DEFINE f == [i \in 1..n |-> Bought(J[i])]
    <2> DEFINE g == [i \in 1..(n + 1) |-> Bought(K[i])]
    <2>1. f \in [1..n -> Int] /\ g \in [1..(n + 1) -> Int]
      BY <1>1, <1>2, TermsAreIntegers
    <2>2. \A i \in 1..n : g[i] = f[i]
      BY <1>1
    <2>3. g[n + 1] = Bought(e)
      BY <1>1
    <2> HIDE DEF f, g, K, n
    <2>4. Sum(g) = Sum(f) + Bought(e)
      BY <1>1, <2>1, <2>2, <2>3, SumOfTerms
    <2> QED
      BY <1>1, <2>4 DEF f, g
  <1>9. Sum([i \in DOMAIN K |-> Fee(K[i])]) = Sum([i \in DOMAIN J |-> Fee(J[i])]) + Fee(e)
    <2> DEFINE f == [i \in 1..n |-> Fee(J[i])]
    <2> DEFINE g == [i \in 1..(n + 1) |-> Fee(K[i])]
    <2>1. f \in [1..n -> Int] /\ g \in [1..(n + 1) -> Int]
      BY <1>1, <1>2, TermsAreIntegers
    <2>2. \A i \in 1..n : g[i] = f[i]
      BY <1>1
    <2>3. g[n + 1] = Fee(e)
      BY <1>1
    <2> HIDE DEF f, g, K, n
    <2>4. Sum(g) = Sum(f) + Fee(e)
      BY <1>1, <2>1, <2>2, <2>3, SumOfTerms
    <2> QED
      BY <1>1, <2>4 DEF f, g
  <1>10. \A i, k \in DOMAIN K :
            K[i].kind = "fill" /\ K[k].kind = "fill" /\ K[i].id = K[k].id => i = k
    <2>1. \A i \in 1..n : K[i].kind = "fill" /\ e.kind = "fill" => K[i].id # e.id
      <3> SUFFICES ASSUME NEW i \in 1..n, J[i].kind = "fill", e.kind = "fill", J[i].id = e.id
                   PROVE  FALSE
        BY <1>1
      <3>1. <<"fill", e.id>> \in Identity(J[i]) /\ <<"fill", e.id>> \in Identity(e)
        BY DEF Identity
      <3>2. Identity(J[i]) \subseteq s.used /\ Identity(e) \cap s.used = {}
        BY <1>1 DEF Ordered, Accepts
      <3> QED
        BY <3>1, <3>2
    <2>2. \A i, k \in 1..n :
            K[i].kind = "fill" /\ K[k].kind = "fill" /\ K[i].id = K[k].id => i = k
      BY <1>1 DEF Balanced
    <2>3. 1..(n + 1) = (1..n) \cup {n + 1}
      BY <1>1
    <2> HIDE DEF K, n
    <2> QED
      BY <1>1, <2>1, <2>2, <2>3
  <1>11. \A i, k \in DOMAIN J :
            J[i].kind = "fill" /\ J[k].kind = "fill" /\ J[i].id = J[k].id => i = k
    BY DEF Balanced
  <1>12. /\ Sum([i \in DOMAIN J |-> Spent(J[i])]) \in Int /\ Spent(e) \in Int
         /\ s.cash = InitialCash - Sum([i \in DOMAIN J |-> Spent(J[i])])
         /\ s.position = Sum([i \in DOMAIN J |-> Bought(J[i])])
         /\ s.charges = Sum([i \in DOMAIN J |-> Fee(J[i])])
    <2>1. Sum([i \in DOMAIN J |-> Spent(J[i])]) \in Int
      <3>1. [i \in DOMAIN J |-> Spent(J[i])] \in Seq(Int)
        BY <1>1, TermsAreIntegers
      <3> QED
        BY <3>1, SumIsInteger
    <2> QED
      BY <2>1, TermsAreIntegers DEF Balanced
  <1>13. t.cash = InitialCash - Sum([i \in DOMAIN K |-> Spent(K[i])])
    <2> HIDE DEF K, t
    <2> QED
      BY <1>3, <1>4, <1>7, <1>12, EngineAssumption
  <1>14. /\ t.position = Sum([i \in DOMAIN K |-> Bought(K[i])])
         /\ t.charges = Sum([i \in DOMAIN K |-> Fee(K[i])])
    <2> HIDE DEF K, t
    <2> QED
      BY <1>5, <1>6, <1>8, <1>9, <1>12
  <1> HIDE DEF K, t
  <1>15. Balanced(K, t)
    BY <1>10, <1>13, <1>14 DEF Balanced
  <1> QED
    BY <1>15 DEF K, t

\* An accepted target, submission or order event has its cause in the journal.
LEMMA CauseIsThere ==
  ASSUME NEW J \in Seq(Events), NEW s, Ordered(J, s), NEW e \in Events, Accepts(s, e),
         e.kind \in {"target", "submit"}
  PROVE  \E c \in DOMAIN J :
            /\ J[c].at = e.cause
            /\ e.kind = "target" => J[c].kind = "signal"
            /\ e.kind = "submit" => J[c].kind = "target" /\ J[c].amount = e.bar
  <1>1. e.cause # NoCause
    BY DEF Accepts, Caused
  <1>2. PICK c \in s.seen : /\ c.at = e.cause /\ c.kind \in CauseOf(e.kind)
                            /\ e.kind = "submit" => c.amount = e.bar
    BY <1>1 DEF Accepts, Caused
  <1>3. PICK i \in DOMAIN J : J[i] = c
    BY DEF Ordered
  <1> QED
    BY <1>2, <1>3 DEF CauseOf

\* Where an event came from does not change as the journal grows.
LEMMA OriginsKept ==
  ASSUME NEW J \in Seq(Events), NEW e \in Events, NEW i \in DOMAIN J
  PROVE  /\ FromSignal(J, i) => FromSignal(Append(J, e), i)
         /\ FromTarget(J, i) => FromTarget(Append(J, e), i)
         /\ FromSubmit(J, i) => FromSubmit(Append(J, e), i)
  <1> DEFINE K == Append(J, e)
  <1>1. DOMAIN J \subseteq DOMAIN K /\ \A k \in DOMAIN J : K[k] = J[k]
    BY OneMore
  <1> HIDE DEF K
  <1>2. FromSignal(J, i) => FromSignal(K, i)
    BY <1>1 DEF FromSignal
  <1>3. FromTarget(J, i) => FromTarget(K, i)
    BY <1>1 DEF FromTarget
  <1>4. FromSubmit(J, i) => FromSubmit(K, i)
    BY <1>1 DEF FromSubmit
  <1> QED
    BY <1>2, <1>3, <1>4 DEF K

\* The new event, too, comes from one of the journal.
LEMMA DescendsStep ==
  ASSUME NEW J \in Seq(Events), NEW s, Typed(s), Ordered(J, s), DayOrders(J, s), Descends(J),
         NEW e \in Events, Accepts(s, e)
  PROVE  Descends(Append(J, e))
  <1> DEFINE K == Append(J, e)
  <1> DEFINE n == Len(J) + 1
  <1>1. /\ DOMAIN K = DOMAIN J \cup {n} /\ K[n] = e
        /\ \A k \in DOMAIN J : K[k] = J[k] /\ k < n
    BY OneMore
  <1>2. \A i \in DOMAIN J : /\ K[i].kind = "target" => FromSignal(K, i)
                            /\ K[i].kind = "submit" => FromTarget(K, i)
                            /\ K[i].kind = "fill" => FromSubmit(K, i)
    <2> SUFFICES ASSUME NEW i \in DOMAIN J
                 PROVE  /\ K[i].kind = "target" => FromSignal(K, i)
                        /\ K[i].kind = "submit" => FromTarget(K, i)
                        /\ K[i].kind = "fill" => FromSubmit(K, i)
      OBVIOUS
    <2>1. /\ FromSignal(J, i) => FromSignal(K, i)
          /\ FromTarget(J, i) => FromTarget(K, i)
          /\ FromSubmit(J, i) => FromSubmit(K, i)
      BY OriginsKept
    <2>2. K[i] = J[i]
      BY <1>1
    <2> HIDE DEF K
    <2> QED
      BY <2>1, <2>2 DEF Descends
  <1>3. e.kind = "target" => FromSignal(K, n)
    <2> SUFFICES ASSUME e.kind = "target" PROVE FromSignal(K, n)
      OBVIOUS
    <2>1. PICK c \in DOMAIN J : J[c].at = e.cause /\ J[c].kind = "signal"
      BY CauseIsThere
    <2> HIDE DEF K, n
    <2> QED
      BY <1>1, <2>1 DEF FromSignal
  <1>4. e.kind = "submit" => FromTarget(K, n)
    <2> SUFFICES ASSUME e.kind = "submit" PROVE FromTarget(K, n)
      OBVIOUS
    <2>1. PICK c \in DOMAIN J :
             J[c].at = e.cause /\ J[c].kind = "target" /\ J[c].amount = e.bar
      BY CauseIsThere
    <2> HIDE DEF K, n
    <2> QED
      BY <1>1, <2>1 DEF FromTarget
  <1>5. e.kind = "fill" => FromSubmit(K, n)
    <2> SUFFICES ASSUME e.kind = "fill" PROVE FromSubmit(K, n)
      OBVIOUS
    <2>1. e.order \in DOMAIN s.orders /\ s.orders[e.order].bar = e.bar
      BY OrderMoved DEF OfOrder
    <2>2. DayOrder(J, s, e.order)
      BY <2>1 DEF DayOrders
    <2>3. PICK b \in DOMAIN J :
             J[b].kind = "submit" /\ J[b].order = e.order /\ J[b].bar = e.bar
      BY <2>1, <2>2 DEF DayOrder
    <2> HIDE DEF K, n
    <2> QED
      BY <1>1, <2>3 DEF FromSubmit
  <1> HIDE DEF K, n
  <1>6. Descends(K)
    BY <1>1, <1>2, <1>3, <1>4, <1>5 DEF Descends
  <1> QED
    BY <1>6 DEF K

\* An event that bankrupts leaves its coordinate as what a halt must cite.
LEMMA HaltsStep ==
  ASSUME NEW J \in Seq(Events), NEW s, NEW e \in Events
  PROVE  Halts(Append(J, e), Publish(s, e))
  <1> DEFINE K == Append(J, e)
  <1> DEFINE t == Publish(s, e)
  <1>1. K[Len(K)] = e
    BY OneMore
  <1>2. t.halted = (e.kind = "halt")
    BY PublishedHalt
  <1>3. e.kind # "halt" /\ Bankrupt(t.worth) => t.due = e.at
    BY PublishedHalt, PublishedLedger
  <1> HIDE DEF K, t
  <1>4. Halts(K, t)
    BY <1>1, <1>2, <1>3 DEF Halts
  <1> QED
    BY <1>4 DEF K, t

\* What follows an event that bankrupts is the halt that cites it, and nothing a halt.
LEMMA FollowedStep ==
  ASSUME NEW J \in Seq(Events), Halts(J, Replay(J)), NEW e \in Events, Accepts(Replay(J), e)
  PROVE  Followed(Append(J, e))
  <1> DEFINE K == Append(J, e)
  <1> DEFINE s == Replay(J)
  <1>1. Len(K) = Len(J) + 1 /\ Len(J) \in Nat /\ K[Len(K)] = e /\ Front(K) = J
    BY OneMore
  <1> SUFFICES ASSUME Len(K) > 1
               PROVE  /\ K[Len(K) - 1].kind # "halt"
                      /\ Bankrupt(s.worth) => e.kind = "halt" /\ e.cause = K[Len(K) - 1].at
    BY <1>1 DEF Followed
  <1> DEFINE last == J[Len(J)]
  <1>2. Len(J) > 0 /\ Len(J) \in DOMAIN J /\ Len(K) - 1 = Len(J)
    BY <1>1, OneMore
  <1>3. K[Len(K) - 1] = last /\ last \in Events
    BY <1>2, OneMore
  <1>4. /\ s.halted = (last.kind = "halt")
        /\ last.kind # "halt" /\ Bankrupt(s.worth) => s.due = last.at
    BY <1>2 DEF Halts
  <1>5. ~s.halted /\ (s.due # NoCause => e.kind = "halt" /\ e.cause = s.due)
    BY DEF Accepts, HaltRespected
  <1>6. last.at # NoCause
    <2>1. PICK p \in 10..90, b \in Nat, a \in Int : 100 * b + p <= a /\ last.at = a
      BY <1>3, EventFacts
    <2>2. p \in Int /\ p >= 10 /\ b >= 0
      OBVIOUS
    <2>3. 100 * b >= 0 /\ 100 * b \in Int
      BY <2>2
    <2>4. a >= 10
      BY <2>1, <2>2, <2>3
    <2> QED
      BY <2>1, <2>4 DEF NoCause
  <1> HIDE DEF last, K, s
  <1> QED
    BY <1>3, <1>4, <1>5, <1>6

\* The event's part in what of an order was filled.
LEMMA FilledOneMore ==
  ASSUME NEW J \in Seq(Events), NEW e \in Events, NEW o
  PROVE  /\ Filled(Append(J, e), o) = Filled(J, o) + Part(e, o)
         /\ Filled(J, o) \in Int
  <1> DEFINE K == Append(J, e)
  <1> DEFINE n == Len(J)
  <1>1. /\ n \in Nat /\ DOMAIN J = 1..n /\ DOMAIN K = 1..(n + 1)
        /\ \A i \in 1..n : K[i] = J[i] /\ J[i] \in Events
        /\ K[n + 1] = e
    BY OneMore
  <1>2. \A i \in 1..(n + 1) : K[i] \in Events
    BY <1>1
  <1> DEFINE f == [i \in 1..n |-> Part(J[i], o)]
  <1> DEFINE g == [i \in 1..(n + 1) |-> Part(K[i], o)]
  <1>3. f \in [1..n -> Int] /\ g \in [1..(n + 1) -> Int]
    BY <1>1, <1>2, TermsAreIntegers
  <1>4. (\A i \in 1..n : g[i] = f[i]) /\ g[n + 1] = Part(e, o)
    BY <1>1
  <1> HIDE DEF f, g, K, n
  <1>5. Sum(g) = Sum(f) + Part(e, o) /\ Sum(f) \in Int
    BY <1>1, <1>3, <1>4, SumOfTerms
  <1>6. Filled(J, o) = Sum(f) /\ Filled(K, o) = Sum(g)
    BY <1>1 DEF Filled, f, g
  <1> QED
    BY <1>5, <1>6 DEF K

\* An event that neither is of the order nor ends its bar leaves it as it was.
LEMMA DayOrderKept ==
  ASSUME NEW J \in Seq(Events), NEW s, NEW t, NEW e \in Events, NEW o,
         DayOrder(J, s, o), t.orders[o] = s.orders[o], Part(e, o) = 0,
         o \in OpenOrders(t) =>
            /\ o \in OpenOrders(s) /\ t.openBar = s.openBar
            /\ e.kind # "halt" => e.bar <= s.openBar
            /\ e.kind \notin {"charge", "close"}
  PROVE  DayOrder(Append(J, e), t, o)
  <1> DEFINE K == Append(J, e)
  <1>1. /\ DOMAIN K = DOMAIN J \cup {Len(J) + 1} /\ K[Len(J) + 1] = e
        /\ \A i \in DOMAIN J : K[i] = J[i]
    BY OneMore
  <1>2. Filled(K, o) = Filled(J, o)
    BY FilledOneMore
  <1> HIDE DEF K
  <1>3. \E i \in DOMAIN K : K[i].kind = "submit" /\ K[i].order = o /\ K[i].bar = t.orders[o].bar
    BY <1>1 DEF DayOrder
  <1>4. o \in OpenOrders(t) =>
          /\ t.orders[o].bar = t.openBar
          /\ \A i \in DOMAIN K : K[i].kind # "halt" => K[i].bar <= t.orders[o].bar
          /\ \A i \in DOMAIN K : K[i].kind \in {"charge", "close"} => K[i].bar # t.orders[o].bar
    BY <1>1 DEF DayOrder
  <1>5. DayOrder(K, t, o)
    BY <1>2, <1>3, <1>4 DEF DayOrder
  <1> QED
    BY <1>5 DEF K

\* Coordinates in order have their bars in order.
LEMMA BarsInOrder ==
  ASSUME NEW b \in Nat, NEW p \in Int, NEW a \in Int, NEW x \in Int, NEW y \in Nat,
         p >= 10, 100 * b + p <= a, a <= x, x <= 100 * y + 29
  PROVE  b <= y /\ (p >= 50 => b # y)
  OBVIOUS

\* A submission comes before its bar's charges and close.
LEMMA DayOrderMade ==
  ASSUME NEW J \in Seq(Events), NEW s, Typed(s), Ordered(J, s), DayOrders(J, s),
         NEW e \in Events, Accepts(s, e), e.kind = "submit"
  PROVE  DayOrder(Append(J, e), Publish(s, e), e.order)
  <1> DEFINE K == Append(J, e)
  <1> DEFINE t == Publish(s, e)
  <1> DEFINE o == e.order
  <1>1. /\ DOMAIN K = DOMAIN J \cup {Len(J) + 1} /\ K[Len(J) + 1] = e
        /\ \A i \in DOMAIN J : K[i] = J[i] /\ J[i] \in Events
    BY OneMore
  <1>2. /\ o \notin DOMAIN s.orders /\ o \in Int
        /\ t.orders[o].qty = e.amount /\ t.orders[o].filled = 0 /\ t.orders[o].bar = e.bar
        /\ e.bar = s.openBar /\ e.amount # 0
    BY OrderMade, EventFacts
  <1>3. Filled(K, o) = 0
    <2>1. Filled(J, o) = 0
      BY <1>2 DEF DayOrders
    <2>2. Part(e, o) = 0
      BY DEF Part, Bought
    <2> QED
      BY <2>1, <2>2, FilledOneMore
  <1>4. t.openBar = s.openBar
    BY PublishedMarks
  <1>5. \A i \in DOMAIN J : J[i].bar <= e.bar /\ (J[i].kind \in {"charge", "close"} => J[i].bar # e.bar)
    <2> SUFFICES ASSUME NEW i \in DOMAIN J
                 PROVE  J[i].bar <= e.bar /\ (J[i].kind \in {"charge", "close"} => J[i].bar # e.bar)
      OBVIOUS
    <2>1. J[i].at <= s.cursor /\ s.cursor < e.at /\ s.cursor \in Int
      BY DEF Ordered, Accepts, Typed
    <2>2. e.at <= 100 * e.bar + 29 /\ e.at \in Int /\ e.bar \in Nat
      <3>1. PhaseOf[e.kind] = 20
        BY Phases
      <3> QED
        BY <3>1, EventFacts
    <2>3. PICK p \in 10..90, b \in Nat, a \in Int :
             /\ p = PhaseOf[J[i].kind] /\ b = J[i].bar /\ a = J[i].at
             /\ 100 * b + p <= a
      BY <1>1, EventFacts
    <2>4. J[i].kind \in {"charge", "close"} => p >= 50
      <3>1. J[i].kind = "charge" => p = 50
        BY <2>3, Phases
      <3>2. J[i].kind = "close" => p = 60
        BY <2>3, Phases
      <3> QED
        BY <3>1, <3>2
    <2>5. p \in Int /\ p >= 10 /\ 100 * b \in Int
      OBVIOUS
    <2>6. PICK x \in Int, y \in Nat : x = e.at /\ y = e.bar /\ x <= 100 * y + 29
      BY <2>2
    <2>7. a <= x
      <3>1. a <= s.cursor
        BY <2>1, <2>3
      <3> QED
        BY <2>1, <2>6, <3>1
    <2>8. 100 * b + p <= a /\ x <= 100 * y + 29
      BY <2>3, <2>6
    <2>9. b <= y /\ (p >= 50 => b # y)
      BY <2>5, <2>7, <2>8, BarsInOrder
    <2> QED
      BY <2>3, <2>4, <2>6, <2>9
  <1>6. e.bar <= e.bar
    BY EventFacts
  <1> HIDE DEF K, t
  <1>7. \A i \in DOMAIN K : /\ K[i].bar <= t.orders[o].bar
                            /\ K[i].kind \in {"charge", "close"} => K[i].bar # t.orders[o].bar
    BY <1>1, <1>2, <1>5, <1>6
  <1>8. \E i \in DOMAIN K : K[i].kind = "submit" /\ K[i].order = o /\ K[i].bar = t.orders[o].bar
    BY <1>1, <1>2
  <1>9. DayOrder(K, t, o)
    <2>1. e.amount \in Int
      BY EventFacts
    <2> QED
      BY <1>2, <1>3, <1>4, <1>7, <1>8, <2>1 DEF DayOrder
  <1> QED
    BY <1>9 DEF K, t

\* An order event moves an order of the bar that is open, a fill within its residual.
LEMMA DayOrderMoved ==
  ASSUME NEW J \in Seq(Events), NEW s, Typed(s), DayOrders(J, s),
         NEW e \in Events, Accepts(s, e), e.kind \in OfOrder
  PROVE  DayOrder(Append(J, e), Publish(s, e), e.order)
  <1> DEFINE K == Append(J, e)
  <1> DEFINE t == Publish(s, e)
  <1> DEFINE o == e.order
  <1> DEFINE old == s.orders[o]
  <1> DEFINE new == t.orders[o]
  <1>1. /\ DOMAIN K = DOMAIN J \cup {Len(J) + 1} /\ K[Len(J) + 1] = e
        /\ \A i \in DOMAIN J : K[i] = J[i]
    BY OneMore
  <1>2. /\ o \in OpenOrders(s) /\ o \in DOMAIN s.orders
        /\ new \in Orders /\ new.qty = old.qty /\ new.bar = old.bar /\ old.bar = e.bar
        /\ new.filled = old.filled + Bought(e)
        /\ e.kind = "fill" =>
             (\/ old.qty - old.filled > 0 /\ e.amount \in 1..(old.qty - old.filled)
              \/ old.qty - old.filled <= 0 /\ -e.amount \in 1..(-(old.qty - old.filled)))
    BY OrderMoved
  <1>3. DayOrder(J, s, o)
    BY <1>2 DEF DayOrders
  <1>4. t.openBar = s.openBar
    BY PublishedMarks DEF OfOrder
  <1>5. Filled(K, o) = new.filled
    <2>1. Filled(J, o) = old.filled
      BY <1>3 DEF DayOrder
    <2>2. Part(e, o) = Bought(e)
      BY DEF Part
    <2> HIDE DEF t, old
    <2> QED
      BY <1>2, <2>1, <2>2, FilledOneMore DEF old
  <1>6. /\ new.qty > 0 => 0 <= new.filled /\ new.filled <= new.qty
        /\ new.qty < 0 => new.qty <= new.filled /\ new.filled <= 0
        /\ new.qty # 0
    <2>1. old.qty \in Int /\ old.filled \in Int /\ e.amount \in Int /\ e.bar \in Nat
      BY <1>2, EventFacts DEF Typed, Orders
    <2>2. /\ old.qty > 0 => 0 <= old.filled /\ old.filled <= old.qty
          /\ old.qty < 0 => old.qty <= old.filled /\ old.filled <= 0
          /\ old.qty # 0
      BY <1>3 DEF DayOrder
    <2> DEFINE q == old.qty
    <2> DEFINE f == old.filled
    <2> DEFINE a == e.amount
    <2>3. CASE e.kind = "fill"
      <3>1. Bought(e) = a
        BY <2>3 DEF Bought
      <3>2. new.qty = q /\ new.filled = f + a
        BY <1>2, <3>1
      <3>3. \/ q - f > 0 /\ a >= 1 /\ a <= q - f
            \/ q - f <= 0 /\ -a >= 1 /\ -a <= f - q
        <4>1. \/ q - f > 0 /\ a \in 1..(q - f)
              \/ q - f <= 0 /\ -a \in 1..(-(q - f))
          BY <1>2, <2>3
        <4> HIDE DEF q, f, a
        <4> QED
          BY <2>1, <4>1 DEF q, f, a
      <3> HIDE DEF q, f, a, new
      <3> QED
        BY <2>1, <2>2, <3>2, <3>3 DEF q, f, a
    <2>4. CASE e.kind # "fill"
      <3>1. Bought(e) = 0
        BY <2>4 DEF Bought
      <3>2. new.qty = q /\ new.filled = f
        BY <1>2, <2>1, <3>1
      <3> QED
        BY <2>2, <3>2
    <2> QED
      BY <2>3, <2>4
  <1>7. /\ old.bar = s.openBar
        /\ \A i \in DOMAIN J : J[i].kind # "halt" => J[i].bar <= old.bar
        /\ \A i \in DOMAIN J : J[i].kind \in {"charge", "close"} => J[i].bar # old.bar
        /\ \E i \in DOMAIN J : J[i].kind = "submit" /\ J[i].order = o /\ J[i].bar = old.bar
    BY <1>2, <1>3 DEF DayOrder
  <1>8. e.bar <= e.bar /\ e.kind \notin {"charge", "close"}
    BY EventFacts DEF OfOrder
  <1> HIDE DEF K, t, old
  <1>9. /\ \A i \in DOMAIN K : K[i].kind # "halt" => K[i].bar <= new.bar
        /\ \A i \in DOMAIN K : K[i].kind \in {"charge", "close"} => K[i].bar # new.bar
        /\ \E i \in DOMAIN K : K[i].kind = "submit" /\ K[i].order = o /\ K[i].bar = new.bar
    BY <1>1, <1>2, <1>7, <1>8 DEF old
  <1>10. new.bar = t.openBar
    BY <1>2, <1>4, <1>7
  <1>11. DayOrder(K, t, o)
    BY <1>5, <1>6, <1>9, <1>10 DEF DayOrder
  <1> QED
    BY <1>11 DEF K, t

\* Every order stays within its bar and its quantity.
LEMMA DayOrdersStep ==
  ASSUME NEW J \in Seq(Events), NEW s, Typed(s), Ordered(J, s), Marked(s), DayOrders(J, s),
         NEW e \in Events, Accepts(s, e)
  PROVE  DayOrders(Append(J, e), Publish(s, e))
  <1> DEFINE K == Append(J, e)
  <1> DEFINE t == Publish(s, e)
  <1>1. \A o \in DOMAIN s.orders : DayOrder(J, s, o)
    BY DEF DayOrders
  <1>2. \A o : (e.kind # "fill" \/ e.order # o) => Part(e, o) = 0
    BY DEF Part, Bought
  <1>3. \A o \in DOMAIN t.orders : DayOrder(K, t, o)
    <2>1. CASE e.kind = "submit"
      <3> SUFFICES ASSUME NEW o \in DOMAIN s.orders PROVE DayOrder(K, t, o)
        BY <2>1, OrderMade, DayOrderMade
      <3>1. t.orders[o] = s.orders[o] /\ e.bar = s.openBar /\ e.bar \in Nat
        BY <2>1, OrderMade, EventFacts
      <3>2. t.openBar = s.openBar
        BY <2>1, PublishedMarks
      <3>3. o \in OpenOrders(t) => o \in OpenOrders(s)
        BY <3>1 DEF OpenOrders
      <3>4. e.bar <= s.openBar /\ e.kind \notin {"charge", "close"} /\ Part(e, o) = 0
        BY <1>2, <2>1, <3>1
      <3> HIDE DEF t
      <3> QED
        BY <1>1, <3>1, <3>2, <3>3, <3>4, DayOrderKept
    <2>2. CASE e.kind \in OfOrder
      <3> SUFFICES ASSUME NEW o \in DOMAIN s.orders, o # e.order PROVE DayOrder(K, t, o)
        BY <2>2, OrderMoved, DayOrderMoved
      <3>1. t.orders[o] = s.orders[o] /\ s.orders[e.order].bar = e.bar
            /\ e.order \in OpenOrders(s) /\ e.order \in DOMAIN s.orders
        BY <2>2, OrderMoved
      <3>2. t.openBar = s.openBar
        BY <2>2, PublishedMarks DEF OfOrder
      <3>3. o \in OpenOrders(t) => o \in OpenOrders(s)
        BY <3>1 DEF OpenOrders
      <3>4. e.bar = s.openBar /\ e.bar \in Nat
        <4>1. DayOrder(J, s, e.order)
          BY <1>1, <3>1
        <4> QED
          BY <3>1, <4>1, EventFacts DEF DayOrder
      <3>5. e.bar <= s.openBar /\ e.kind \notin {"charge", "close"} /\ Part(e, o) = 0
        BY <1>2, <2>2, <3>4 DEF OfOrder
      <3> HIDE DEF t
      <3> QED
        BY <1>1, <3>1, <3>2, <3>3, <3>5, DayOrderKept
    <2>3. CASE e.kind \notin OfOrder \cup {"submit"}
      <3>1. t.orders = s.orders /\ OpenOrders(t) = OpenOrders(s)
        BY <2>3, OrdersKept
      <3> SUFFICES ASSUME NEW o \in DOMAIN s.orders PROVE DayOrder(K, t, o)
        BY <3>1
      <3>2. Part(e, o) = 0
        BY <1>2, <2>3 DEF OfOrder
      <3>3. o \in OpenOrders(s) => /\ t.openBar = s.openBar
                                   /\ e.kind # "halt" => e.bar <= s.openBar
                                   /\ e.kind \notin {"charge", "close"}
        <4> SUFFICES ASSUME o \in OpenOrders(s)
                     PROVE  /\ t.openBar = s.openBar
                            /\ e.kind # "halt" => e.bar <= s.openBar
                            /\ e.kind \notin {"charge", "close"}
          OBVIOUS
        <4>1. e.kind \notin {"open", "charge", "close"}
          BY DEF Accepts, Planned
        <4>2. t.openBar = s.openBar
          BY <4>1, PublishedMarks
        <4>3. e.kind # "halt" => e.bar <= s.openBar
          <5> SUFFICES ASSUME e.kind # "halt" PROVE e.bar <= s.openBar
            OBVIOUS
          <5>1. e.kind \in {"signal", "target"}
            BY <2>3, <4>1, EventFacts, Phases DEF OfOrder
          <5>2. s.closeBar = e.bar
            BY <5>1 DEF Accepts, Planned
          <5>3. s.closeBar < s.openBar
            BY DEF Marked
          <5>4. e.bar \in Int /\ s.openBar \in Int
            <6>1. Bars \cup {-1} \subseteq Int
              BY EngineAssumption
            <6> QED
              BY <6>1, EventFacts DEF Typed
          <5> QED
            BY <5>2, <5>3, <5>4
        <4> QED
          BY <4>1, <4>2, <4>3
      <3> HIDE DEF t
      <3> QED
        BY <1>1, <3>1, <3>2, <3>3, DayOrderKept
    <2> QED
      BY <2>1, <2>2, <2>3
  <1>4. \A o \in Int \ DOMAIN t.orders : Filled(K, o) = 0
    <2> SUFFICES ASSUME NEW o \in Int, o \notin DOMAIN t.orders PROVE Filled(K, o) = 0
      OBVIOUS
    <2>1. o \notin DOMAIN s.orders /\ Part(e, o) = 0
      <3>1. CASE e.kind = "submit"
        BY <1>2, <3>1, OrderMade
      <3>2. CASE e.kind \in OfOrder
        BY <1>2, <3>2, OrderMoved
      <3>3. CASE e.kind \notin OfOrder \cup {"submit"}
        BY <1>2, <3>3, OrdersKept DEF OfOrder
      <3> QED
        BY <3>1, <3>2, <3>3
    <2>2. Filled(J, o) = 0
      BY <2>1 DEF DayOrders
    <2> QED
      BY <2>1, <2>2, FilledOneMore
  <1> HIDE DEF K, t
  <1>5. DayOrders(K, t)
    BY <1>3, <1>4 DEF DayOrders
  <1> QED
    BY <1>5 DEF K, t

\* A replayed journal was never refused.
LEMMA TypedIsNotRefused ==
  ASSUME NEW s, Typed(s)
  PROVE  s # Refused
  <1>1. Refused.cursor = -2
    BY DEF Refused, Fresh
  <1>2. s.cursor \in Int /\ s.cursor >= -1
    BY DEF Typed
  <1> QED
    BY <1>1, <1>2

\* What is true of a journal and its replay stays true of them with an accepted event more.
LEMMA FactsStep ==
  ASSUME NEW J \in Seq(Events), Facts(J, Replay(J)), NEW e \in Events, Accepts(Replay(J), e)
  PROVE  /\ Replay(Append(J, e)) = Publish(Replay(J), e)
         /\ Facts(Append(J, e), Replay(Append(J, e)))
  <1> DEFINE s == Replay(J)
  <1>1. /\ Typed(s) /\ Ordered(J, s) /\ Marked(s) /\ Balanced(J, s)
        /\ DayOrders(J, s) /\ Descends(J) /\ Halts(J, s) /\ Followed(J)
    BY DEF Facts
  <1>2. Replay(Append(J, e)) = Publish(s, e)
    BY <1>1, TypedIsNotRefused, ReplayOfOneMore DEF Turn
  <1>3. Typed(Publish(s, e)) /\ Marked(Publish(s, e))
    BY <1>1, TypedStep, MarkedStep
  <1>4. Ordered(Append(J, e), Publish(s, e)) /\ Balanced(Append(J, e), Publish(s, e))
    BY <1>1, OrderedStep, BalancedStep
  <1>5. DayOrders(Append(J, e), Publish(s, e)) /\ Descends(Append(J, e))
    BY <1>1, DayOrdersStep, DescendsStep
  <1>6. Halts(Append(J, e), Publish(s, e)) /\ Followed(Append(J, e))
    BY <1>1, HaltsStep, FollowedStep
  <1> QED
    BY <1>2, <1>3, <1>4, <1>5, <1>6 DEF Facts

\* An empty journal replays to the state of a new engine.
LEMMA FactsOfNothing ==
  /\ <<>> \in Seq(Events) /\ Replay(<<>>) = Fresh
  /\ Facts(<<>>, Replay(<<>>))
  <1>1. <<>> \in Seq(Events) /\ Replay(<<>>) = Fresh /\ DOMAIN <<>> = {}
    BY ReplayOfNothing
  <1>2. Fresh.orders = <<>> /\ Fresh.cash = InitialCash /\ Fresh.position = 0
        /\ Fresh.charges = 0 /\ Fresh.cursor = -1 /\ Fresh.seen = {}
    BY DEF Fresh
  <1>3. OpenOrders(Fresh) = {}
    BY <1>1, <1>2 DEF OpenOrders
  <1>4. Typed(Fresh)
    BY <1>1, <1>2, EngineAssumption DEF Typed, Fresh
  <1>5. Ordered(<<>>, Fresh)
    BY <1>1, <1>2 DEF Ordered
  <1>6. Marked(Fresh)
    <2>1. Fresh.openBar = -1 /\ Fresh.closeBar = -1 /\ Fresh.cursor = -1
      BY DEF Fresh
    <2>2. /\ -1 <= -1 /\ 100 * (-1) <= -1 /\ ~(-1 >= 0)
      OBVIOUS
    <2> QED
      BY <1>3, <2>1, <2>2 DEF Marked
  <1>7. Balanced(<<>>, Fresh)
    <2>1. /\ [i \in DOMAIN <<>> |-> Spent((<<>>)[i])] = <<>>
          /\ [i \in DOMAIN <<>> |-> Bought((<<>>)[i])] = <<>>
          /\ [i \in DOMAIN <<>> |-> Fee((<<>>)[i])] = <<>>
      BY <1>1
    <2>2. InitialCash = InitialCash - 0
      BY EngineAssumption
    <2> QED
      BY <1>1, <1>2, <2>1, <2>2, SumOfNothing DEF Balanced
  <1>8. DayOrders(<<>>, Fresh)
    <2>1. \A o : Filled(<<>>, o) = 0
      <3> SUFFICES ASSUME NEW o PROVE Filled(<<>>, o) = 0
        OBVIOUS
      <3>1. [i \in DOMAIN <<>> |-> Part((<<>>)[i], o)] = <<>>
        BY <1>1
      <3> QED
        BY <3>1, SumOfNothing DEF Filled
    <2> QED
      BY <1>1, <1>2, <2>1 DEF DayOrders
  <1>9. Descends(<<>>) /\ Halts(<<>>, Fresh) /\ Followed(<<>>)
    BY <1>1 DEF Descends, Halts, Followed
  <1> QED
    BY <1>1, <1>4, <1>5, <1>6, <1>7, <1>8, <1>9 DEF Facts

-----------------------------------------------------------------------------
(* What a producer offers is an event.                                     *)

\* Events but for what their constructors require.
Shapes ==
    [kind : DOMAIN PhaseOf, bar : Bars, at : Int, cause : Int, order : Int,
     id : Int, amount : Int, holdings : Int, price : Int, ref : Int, fee : Int,
     reason : {Control, Bankruptcy}]

\* An event of the right shape, with its coordinate and its constructor's requirement.
LEMMA ShapesAreEvents ==
  ASSUME NEW e \in Shapes, NEW n \in 0..MaxOrdinal, e.at = At(e.kind, e.bar, n),
         e.kind = "submit" => e.amount # 0, e.kind = "target" => e.amount > e.bar
  PROVE  e \in Events
  BY DEF Shapes, Events

\* What the constructor gives.
LEMMA EventShape ==
  ASSUME NEW kind \in DOMAIN PhaseOf, NEW bar \in Bars, NEW n \in 0..MaxOrdinal,
         NEW cause \in Int
  PROVE  /\ Event(kind, bar, n, cause) \in Shapes
         /\ Event(kind, bar, n, cause).kind = kind
         /\ Event(kind, bar, n, cause).bar = bar
         /\ Event(kind, bar, n, cause).at = At(kind, bar, n)
  <1>1. At(kind, bar, n) \in Int /\ bar \in Int
    <2>1. PhaseOf[kind] \in Int
      BY Phases
    <2>2. bar \in Nat /\ n \in Nat
      BY EngineAssumption
    <2> QED
      BY <2>1, <2>2 DEF At
  <1>2. Event(kind, bar, n, cause) \in Shapes
    BY <1>1 DEF Event, Shapes
  <1> QED
    BY <1>2 DEF Event

\* A field of an event is set without touching the others.
LEMMA Amended ==
  ASSUME NEW x \in Shapes, NEW v \in Int
  PROVE  /\ [x EXCEPT !.order = v] \in Shapes /\ [x EXCEPT !.amount = v] \in Shapes
         /\ [x EXCEPT !.price = v] \in Shapes /\ [x EXCEPT !.holdings = v] \in Shapes
         /\ [x EXCEPT !.fee = v] \in Shapes /\ [x EXCEPT !.id = v] \in Shapes
         /\ [x EXCEPT !.ref = v] \in Shapes
  <1>1. [x EXCEPT !.order = v] \in Shapes
    BY DEF Shapes
  <1>2. [x EXCEPT !.amount = v] \in Shapes
    BY DEF Shapes
  <1>3. [x EXCEPT !.price = v] \in Shapes
    BY DEF Shapes
  <1>4. [x EXCEPT !.holdings = v] \in Shapes
    BY DEF Shapes
  <1>5. [x EXCEPT !.fee = v] \in Shapes
    BY DEF Shapes
  <1>6. [x EXCEPT !.id = v] \in Shapes
    BY DEF Shapes
  <1>7. [x EXCEPT !.ref = v] \in Shapes
    BY DEF Shapes
  <1> QED
    BY <1>1, <1>2, <1>3, <1>4, <1>5, <1>6, <1>7

\* An event of an order, ...
LEMMA OrderingShape ==
  ASSUME NEW x \in Shapes, NEW o \in Int, NEW q \in Int
  PROVE  LET e == Ordering(x, o, q)
         IN  e \in Shapes /\ e.kind = x.kind /\ e.bar = x.bar /\ e.at = x.at /\ e.amount = q
  <1> DEFINE e == Ordering(x, o, q)
  <1> DEFINE y == [x EXCEPT !.order = o]
  <1>1. y \in Shapes
    BY Amended
  <1>2. [y EXCEPT !.amount = q] \in Shapes
    BY <1>1, Amended
  <1>3. e = [y EXCEPT !.amount = q]
    BY DEF Ordering
  <1>4. e.kind = x.kind /\ e.bar = x.bar /\ e.at = x.at /\ e.amount = q
    BY DEF Shapes, Ordering
  <1> QED
    BY <1>2, <1>3, <1>4

\* ... a mark ...
LEMMA DeclaringShape ==
  ASSUME NEW x \in Shapes, NEW p \in Int,
         {state.cash, state.position, state.charges} \subseteq Int
  PROVE  LET e == Declaring(x, p)
         IN  e \in Shapes /\ e.kind = x.kind /\ e.bar = x.bar /\ e.at = x.at
  <1> DEFINE e == Declaring(x, p)
  <1> DEFINE w == [x EXCEPT !.amount = state.cash]
  <1> DEFINE y == [w EXCEPT !.price = p]
  <1> DEFINE z == [y EXCEPT !.holdings = state.position * p]
  <1>1. w \in Shapes
    BY Amended
  <1>2. y \in Shapes
    BY <1>1, Amended
  <1>3. z \in Shapes
    <2>1. state.position * p \in Int
      OBVIOUS
    <2> HIDE DEF y
    <2> QED
      BY <1>2, <2>1, Amended
  <1>4. [z EXCEPT !.fee = state.charges] \in Shapes
    BY <1>3, Amended
  <1>5. e = [z EXCEPT !.fee = state.charges]
    BY DEF Declaring
  <1>6. e.kind = x.kind /\ e.bar = x.bar /\ e.at = x.at
    BY DEF Shapes, Declaring
  <1> QED
    BY <1>4, <1>5, <1>6

\* ... and a fill have their shape.
LEMMA FillingShape ==
  ASSUME NEW x \in Shapes, NEW i \in Int, NEW l \in Int, NEW f \in Int,
         state.openPrice \in Int
  PROVE  LET e == Filling(x, i, l, f)
         IN  e \in Shapes /\ e.kind = x.kind /\ e.bar = x.bar /\ e.at = x.at
  <1> DEFINE e == Filling(x, i, l, f)
  <1> DEFINE w == [x EXCEPT !.id = i]
  <1> DEFINE z == [w EXCEPT !.ref = state.openPrice]
  <1> DEFINE u == [z EXCEPT !.price = state.openPrice + l]
  <1>1. w \in Shapes
    BY Amended
  <1>2. z \in Shapes
    BY <1>1, Amended
  <1>3. u \in Shapes
    <2>1. state.openPrice + l \in Int
      OBVIOUS
    <2> HIDE DEF z
    <2> QED
      BY <1>2, <2>1, Amended
  <1>4. [u EXCEPT !.fee = f] \in Shapes
    BY <1>3, Amended
  <1>5. e = [u EXCEPT !.fee = f]
    BY DEF Filling
  <1>6. e.kind = x.kind /\ e.bar = x.bar /\ e.at = x.at
    BY DEF Shapes, Filling
  <1> QED
    BY <1>4, <1>5, <1>6

\* The quantities offered are those of an order or of a part of it.
LEMMA FillableIsNonzero ==
  Fillable \subseteq Int \ {0}
  <1> SUFFICES ASSUME NEW q \in Quantities, NEW x \in (IF q > 0 THEN 1..q ELSE q..(-1))
               PROVE  x \in Int /\ x # 0
    BY DEF Fillable
  <1>1. q \in Int
    BY EngineAssumption
  <1>2. CASE q > 0
    BY <1>1, <1>2
  <1>3. CASE ~(q > 0)
    BY <1>1, <1>3
  <1> QED
    BY <1>2, <1>3

\* Whatever a producer offers has a coordinate and what its constructor requires.
LEMMA MadeAreEvents ==
  ASSUME Typed(state), NEW kind \in DOMAIN PhaseOf, NEW bar \in Bars,
         \A c \in state.seen : c.at \in Int,
         NextOrdinal(kind, bar) <= MaxOrdinal, NEW e \in Made(kind, bar)
  PROVE  e \in Events
  <1> DEFINE n == NextOrdinal(kind, bar)
  <1> DEFINE Citing == {Event(kind, bar, n, c.at) :
                          c \in {c \in state.seen : c.kind \in CauseOf(kind)}}
  <1> DEFINE Alone == Event(kind, bar, n, NoCause)
  <1>1. n \in 0..MaxOrdinal
    <2>1. PhaseOf[kind] \in Int /\ bar \in Nat /\ MaxOrdinal \in Nat
      BY Phases, EngineAssumption
    <2>2. At(kind, bar, 0) \in Int /\ state.cursor \in Int
      BY <2>1 DEF At, Typed
    <2> QED
      BY <2>1, <2>2 DEF NextOrdinal
  <1>2. \A x \in Citing \cup {Alone} :
          x \in Shapes /\ x.kind = kind /\ x.bar = bar /\ x.at = At(kind, bar, n)
    <2>1. NoCause \in Int
      BY DEF NoCause
    <2> HIDE DEF n
    <2> QED
      BY <1>1, <2>1, EventShape
  <1>3. /\ {state.cash, state.position, state.charges, state.openPrice} \subseteq Int
        /\ Bars \subseteq Int /\ bar \in Nat
        /\ Slippage \cup Charges \subseteq Int /\ OrderIds \cup FillIds \subseteq Int
        /\ Fillable \subseteq Int \ {0}
    BY FillableIsNonzero, EngineAssumption DEF Typed
  <1> HIDE DEF n, Citing, Alone
  <1>4. CASE kind \in {"open", "close"}
    <2>1. e = Declaring(Alone, Quote[kind][bar])
      BY <1>4 DEF Made, Alone, Citing, n
    <2>2. Quote[kind][bar] \in Int
      BY <1>4, EngineAssumption
    <2>3. e \in Shapes /\ e.kind = kind /\ e.bar = bar /\ e.at = At(kind, bar, n)
      <3>1. Alone \in Shapes /\ Alone.kind = kind /\ Alone.bar = bar
            /\ Alone.at = At(kind, bar, n)
        BY <1>2
      <3> DEFINE p == Quote[kind][bar]
      <3> HIDE DEF p
      <3>2. p \in Int /\ e = Declaring(Alone, p)
        BY <2>1, <2>2 DEF p
      <3> QED
        BY <1>3, <3>1, <3>2, DeclaringShape
    <2> QED
      BY <1>1, <1>4, <2>3, ShapesAreEvents
  <1>5. CASE kind = "signal"
    <2>1. e = Alone
      BY <1>5 DEF Made, Alone, Citing, n
    <2> QED
      BY <1>1, <1>2, <1>5, <2>1, ShapesAreEvents
  <1>6. CASE kind = "target"
    <2>1. PICK x \in Citing, eligible \in Bars :
             eligible > bar /\ e = [x EXCEPT !.amount = eligible]
      BY <1>6 DEF Made, Alone, Citing, n
    <2>2. e \in Shapes /\ e.kind = kind /\ e.bar = bar /\ e.at = At(kind, bar, n)
          /\ e.amount = eligible
      BY <1>2, <1>3, <2>1 DEF Shapes
    <2> QED
      BY <1>1, <1>6, <2>1, <2>2, ShapesAreEvents
  <1>7. CASE kind = "charge"
    <2>1. PICK charge \in Charges : e = [Alone EXCEPT !.amount = charge]
      BY <1>7 DEF Made, Alone, Citing, n
    <2>2. e \in Shapes /\ e.kind = kind /\ e.bar = bar /\ e.at = At(kind, bar, n)
      BY <1>2, <1>3, <2>1 DEF Shapes
    <2> QED
      BY <1>1, <1>7, <2>2, ShapesAreEvents
  <1>8. CASE kind = "halt"
    <2>1. e = Alone \/ \E x \in Citing : e = [x EXCEPT !.reason = Bankruptcy]
      BY <1>8 DEF Made, Alone, Citing, n
    <2>2. e \in Shapes /\ e.kind = kind /\ e.bar = bar /\ e.at = At(kind, bar, n)
      BY <1>2, <2>1 DEF Shapes
    <2> QED
      BY <1>1, <1>8, <2>2, ShapesAreEvents
  <1>9. CASE kind = "fill"
    <2>1. PICK x \in Citing, o \in OrderIds, id \in FillIds, q \in Fillable,
               slip \in Slippage, fee \in Charges :
             e = Filling(Ordering(x, o, q), id, slip, fee)
      BY <1>9 DEF Made, Alone, Citing, n
    <2> DEFINE y == Ordering(x, o, q)
    <2>2. y \in Shapes /\ y.kind = kind /\ y.bar = bar /\ y.at = At(kind, bar, n)
      <3>1. x \in Shapes /\ x.kind = kind /\ x.bar = bar /\ x.at = At(kind, bar, n)
        BY <1>2
      <3>2. o \in Int /\ q \in Int
        BY <1>3
      <3> QED
        BY <3>1, <3>2, OrderingShape
    <2> HIDE DEF y
    <2>3. e \in Shapes /\ e.kind = kind /\ e.bar = bar /\ e.at = At(kind, bar, n)
      BY <1>3, <2>1, <2>2, FillingShape DEF y
    <2> QED
      BY <1>1, <1>9, <2>3, ShapesAreEvents
  <1>10. CASE kind = "submit"
    <2>1. PICK x \in Citing, o \in OrderIds, q \in Fillable :
             e = Ordering(x, o, q)
      BY <1>10 DEF Made, Alone, Citing, n
    <2>2. e \in Shapes /\ e.kind = kind /\ e.bar = bar /\ e.at = At(kind, bar, n)
          /\ e.amount # 0
      <3>1. x \in Shapes /\ x.kind = kind /\ x.bar = bar /\ x.at = At(kind, bar, n)
        BY <1>2
      <3>2. o \in Int /\ q \in Int /\ q # 0
        BY <1>3
      <3> DEFINE f == Ordering(x, o, q)
      <3>3. f \in Shapes /\ f.kind = x.kind /\ f.bar = x.bar /\ f.at = x.at /\ f.amount = q
        BY <3>1, <3>2, OrderingShape
      <3> HIDE DEF f
      <3>4. e = f
        BY <2>1 DEF f
      <3> QED
        BY <3>1, <3>2, <3>3, <3>4
    <2> QED
      BY <1>1, <1>10, <2>2, ShapesAreEvents
  <1>11. CASE kind \notin {"open", "close", "signal", "target", "charge", "halt", "fill",
                           "submit"}
    <2>1. PICK x \in Citing, o \in OrderIds, q \in Fillable \cup {0} :
             e = Ordering(x, o, q)
      BY <1>11 DEF Made, Alone, Citing, n
    <2>2. e \in Shapes /\ e.kind = kind /\ e.bar = bar /\ e.at = At(kind, bar, n)
      <3>1. x \in Shapes /\ x.kind = kind /\ x.bar = bar /\ x.at = At(kind, bar, n)
        BY <1>2
      <3>2. o \in Int /\ q \in Int
        BY <1>3
      <3> DEFINE f == Ordering(x, o, q)
      <3>3. f \in Shapes /\ f.kind = x.kind /\ f.bar = x.bar /\ f.at = x.at
        BY <3>1, <3>2, OrderingShape
      <3> HIDE DEF f
      <3>4. e = f
        BY <2>1 DEF f
      <3> QED
        BY <3>1, <3>3, <3>4
    <2> QED
      BY <1>1, <1>11, <2>2, ShapesAreEvents
  <1> QED
    BY <1>4, <1>5, <1>6, <1>7, <1>8, <1>9, <1>10, <1>11

-----------------------------------------------------------------------------
(* The inductive invariant.                                                *)

\* A new engine has an empty journal.
LEMMA EngineInvInit ==
  Init => EngineInv
  <1> SUFFICES ASSUME Init PROVE EngineInv
    OBVIOUS
  <1>1. journal = <<>> /\ mode = "live" /\ state = Fresh /\ pending = {}
    BY DEF Init
  <1> QED
    BY <1>1, FactsOfNothing DEF EngineInv

\* What an accepted event does keeps the invariant, whatever the journal answers.
LEMMA ProcessKeepsInv ==
  ASSUME EngineInv, mode = "live", NEW e \in Events, Accepts(state, e), Process(e),
         pending' \subseteq Events
  PROVE  EngineInv'
  <1>1. state = Replay(journal) /\ journal \in Seq(Events) /\ Facts(journal, Replay(journal))
    BY DEF EngineInv
  <1>2. /\ Replay(Append(journal, e)) = Publish(state, e)
        /\ Facts(Append(journal, e), Replay(Append(journal, e)))
        /\ Append(journal, e) \in Seq(Events)
    BY <1>1, FactsStep, OneMore
  <1>3. journal' \in Seq(Events) /\ Facts(journal', Replay(journal'))
    BY <1>1, <1>2 DEF Process
  <1>4. mode' \in {"live", "poisoned"} /\ (mode' = "live" => state' = Replay(journal'))
    BY <1>2 DEF Process
  <1> QED
    BY <1>3, <1>4 DEF EngineInv

\* Nothing that is unchanged breaks the invariant.
LEMMA StutterKeepsInv ==
  ASSUME EngineInv, UNCHANGED <<journal, mode, state>>, pending' \subseteq Events
  PROVE  EngineInv'
  <1>1. journal' = journal /\ mode' = mode /\ state' = state
    OBVIOUS
  <1>2. /\ journal \in Seq(Events) /\ mode \in {"live", "poisoned"}
        /\ mode = "live" => state = Replay(journal)
        /\ Facts(journal, Replay(journal))
    BY DEF EngineInv
  <1>3. /\ journal' \in Seq(Events) /\ mode' \in {"live", "poisoned"}
        /\ mode' = "live" => state' = Replay(journal')
        /\ Facts(journal', Replay(journal'))
    BY <1>1, <1>2
  <1> QED
    BY <1>3 DEF EngineInv

\* Every step keeps the invariant.
LEMMA EngineInvStep ==
  EngineInv /\ [Next]_vars => EngineInv'
  <1> SUFFICES ASSUME EngineInv, [Next]_vars PROVE EngineInv'
    OBVIOUS
  <1>0. pending \subseteq Events
    BY DEF EngineInv
  <1>1. CASE ProcessOne
    <2>1. PICK kind \in DOMAIN PhaseOf, bar \in Bars :
             /\ NextOrdinal(kind, bar) <= MaxOrdinal
             /\ \E e \in Made(kind, bar) : Accepts(state, e) /\ Process(e)
      BY <1>1 DEF ProcessOne
    <2>2. PICK e \in Made(kind, bar) : Accepts(state, e) /\ Process(e)
      BY <2>1
    <2>3. mode = "live" /\ pending' = pending
      BY <1>1 DEF ProcessOne
    <2>4. Typed(state) /\ \A c \in state.seen : c.at \in Int
      <3>1. /\ state = Replay(journal) /\ journal \in Seq(Events)
            /\ Typed(state) /\ Ordered(journal, state)
        BY <2>3 DEF EngineInv, Facts
      <3>2. \A c \in state.seen : c \in Events
        BY <3>1 DEF Ordered
      <3> QED
        BY <3>1, <3>2, EventFacts
    <2>5. e \in Events
      BY <2>1, <2>4, MadeAreEvents
    <2> QED
      BY <1>0, <2>2, <2>3, <2>5, ProcessKeepsInv
  <1>2. CASE Submit
    <2>1. UNCHANGED <<journal, mode, state>> /\ pending' \subseteq pending \cup Queueable
      BY <1>2 DEF Submit
    <2> QED
      BY <1>0, <2>1, QueueAssumption, StutterKeepsInv
  <1>3. CASE Drain
    <2>1. PICK e \in pending :
             /\ pending' = pending \ {e}
             /\ IF Accepts(state, e) THEN Process(e) ELSE UNCHANGED <<journal, mode, state>>
      BY <1>3 DEF Drain
    <2>2. mode = "live" /\ e \in Events /\ pending' \subseteq Events
      BY <1>0, <1>3, <2>1 DEF Drain
    <2>3. CASE Accepts(state, e)
      BY <2>1, <2>2, <2>3, ProcessKeepsInv
    <2>4. CASE ~Accepts(state, e)
      BY <2>1, <2>2, <2>4, StutterKeepsInv
    <2> QED
      BY <2>3, <2>4
  <1>4. CASE Recover
    <2>1. /\ state' = Replay(journal) /\ journal' = journal /\ pending' = {}
          /\ mode' = IF state' = Refused THEN "refused" ELSE "live"
      BY <1>4 DEF Recover
    <2>2. Facts(journal, Replay(journal)) /\ journal \in Seq(Events)
      BY DEF EngineInv
    <2>3. Replay(journal) # Refused
      BY <2>2, TypedIsNotRefused DEF Facts
    <2>4. mode' = "live"
      BY <2>1, <2>3
    <2>5. Facts(journal', Replay(journal')) /\ journal' \in Seq(Events)
          /\ state' = Replay(journal')
      BY <2>1, <2>2
    <2> QED
      BY <2>1, <2>4, <2>5 DEF EngineInv
  <1>5. CASE UNCHANGED vars
    BY <1>0, <1>5, StutterKeepsInv DEF vars
  <1> QED
    BY <1>1, <1>2, <1>3, <1>4, <1>5 DEF Next

\* The invariant holds in every state of every behaviour.
THEOREM EngineInvariant ==
  Spec => []EngineInv
  BY EngineInvInit, EngineInvStep, PTL DEF Spec

-----------------------------------------------------------------------------
(* What follows from it.                                                   *)

\* An engine that answers has the state its journal replays to, and no replay is
\* refused: events are published only as the replay will (event_engine.py:276, 497).
THEOREM RecoveryBuildsTheSameEngine ==
  Spec => []RecoveryIsExact
  <1>1. EngineInv => RecoveryIsExact
    BY DEF EngineInv, RecoveryIsExact
  <1> QED
    BY <1>1, EngineInvariant, PTL

\* The ledger of an engine that answers is the sum of its journal's fills and
\* charges, each fill identity counted once (ledger.py:296).
THEOREM LedgerAddsUp ==
  Spec => []LedgerIsOfTheJournal
  <1>1. EngineInv => LedgerIsOfTheJournal
    <2> SUFFICES ASSUME EngineInv, mode = "live"
                 PROVE  /\ state.cash = InitialCash - Total(Spent)
                        /\ state.position = Total(Bought)
                        /\ state.charges = Total(Fee)
                        /\ \A i, k \in Entries("fill") :
                              journal[i].id = journal[k].id => i = k
      BY DEF LedgerIsOfTheJournal
    <2>1. Balanced(journal, state)
      BY DEF EngineInv, Facts
    <2>2. /\ Total(Spent) = Sum([i \in DOMAIN journal |-> Spent(journal[i])])
          /\ Total(Bought) = Sum([i \in DOMAIN journal |-> Bought(journal[i])])
          /\ Total(Fee) = Sum([i \in DOMAIN journal |-> Fee(journal[i])])
      BY DEF Total
    <2> QED
      BY <2>1, <2>2 DEF Balanced, Entries
  <1> QED
    BY <1>1, EngineInvariant, PTL

\* An order lives within its bar and within its quantity (event_engine.py:777-800).
THEOREM OrdersEndWithTheirBar ==
  Spec => []DayOrdersEnd
  <1>1. EngineInv => DayOrdersEnd
    <2> SUFFICES ASSUME EngineInv, mode = "live", NEW o \in DOMAIN state.orders
                 PROVE
          LET order == state.orders[o]
              Of(kind) == {i \in Entries(kind) : journal[i].bar = order.bar}
              filled == Total(LAMBDA e : IF e.order = o THEN Bought(e) ELSE 0)
          IN  /\ order.status \notin {"filled", "rejected", "cancelled"} =>
                    /\ \A i \in DOMAIN journal \ Entries("halt") : journal[i].bar <= order.bar
                    /\ Of("charge") \cup Of("close") = {}
              /\ Abs(filled) <= Abs(order.qty) /\ filled * order.qty >= 0
      BY DEF DayOrdersEnd
    <2> DEFINE order == state.orders[o]
    <2> DEFINE filled == Total(LAMBDA e : IF e.order = o THEN Bought(e) ELSE 0)
    <2>1. DayOrder(journal, state, o) /\ order \in Orders
      BY DEF EngineInv, Facts, DayOrders, Typed
    <2>2. filled = order.filled
      <3>1. filled = Filled(journal, o)
        BY DEF Total, Filled, Part
      <3> HIDE DEF filled
      <3> QED
        BY <2>1, <3>1 DEF DayOrder
    <2>3. order.qty \in Int /\ order.filled \in Int
      BY <2>1 DEF Orders
    <2>4. Abs(order.filled) <= Abs(order.qty) /\ order.filled * order.qty >= 0
      <3>1. /\ order.qty > 0 => 0 <= order.filled /\ order.filled <= order.qty
            /\ order.qty < 0 => order.qty <= order.filled /\ order.filled <= 0
            /\ order.qty # 0
        BY <2>1 DEF DayOrder
      <3> DEFINE q == order.qty
      <3> DEFINE f == order.filled
      <3> HIDE DEF q, f
      <3>2. /\ q \in Int /\ f \in Int /\ q # 0
            /\ q > 0 => 0 <= f /\ f <= q
            /\ q < 0 => q <= f /\ f <= 0
        BY <2>3, <3>1 DEF q, f
      <3>3. Abs(f) <= Abs(q)
        BY <3>2 DEF Abs
      <3>4. f * q >= 0
        BY <3>2
      <3> QED
        BY <3>3, <3>4 DEF q, f
    <2>5. ASSUME order.status \notin {"filled", "rejected", "cancelled"}
          PROVE  /\ \A i \in DOMAIN journal \ Entries("halt") : journal[i].bar <= order.bar
                 /\ \A i \in Entries("charge") \cup Entries("close") :
                       journal[i].bar # order.bar
      <3>1. o \in OpenOrders(state)
        BY <2>1, <2>5 DEF OpenOrders, Orders
      <3> QED
        BY <2>1, <3>1 DEF DayOrder, Entries
    <2> HIDE DEF order, filled
    <2>6. Abs(filled) <= Abs(order.qty) /\ filled * order.qty >= 0
      BY <2>2, <2>4
    <2>7. order.status \notin {"filled", "rejected", "cancelled"} =>
             /\ \A i \in DOMAIN journal \ Entries("halt") : journal[i].bar <= order.bar
             /\ {i \in Entries("charge") : journal[i].bar = order.bar}
                  \cup {i \in Entries("close") : journal[i].bar = order.bar} = {}
      BY <2>5
    <2> QED
      BY <2>6, <2>7 DEF order, filled
  <1> QED
    BY <1>1, EngineInvariant, PTL

\* No fill answers to what its own bar revealed: its signal is of an earlier
\* session (event_engine.py:563).
THEOREM FillsDescendFromEarlierSignals ==
  Spec => []NoLookahead
  <1>1. EngineInv => NoLookahead
    <2> SUFFICES ASSUME EngineInv, NEW i \in Entries("fill")
                 PROVE  \E sig \in Entries("signal"), tgt \in Entries("target"),
                           sub \in Entries("submit") :
                          /\ journal[sub].order = journal[i].order
                          /\ journal[sub].cause = journal[tgt].at
                          /\ journal[tgt].cause = journal[sig].at
                          /\ sig < tgt /\ tgt < sub /\ sub < i
                          /\ journal[tgt].amount = journal[i].bar
                          /\ journal[sig].bar < journal[i].bar
      BY DEF NoLookahead
    <2>1. /\ Descends(journal) /\ journal \in Seq(Events)
          /\ \A k, m \in DOMAIN journal : k < m => journal[k].at < journal[m].at
      BY DEF EngineInv, Facts, Ordered
    <2>2. PICK sub \in DOMAIN journal :
             /\ journal[sub].kind = "submit" /\ journal[sub].order = journal[i].order
             /\ journal[sub].bar = journal[i].bar /\ sub < i
      BY <2>1 DEF Descends, FromSubmit, Entries
    <2>3. PICK tgt \in DOMAIN journal :
             /\ journal[tgt].kind = "target" /\ journal[tgt].at = journal[sub].cause
             /\ tgt < sub /\ journal[tgt].amount = journal[sub].bar
      BY <2>1, <2>2 DEF Descends, FromTarget
    <2>4. PICK sig \in DOMAIN journal :
             journal[sig].kind = "signal" /\ journal[sig].at = journal[tgt].cause /\ sig < tgt
      BY <2>1, <2>3 DEF Descends, FromSignal
    <2>5. journal[sig].bar <= journal[tgt].bar
      <3>1. PICK a \in Int, b \in Nat :
               a = journal[sig].at /\ b = journal[sig].bar /\ 100 * b + 70 <= a
        <4>1. journal[sig] \in Events /\ PhaseOf[journal[sig].kind] = 70
          BY <2>1, <2>4, Phases
        <4> QED
          BY <4>1, EventFacts
      <3>2. PICK x \in Int, y \in Nat :
               x = journal[tgt].at /\ y = journal[tgt].bar /\ x <= 100 * y + 89
        <4>1. journal[tgt] \in Events /\ PhaseOf[journal[tgt].kind] = 80
          BY <2>1, <2>3, Phases
        <4> QED
          BY <4>1, EventFacts
      <3>3. a < x
        BY <2>1, <2>4, <3>1, <3>2
      <3>4. 100 * b + 70 <= a /\ x <= 100 * y + 89
        BY <3>1, <3>2
      <3>5. b <= y
        BY <3>3, <3>4
      <3> QED
        BY <3>1, <3>2, <3>5
    <2>6. journal[tgt].bar < journal[tgt].amount
          /\ {journal[tgt].bar, journal[sig].bar, journal[tgt].amount} \subseteq Int
      <3>1. journal[tgt] \in Events /\ journal[sig] \in Events
        BY <2>1
      <3>2. journal[tgt].amount > journal[tgt].bar
            /\ {journal[tgt].bar, journal[tgt].amount} \subseteq Int
        BY <2>3, <3>1, EventFacts
      <3>3. journal[sig].bar \in Int
        BY <3>1, EventFacts
      <3> QED
        BY <3>2, <3>3
    <2>7. journal[sig].bar < journal[i].bar
      BY <2>2, <2>3, <2>5, <2>6
    <2> QED
      BY <2>2, <2>3, <2>4, <2>7 DEF Entries
  <1> QED
    BY <1>1, EngineInvariant, PTL

\* After an event that leaves no equity the journal holds nothing but the halt
\* that cites it (event_engine.py:474-481, 527).
THEOREM NothingOutlivesBankruptcy ==
  Spec => []BankruptcyHalts
  <1>1. EngineInv => BankruptcyHalts
    BY DEF EngineInv, Facts, Followed, BankruptcyHalts
  <1> QED
    BY <1>1, EngineInvariant, PTL
=============================================================================
