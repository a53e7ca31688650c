---------------------- MODULE SessionConversationProofs ----------------------
(***************************************************************************)
(* What a session promises about its messages, for every bound, window and *)
(* set of summaries.                                                       *)
(*                                                                         *)
(* IInv is inductive. Its parts, and why the properties need them:         *)
(*   - Tame: the ids are single and a result follows its call at once.     *)
(*     Without it the repair could not keep the last turn, and a summary   *)
(*     that ends between two turns could separate a pair.                  *)
(*   - Known: the ids on record were given out before, so a new call       *)
(*     reuses none of them.                                                *)
(*   - Whole, with a client: this is OnlyUndoOrphans.                      *)
(*   - Tiled, without one: TurnRangesTile, and every user message begins a *)
(*     range.                                                              *)
(*   - InPlace, during a query: the handled results stay before the index  *)
(*     that the end of the query scans from.                               *)
(*                                                                         *)
(* The strategies choose messages by Pick, whose lemmas come first: they   *)
(* rest on the cardinality of finite sets, and where a proof counts it     *)
(* takes the least number of a set (LeastNumber, CountUp). Follows and     *)
(* Keeps say what any strategy leaves true and are shown of each strategy; *)
(* then one lemma per action. At the end, the query loop that works on the *)
(* conversation.                                                           *)
(***************************************************************************)
EXTENDS SessionConversation, QueryLoop, FiniteSetTheorems, WellFoundedInduction, TLAPS

-----------------------------------------------------------------------------
(* Sets of indices and the messages they select.                           *)

(* The elements of a set of indices that are not beyond i.                 *)
UpTo(I, i) == {j \in I : j <= i}

(* A set of indices of a sequence is finite, and so are its parts.         *)
LEMMA IndexSet ==
  ASSUME NEW n \in Nat, NEW I \in SUBSET (1 .. n)
  PROVE  /\ IsFiniteSet(I) /\ Cardinality(I) \in 0 .. n
         /\ \A i \in Nat : /\ IsFiniteSet(UpTo(I, i)) /\ UpTo(I, i) \subseteq I
                           /\ Cardinality(UpTo(I, i)) \in Nat
                           /\ Cardinality(UpTo(I, i)) \in 0 .. Cardinality(I)
                           /\ Cardinality(UpTo(I, i)) <= i
<1>1. IsFiniteSet(1 .. n) /\ Cardinality(1 .. n) = n
  BY FS_Interval
<1>2. IsFiniteSet(I) /\ Cardinality(I) <= n /\ Cardinality(I) \in Nat
  BY <1>1, FS_Subset, FS_CardinalityType
<1>3. ASSUME NEW i \in Nat
      PROVE  /\ IsFiniteSet(UpTo(I, i)) /\ UpTo(I, i) \subseteq I
             /\ Cardinality(UpTo(I, i)) \in Nat
             /\ Cardinality(UpTo(I, i)) \in 0 .. Cardinality(I)
             /\ Cardinality(UpTo(I, i)) <= i
  <2>1. UpTo(I, i) \in SUBSET I /\ UpTo(I, i) \in SUBSET (1 .. i)
    <3>1. \A j \in I : j \in Nat /\ 1 <= j
      OBVIOUS
    <3>2. \A j \in UpTo(I, i) : j \in I /\ j \in 1 .. i
      BY <3>1 DEF UpTo
    <3> QED BY <3>2
  <2>2. IsFiniteSet(1 .. i) /\ Cardinality(1 .. i) = i
    BY FS_Interval
  <2>3. /\ IsFiniteSet(UpTo(I, i)) /\ Cardinality(UpTo(I, i)) \in Nat
        /\ Cardinality(UpTo(I, i)) <= Cardinality(I)
    BY <1>2, <2>1, FS_Subset, FS_CardinalityType
  <2>4. Cardinality(UpTo(I, i)) <= i
    BY <2>1, <2>2, FS_Subset
  <2> QED BY <2>1, <2>3, <2>4, <1>2
<1> QED BY <1>2, <1>3

(* The rank of an index within its set grows with the index.               *)
LEMMA RankGrows ==
  ASSUME NEW n \in Nat, NEW I \in SUBSET (1 .. n), NEW i \in I, NEW j \in I, i < j
  PROVE  Cardinality(UpTo(I, i)) < Cardinality(UpTo(I, j))
<1>1. i \in Nat /\ j \in Nat
  OBVIOUS
<1>2. /\ IsFiniteSet(UpTo(I, j)) /\ Cardinality(UpTo(I, j)) \in Nat
      /\ Cardinality(UpTo(I, i)) \in Nat
  BY <1>1, IndexSet, FS_CardinalityType
<1>3. UpTo(I, i) \in SUBSET UpTo(I, j) /\ j \in UpTo(I, j) /\ j \notin UpTo(I, i)
  <2>1. \A x \in I : x \in Nat
    OBVIOUS
  <2>2. \A x \in UpTo(I, i) : x \in UpTo(I, j)
    BY <1>1, <2>1 DEF UpTo
  <2>3. j \in UpTo(I, j) /\ j \notin UpTo(I, i)
    BY <1>1, <2>1 DEF UpTo
  <2> QED BY <2>2, <2>3
<1>4. Cardinality(UpTo(I, i)) <= Cardinality(UpTo(I, j)) /\ Cardinality(UpTo(I, i)) # Cardinality(UpTo(I, j))
  BY <1>2, <1>3, FS_Subset
<1> QED BY <1>2, <1>4

(* Nth enumerates a set of indices in its order: the rank of an index is   *)
(* its inverse.                                                            *)
LEMMA Enumeration ==
  ASSUME NEW n \in Nat, NEW I \in SUBSET (1 .. n)
  PROVE  /\ \A i \in I : /\ Cardinality(UpTo(I, i)) \in 1 .. Cardinality(I)
                         /\ Nth(I, Cardinality(UpTo(I, i))) = i
         /\ \A k \in 1 .. Cardinality(I) :
              Nth(I, k) \in I /\ Cardinality(UpTo(I, Nth(I, k))) = k
         /\ \A k, l \in 1 .. Cardinality(I) : k < l <=> Nth(I, k) < Nth(I, l)
<1> DEFINE C == Cardinality(I)
           f == [i \in I |-> Cardinality(UpTo(I, i))]
<1>1. IsFiniteSet(I) /\ C \in Nat
  BY IndexSet
<1>2. ASSUME NEW i \in I PROVE f[i] \in 1 .. C
  <2>1. i \in Nat /\ i \in UpTo(I, i)
    BY DEF UpTo
  <2>2. IsFiniteSet(UpTo(I, i)) /\ Cardinality(UpTo(I, i)) \in 0 .. C
    BY <2>1, IndexSet
  <2>3. Cardinality(UpTo(I, i)) # 0
    BY <2>1, <2>2, FS_EmptySet
  <2> QED BY <2>2, <2>3, <1>1
<1>3. ASSUME NEW i \in I, NEW j \in I, f[i] = f[j] PROVE i = j
  <2>1. i \in Nat /\ j \in Nat /\ f[i] \in Nat /\ f[j] \in Nat
    BY <1>2
  <2>2. ~ (i < j) /\ ~ (j < i)
    BY <1>3, <2>1, RankGrows
  <2> QED BY <2>1, <2>2
<1>4. f \in Injection(I, 1 .. C)
  BY <1>2, <1>3 DEF Injection, IsInjective
<1>5. IsFiniteSet(1 .. C) /\ Cardinality(1 .. C) = C
  BY <1>1, FS_Interval
<1>6. f \in Surjection(I, 1 .. C)
  BY <1>4, <1>5, FS_Injection
<1>7. ASSUME NEW k \in 1 .. C
      PROVE  /\ \E i \in I : Cardinality(UpTo(I, i)) = k
             /\ Nth(I, k) \in I /\ Cardinality(UpTo(I, Nth(I, k))) = k
  <2>1. \E i \in I : f[i] = k
    BY <1>6 DEF Surjection
  <2>2. \E i \in I : Cardinality({j \in I : j <= i}) = k
    BY <2>1 DEF UpTo
  <2> QED BY <2>2 DEF Nth, UpTo
<1>8. ASSUME NEW i \in I
      PROVE  Cardinality(UpTo(I, i)) \in 1 .. C /\ Nth(I, Cardinality(UpTo(I, i))) = i
  <2>1. Cardinality(UpTo(I, i)) \in 1 .. C
    BY <1>2
  <2> QED BY <2>1, <1>3, <1>7
<1>9. ASSUME NEW k \in 1 .. C, NEW l \in 1 .. C
      PROVE  k < l <=> Nth(I, k) < Nth(I, l)
  <2>1. /\ Nth(I, k) \in I /\ f[Nth(I, k)] = k
        /\ Nth(I, l) \in I /\ f[Nth(I, l)] = l
    BY <1>7
  <2>2. Nth(I, k) \in Nat /\ Nth(I, l) \in Nat
    <3>1. \A x \in I : x \in Nat
      OBVIOUS
    <3> QED BY <2>1, <3>1
  <2>3. ASSUME Nth(I, k) < Nth(I, l) PROVE k < l
    BY <2>1, <2>3, RankGrows
  <2>4. ASSUME Nth(I, l) < Nth(I, k) PROVE l < k
    BY <2>1, <2>4, RankGrows
  <2> QED BY <2>1, <2>2, <2>3, <2>4
<1> QED BY <1>7, <1>8, <1>9

(* Pick keeps the chosen messages, each at its rank.                       *)
LEMMA PickElements ==
  ASSUME NEW S, NEW s \in Seq(S), NEW I \in SUBSET DOMAIN s
  PROVE  /\ Pick(s, I) \in Seq(S) /\ Len(Pick(s, I)) = Cardinality(I)
         /\ DOMAIN Pick(s, I) = 1 .. Cardinality(I) /\ Cardinality(I) \in Nat
         /\ \A k \in 1 .. Cardinality(I) : Nth(I, k) \in I /\ Pick(s, I)[k] = s[Nth(I, k)]
         /\ \A i \in I : /\ Cardinality(UpTo(I, i)) \in 1 .. Cardinality(I)
                         /\ Nth(I, Cardinality(UpTo(I, i))) = i
                         /\ Pick(s, I)[Cardinality(UpTo(I, i))] = s[i]
<1>1. DOMAIN s = 1 .. Len(s) /\ Len(s) \in Nat
  OBVIOUS
<1>2. I \in SUBSET (1 .. Len(s)) /\ Cardinality(I) \in Nat
  <2>1. I \in SUBSET (1 .. Len(s))
    BY <1>1
  <2> QED BY <2>1, <1>1, IndexSet
<1>3. \A k \in 1 .. Cardinality(I) : Nth(I, k) \in I
  BY <1>1, <1>2, Enumeration
<1>4. \A i \in I : /\ Cardinality(UpTo(I, i)) \in 1 .. Cardinality(I)
                   /\ Nth(I, Cardinality(UpTo(I, i))) = i
  BY <1>1, <1>2, Enumeration
<1>5. \A k \in 1 .. Cardinality(I) : Pick(s, I)[k] = s[Nth(I, k)] /\ s[Nth(I, k)] \in S
  BY <1>1, <1>3 DEF Pick
<1>6. Pick(s, I) = [k \in 1 .. Cardinality(I) |-> s[Nth(I, k)]]
  BY DEF Pick
<1>7. Pick(s, I) \in [1 .. Cardinality(I) -> S]
  BY <1>5, <1>6
<1>8. Pick(s, I) \in Seq(S) /\ Len(Pick(s, I)) = Cardinality(I)
  BY <1>2, <1>7
<1> QED BY <1>2, <1>3, <1>4, <1>5, <1>6, <1>8

(* Every chosen message is in the selection, and no other one.             *)
LEMMA PickMembers ==
  ASSUME NEW S, NEW s \in Seq(S), NEW I \in SUBSET DOMAIN s
  PROVE  /\ \A k \in DOMAIN Pick(s, I) : \E i \in I : Pick(s, I)[k] = s[i]
         /\ \A i \in I : \E k \in DOMAIN Pick(s, I) : Pick(s, I)[k] = s[i]
<1>1. /\ DOMAIN Pick(s, I) = 1 .. Cardinality(I)
      /\ \A k \in 1 .. Cardinality(I) : Nth(I, k) \in I /\ Pick(s, I)[k] = s[Nth(I, k)]
  BY PickElements
<1>2. \A i \in I : /\ Cardinality(UpTo(I, i)) \in 1 .. Cardinality(I)
                   /\ Pick(s, I)[Cardinality(UpTo(I, i))] = s[i]
  BY PickElements
<1> QED BY <1>1, <1>2

(* The rank of i is i exactly when no index before it is left out.         *)
LEMMA RankStep ==
  ASSUME NEW n \in Nat, NEW I \in SUBSET (1 .. n), NEW i \in Nat
  PROVE  /\ \A j \in 1 .. i : j \notin I => Cardinality(UpTo(I, i)) <= i - 1
         /\ (\A j \in 1 .. i : j \in I) => Cardinality(UpTo(I, i)) = i
<1>1. IsFiniteSet(1 .. i) /\ Cardinality(1 .. i) = i
  BY FS_Interval
<1>2. \A x \in UpTo(I, i) : x \in 1 .. i
  <2>1. \A x \in I : x \in Nat /\ 1 <= x
    OBVIOUS
  <2> QED BY <2>1 DEF UpTo
<1>3. Cardinality(UpTo(I, i)) \in Nat
  BY IndexSet
<1>4. ASSUME NEW j \in 1 .. i, j \notin I PROVE Cardinality(UpTo(I, i)) <= i - 1
  <2>1. UpTo(I, i) \in SUBSET ((1 .. i) \ {j})
    BY <1>2, <1>4 DEF UpTo
  <2>2. IsFiniteSet((1 .. i) \ {j}) /\ Cardinality((1 .. i) \ {j}) = i - 1
    BY <1>1, FS_RemoveElement
  <2> QED BY <2>1, <2>2, FS_Subset
<1>5. ASSUME \A j \in 1 .. i : j \in I PROVE Cardinality(UpTo(I, i)) = i
  <2>1. UpTo(I, i) = 1 .. i
    <3>1. \A x \in 1 .. i : x \in I /\ x <= i
      BY <1>5
    <3>2. \A x \in 1 .. i : x \in UpTo(I, i)
      BY <3>1 DEF UpTo
    <3> QED BY <1>2, <3>2
  <2> QED BY <1>1, <2>1
<1> QED BY <1>4, <1>5

(* Choosing every index leaves a sequence as it is.                        *)
LEMMA PickAll ==
  ASSUME NEW S, NEW s \in Seq(S)
  PROVE  Pick(s, DOMAIN s) = s
<1> DEFINE n == Len(s)
<1>1. DOMAIN s = 1 .. n /\ n \in Nat /\ (1 .. n) \in SUBSET (1 .. n)
  OBVIOUS
<1> HIDE DEF n
<1>2. Cardinality(1 .. n) = n
  BY <1>1, FS_Interval
<1>3. \A i \in 1 .. n : Nth(1 .. n, i) = i
  <2> TAKE i \in 1 .. n
  <2>1. i \in Nat /\ \A j \in 1 .. i : j \in 1 .. n
    BY <1>1
  <2>2. Cardinality(UpTo(1 .. n, i)) = i
    BY <1>1, <2>1, RankStep
  <2>3. \A j \in 1 .. n : Nth(1 .. n, Cardinality(UpTo(1 .. n, j))) = j
    BY <1>1, Enumeration
  <2> QED BY <2>2, <2>3
<1>4. Pick(s, 1 .. n) = [k \in 1 .. n |-> s[k]]
  BY <1>2, <1>3 DEF Pick
<1> QED BY <1>1, <1>4

(* Two selections are the same when an increasing map takes the one onto   *)
(* the other.                                                              *)
LEMMA PickEqual ==
  ASSUME NEW S, NEW s \in Seq(S), NEW t \in Seq(S),
         NEW I \in SUBSET DOMAIN s, NEW J \in SUBSET DOMAIN t, NEW d \in [I -> J],
         \A i, j \in I : i < j => d[i] < d[j],
         \A j \in J : \E i \in I : d[i] = j,
         \A i \in I : s[i] = t[d[i]]
  PROVE  Pick(s, I) = Pick(t, J)
<1>1. /\ I \in SUBSET (1 .. Len(s)) /\ Len(s) \in Nat
      /\ J \in SUBSET (1 .. Len(t)) /\ Len(t) \in Nat
  OBVIOUS
<1>2. (\A i \in I : i \in Nat) /\ (\A j \in J : j \in Nat)
  BY <1>1
<1>3. \A i, j \in I : d[i] = d[j] => i = j
  <2> TAKE i, j \in I
  <2>1. ~ (i < j) /\ ~ (j < i) => i = j
    BY <1>2
  <2>2. i < j => d[i] < d[j]
    OBVIOUS
  <2>3. j < i => d[j] < d[i]
    OBVIOUS
  <2>4. d[i] \in Nat /\ d[j] \in Nat
    BY <1>2
  <2> QED BY <2>1, <2>2, <2>3, <2>4
<1>4. \A i, j \in I : i <= j <=> d[i] <= d[j]
  <2> TAKE i, j \in I
  <2>1. i \in Nat /\ j \in Nat /\ d[i] \in Nat /\ d[j] \in Nat
    BY <1>2
  <2>2. i < j => d[i] < d[j]
    OBVIOUS
  <2>3. j < i => d[j] < d[i]
    OBVIOUS
  <2> QED BY <2>1, <2>2, <2>3
<1>5. IsFiniteSet(I) /\ IsFiniteSet(J)
  BY <1>1, IndexSet
<1>6. d \in Bijection(I, J)
  BY <1>3 DEF Bijection, Injection, Surjection, IsInjective
<1>7. Cardinality(J) = Cardinality(I)
  BY <1>5, <1>6, FS_Bijection DEF ExistsBijection
<1>8. ASSUME NEW i \in I PROVE Cardinality(UpTo(J, d[i])) = Cardinality(UpTo(I, i))
  <2> DEFINE e == [x \in UpTo(I, i) |-> d[x]]
  <2>1. \A x \in UpTo(I, i) : x \in I /\ e[x] \in UpTo(J, d[i])
    BY <1>4 DEF UpTo
  <2>2. \A y \in UpTo(J, d[i]) : \E x \in UpTo(I, i) : e[x] = y
    <3> TAKE y \in UpTo(J, d[i])
    <3>1. y \in J /\ y <= d[i]
      BY DEF UpTo
    <3>2. PICK x \in I : d[x] = y
      BY <3>1
    <3> QED BY <3>1, <3>2, <1>4 DEF UpTo
  <2>3. e \in Bijection(UpTo(I, i), UpTo(J, d[i]))
    BY <1>3, <2>1, <2>2 DEF Bijection, Injection, Surjection, IsInjective
  <2>4. IsFiniteSet(UpTo(I, i))
    BY <1>1, <1>2, IndexSet
  <2> QED BY <2>3, <2>4, FS_Bijection DEF ExistsBijection
<1>9. ASSUME NEW k \in 1 .. Cardinality(I) PROVE s[Nth(I, k)] = t[Nth(J, k)]
  <2>1. Nth(I, k) \in I /\ Cardinality(UpTo(I, Nth(I, k))) = k
    BY <1>1, Enumeration
  <2>2. \A j \in J : Nth(J, Cardinality(UpTo(J, j))) = j
    BY <1>1, Enumeration
  <2>3. d[Nth(I, k)] \in J /\ Cardinality(UpTo(J, d[Nth(I, k)])) = k
    BY <1>8, <2>1
  <2>4. Nth(J, k) = d[Nth(I, k)]
    BY <2>2, <2>3
  <2> QED BY <2>1, <2>4
<1> QED BY <1>7, <1>9 DEF Pick

-----------------------------------------------------------------------------
(* Counting with sets.                                                     *)

(* A set of numbers has a least one: induction on the naturals, for a set. *)
LEMMA LeastNumber ==
  ASSUME NEW T \in SUBSET Nat, T # {}
  PROVE  \E x \in T : \A y \in T : x <= y
<1> DEFINE R == OpToRel(<, Nat)
<1>1. IsWellFoundedOn(R, Nat)
  BY NatLessThanWellFounded
<1>2. \A x, y \in Nat : <<y, x>> \in R <=> y < x
  BY DEF OpToRel
<1> HIDE DEF R
<1>3. PICK x \in T : \A y \in T : ~ (<<y, x>> \in R)
  BY <1>1, WFMin
<1>4. \A y \in T : ~ (y < x) /\ x \in Nat /\ y \in Nat
  BY <1>2, <1>3
<1>5. \A y \in T : x <= y
  BY <1>4
<1> QED BY <1>5

(* What holds of 0 and of the successor of every number up to n - 1 holds  *)
(* up to n.                                                                *)
LEMMA CountUp ==
  ASSUME NEW n \in Nat, NEW T, 0 \in T, \A k \in 0 .. n - 1 : k \in T => k + 1 \in T
  PROVE  \A k \in 0 .. n : k \in T
<1> DEFINE U == {k \in 0 .. n : k \notin T}
<1> SUFFICES ASSUME U # {} PROVE FALSE
  OBVIOUS
<1>1. PICK k \in U : \A l \in U : k <= l
  <2>1. U \in SUBSET Nat
    OBVIOUS
  <2> HIDE DEF U
  <2> QED BY <2>1, LeastNumber
<1>2. k \in 1 .. n /\ k - 1 \in 0 .. n - 1
  OBVIOUS
<1>3. k - 1 \notin U
  BY <1>1, <1>2
<1>4. k - 1 \in T
  BY <1>2, <1>3
<1> QED BY <1>2, <1>4

-----------------------------------------------------------------------------
(* Types.                                                                  *)

(* The messages with any ids; TypeOK bounds the ids by MaxIds.             *)
Messages ==
  [role : {"user", "assistant", "system"}, text : Nat, use : Nat, res : Nat,
   error : BOOLEAN, big : BOOLEAN]

(* The index ranges of the user turns, from 1.                             *)
Ranges == [first : Nat \ {0}, last : Nat \ {0}]

(* The states of a Conversation.                                           *)
Conversations == [msgs : Seq(Messages), turns : Seq(Ranges), anchor : Nat]

(* The constructors of Message build messages.                             *)
LEMMA MessageTypes ==
  /\ \A r \in {"user", "assistant", "system"}, cost \in Nat : Text(r, cost) \in Messages
  /\ \A id \in Nat, cost \in Nat : ToolUse(id, cost) \in Messages
  /\ \A id \in Nat, error, big \in BOOLEAN : ToolResult(id, error, big) \in Messages
BY DEF Text, ToolUse, ToolResult, Messages

(* Conversation::push appends the message and never shortens the ranges.   *)
LEMMA PushResult ==
  ASSUME NEW c \in Conversations, NEW m \in Messages
  PROVE  /\ Push(c, m) \in Conversations
         /\ Push(c, m).msgs = Append(c.msgs, m) /\ Push(c, m).anchor = c.anchor
<1>1. c.msgs \in Seq(Messages) /\ c.turns \in Seq(Ranges) /\ c.anchor \in Nat
  BY DEF Conversations
<1>2. NextIndex(c.msgs) \in Nat \ {0}
  BY <1>1 DEF NextIndex
<1>3. [first |-> NextIndex(c.msgs), last |-> NextIndex(c.msgs)] \in Ranges
  BY <1>2 DEF Ranges
<1>4. ExtendTurn(c.turns, NextIndex(c.msgs)) \in Seq(Ranges)
  <2>1. CASE c.turns = << >>
    BY <1>1, <2>1 DEF ExtendTurn
  <2>2. CASE c.turns # << >>
    <3>1. Len(c.turns) \in DOMAIN c.turns /\ c.turns[Len(c.turns)] \in Ranges
      BY <1>1, <2>2
    <3>2. [c.turns[Len(c.turns)] EXCEPT !.last = NextIndex(c.msgs)] \in Ranges
      BY <1>2, <3>1 DEF Ranges
    <3>3. ExtendTurn(c.turns, NextIndex(c.msgs))
            = [c.turns EXCEPT ![Len(c.turns)] = [c.turns[Len(c.turns)] EXCEPT !.last = NextIndex(c.msgs)]]
      BY <2>2 DEF ExtendTurn
    <3> QED BY <1>1, <3>1, <3>2, <3>3
  <2> QED BY <2>1, <2>2
<1>5. Append(c.msgs, m) \in Seq(Messages)
  BY <1>1
<1>6. Append(c.turns, [first |-> NextIndex(c.msgs), last |-> NextIndex(c.msgs)]) \in Seq(Ranges)
  BY <1>1, <1>3
<1> QED BY <1>4, <1>5, <1>6 DEF Push, Conversations

(* The replacement of the messages by the strategies: a Conversation again,*)
(* with the messages it was given.                                         *)
LEMMA RebuildResult ==
  ASSUME NEW c \in Conversations, NEW ms \in Seq(Messages)
  PROVE  /\ Rebuild(c, ms) \in Conversations
         /\ Rebuild(c, ms).msgs = ms /\ Rebuild(c, ms).anchor = c.anchor
<1> DEFINE N == Len(ms)
           base == [c EXCEPT !.msgs = << >>, !.turns = << >>]
           Next1(g, k) == IF k = 0 THEN base ELSE Push(g[k - 1], ms[k])
           Grows(g, n) == \A k \in 0 .. n : g[k] = Next1(g, k)
<1>1. N \in Nat /\ \A k \in 1 .. N : ms[k] \in Messages
  OBVIOUS
<1>2. base \in Conversations /\ base.msgs = << >> /\ base.anchor = c.anchor
  <2>1. << >> \in Seq(Messages) /\ << >> \in Seq(Ranges)
    OBVIOUS
  <2> HIDE DEF N
  <2> QED BY <2>1 DEF Conversations
<1> HIDE DEF N, base
<1>3. \E g \in [0 .. N -> Conversations] : Grows(g, N)
  <2> DEFINE T == {n \in 0 .. N : \E g \in [0 .. n -> Conversations] : Grows(g, n)}
  <2>1. 0 \in T
    <3> DEFINE g == [k \in 0 .. 0 |-> base]
    <3>1. g \in [0 .. 0 -> Conversations] /\ Grows(g, 0)
      BY <1>2
    <3>2. 0 \in 0 .. N
      BY <1>1
    <3> HIDE DEF g, Grows
    <3> QED BY <3>1, <3>2
  <2>2. ASSUME NEW n \in 0 .. N - 1, n \in T PROVE n + 1 \in T
    <3>1. PICK g \in [0 .. n -> Conversations] : Grows(g, n)
      BY <2>2
    <3> DEFINE h == [k \in 0 .. n + 1 |-> IF k = n + 1 THEN Push(g[n], ms[n + 1]) ELSE g[k]]
    <3>2. n \in 0 .. n /\ n + 1 \in 1 .. N /\ n \in Nat
      BY <1>1
    <3>3. Push(g[n], ms[n + 1]) \in Conversations
      BY <1>1, <3>2, PushResult
    <3>4. h \in [0 .. n + 1 -> Conversations]
      BY <3>3
    <3>5. ASSUME NEW k \in 0 .. n + 1 PROVE h[k] = Next1(h, k)
      <4>1. CASE k = n + 1
        <5>1. k # 0 /\ k - 1 = n /\ h[n] = g[n] /\ h[k] = Push(g[n], ms[n + 1])
          BY <3>2, <4>1
        <5> QED BY <4>1, <5>1
      <4>2. CASE k # n + 1
        <5>1. k \in 0 .. n /\ h[k] = g[k] /\ (k # 0 => h[k - 1] = g[k - 1])
          BY <3>2, <4>2
        <5> QED BY <3>1, <5>1
      <4> QED BY <4>1, <4>2
    <3>6. Grows(h, n + 1)
      BY <3>5
    <3> HIDE DEF h, Grows
    <3> QED BY <3>2, <3>4, <3>6
  <2> HIDE DEF T
  <2>3. N \in T
    <3>1. \A k \in 0 .. N : k \in T
      BY <1>1, <2>1, <2>2, CountUp
    <3> QED BY <1>1, <3>1
  <2> QED BY <2>3 DEF T
<1> DEFINE pushed == CHOOSE g : g = [k \in 0 .. N |-> Next1(g, k)]
<1>4. pushed = [k \in 0 .. N |-> Next1(pushed, k)]
  <2>1. PICK g \in [0 .. N -> Conversations] : Grows(g, N)
    BY <1>3
  <2>2. g = [k \in 0 .. N |-> Next1(g, k)]
    BY <2>1
  <2> QED BY <2>2
<1>a. \A k \in 0 .. N : pushed[k] = Next1(pushed, k)
  <2> HIDE DEF pushed, Next1
  <2> QED BY <1>4
<1>5. Rebuild(c, ms) = pushed[N]
  BY DEF Rebuild, N, base
<1> HIDE DEF pushed
<1> DEFINE T == {k \in 0 .. N : /\ pushed[k] \in Conversations
                                /\ pushed[k].msgs = SubSeq(ms, 1, k)
                                /\ pushed[k].anchor = c.anchor}
<1>6. 0 \in T
  <2>1. pushed[0] = base /\ 0 \in 0 .. N
    BY <1>1, <1>a
  <2>2. SubSeq(ms, 1, 0) = << >>
    OBVIOUS
  <2> QED BY <1>2, <2>1, <2>2
<1>7. ASSUME NEW k \in 0 .. N - 1, k \in T PROVE k + 1 \in T
  <2>1. k + 1 \in 0 .. N /\ k + 1 # 0 /\ k + 1 \in 1 .. N /\ k + 1 - 1 = k
    BY <1>1
  <2>2. pushed[k + 1] = Push(pushed[k], ms[k + 1])
    BY <1>a, <2>1
  <2>3. /\ pushed[k + 1] \in Conversations
        /\ pushed[k + 1].msgs = Append(SubSeq(ms, 1, k), ms[k + 1])
        /\ pushed[k + 1].anchor = c.anchor
    <3> DEFINE d == pushed[k]
               m == ms[k + 1]
    <3>1. d \in Conversations /\ d.msgs = SubSeq(ms, 1, k) /\ d.anchor = c.anchor
      BY <1>7
    <3>2. m \in Messages
      BY <1>1, <2>1
    <3> HIDE DEF d, m
    <3>3. /\ Push(d, m) \in Conversations
          /\ Push(d, m).msgs = Append(d.msgs, m) /\ Push(d, m).anchor = d.anchor
      BY <3>1, <3>2, PushResult
    <3>4. pushed[k + 1] = Push(d, m)
      BY <2>2 DEF d, m
    <3> QED BY <3>1, <3>3, <3>4 DEF m
  <2>4. Append(SubSeq(ms, 1, k), ms[k + 1]) = SubSeq(ms, 1, k + 1)
    BY <2>1 DEF N
  <2> QED BY <2>1, <2>3, <2>4
<1>8. N \in T
  <2> HIDE DEF T
  <2>1. \A k \in 0 .. N : k \in T
    BY <1>1, <1>6, <1>7, CountUp
  <2> QED BY <1>1, <2>1
<1>9. SubSeq(ms, 1, N) = ms
  BY DEF N
<1> QED BY <1>5, <1>8, <1>9

-----------------------------------------------------------------------------
(* What the strategies keep.                                               *)

(* What push_user, push_assistant and the tool turn put into a message:    *)
(* calls in assistant messages, results alone in user messages, text in    *)
(* system ones.                                                            *)
Shaped(m) ==
  /\ m.use # 0 => m.role = "assistant" /\ m.res = 0
  /\ m.res # 0 => m.role = "user" /\ m.text = 0
  /\ m.error \/ m.big => m.res # 0
  /\ m.role = "system" => m.text # 0

(* No two tool_use blocks and no two tool_result blocks have the same id.  *)
Single(ms) ==
  \A i, j \in DOMAIN ms :
    /\ ms[i].use = ms[j].use /\ ms[i].use # 0 => i = j
    /\ ms[i].res = ms[j].res /\ ms[i].res # 0 => i = j

(* A tool_result is in the message after its tool_use.                     *)
Adjacent(ms) ==
  \A i, j \in DOMAIN ms : ms[i].use # 0 /\ ms[j].res = ms[i].use => j = i + 1

(* What every list of messages of a session satisfies.                     *)
Tame(ms) == (\A i \in DOMAIN ms : Shaped(ms[i])) /\ Single(ms) /\ Adjacent(ms)

(* The results of H are before the index s.                                *)
Early(ms, H, s) == \A i \in DOMAIN ms : ms[i].res \in H => i < s

(* Before s there is a pair of messages that a summary folds away or keeps *)
(* as they are: after the important messages, one that is not important and*)
(* its successor of the same turn.                                         *)
Led(ms, s) ==
  \E k \in DOMAIN ms :
    /\ k + 1 < s /\ k + 1 \in DOMAIN ms
    /\ ~Important(ms[k]) /\ ~Important(ms[k + 1]) /\ ms[k + 1].role # "user"
    /\ \A j \in 1 .. k - 1 : Important(ms[j])

(* The results of H stay before the index that handle_query_complete scans *)
(* from. A summary replaces at least two messages of a led list by its own *)
(* two, and one message only when that is a turn of its own: this is why a *)
(* result may have moved one place beyond s, and never two.                *)
InPlace(ms, H, s) ==
  \/ Early(ms, H, s)
  \/ Led(ms, s) /\ Early(ms, H, s + 1)

(* Every id of the new list is an id of the old one.                       *)
IdsFrom(ms, ns) ==
  \A k \in DOMAIN ns :
    /\ ns[k].use = 0 \/ \E i \in DOMAIN ms : ms[i].use = ns[k].use
    /\ ns[k].res = 0 \/ \E i \in DOMAIN ms : ms[i].res = ns[k].res

(* No set of results that was in place is out of place in the new list.    *)
StaysInPlace(ms, ns) ==
  \A H \in SUBSET (Nat \ {0}), s \in Nat : InPlace(ms, H, s) => InPlace(ns, H, s)

(* The new list comes from the old one by a compaction.                    *)
Follows(ms, ns) ==
  /\ ns \in Seq(Messages) /\ Tame(ns)
  /\ IdsFrom(ms, ns) /\ StaysInPlace(ms, ns)

(* The messages of K, perhaps rewritten: same role, fewer blocks, as       *)
(* important.                                                              *)
Variant(ms, ns, K) ==
  /\ ns \in Seq(Messages) /\ Len(ns) = Len(ms)
  /\ \A i \in K : /\ Shaped(ns[i]) /\ ns[i].role = ms[i].role
                  /\ ns[i].use \in {0, ms[i].use} /\ ns[i].res \in {0, ms[i].res}
                  /\ Important(ns[i]) <=> Important(ms[i])

(* Dropping messages and blocks, in any combination, is a compaction in    *)
(* this sense.                                                             *)
LEMMA SelectFollows ==
  ASSUME NEW ms \in Seq(Messages), Tame(ms), NEW K \in SUBSET DOMAIN ms,
         NEW vs, Variant(ms, vs, K)
  PROVE  Follows(ms, Pick(vs, K))
<1> DEFINE n == Len(ms)
           ns == Pick(vs, K)
           C == Cardinality(K)
           e(k) == Nth(K, k)
<1>1. /\ vs \in Seq(Messages) /\ K \in SUBSET DOMAIN vs /\ K \in SUBSET (1 .. n)
      /\ n \in Nat /\ DOMAIN ms = 1 .. n
  BY DEF Variant
<1>2. /\ ns \in Seq(Messages) /\ DOMAIN ns = 1 .. C /\ C \in Nat
      /\ \A k \in 1 .. C : e(k) \in K /\ ns[k] = vs[e(k)]
  BY <1>1, PickElements
<1>3. \A k \in 1 .. C : e(k) \in DOMAIN ms /\ e(k) \in Nat
  BY <1>1, <1>2
<1>4. \A k, l \in 1 .. C : k < l <=> e(k) < e(l)
  BY <1>1, Enumeration
<1>5. \A k \in 1 .. C : k <= e(k) /\ Cardinality(UpTo(K, e(k))) = k
  <2> TAKE k \in 1 .. C
  <2>1. Cardinality(UpTo(K, e(k))) = k
    BY <1>1, Enumeration
  <2>2. Cardinality(UpTo(K, e(k))) <= e(k)
    BY <1>1, <1>3, IndexSet
  <2> QED BY <2>1, <2>2
<1>6. \A k \in 1 .. C :
        /\ Shaped(ns[k]) /\ ns[k].role = ms[e(k)].role
        /\ ns[k].use \in {0, ms[e(k)].use} /\ ns[k].res \in {0, ms[e(k)].res}
        /\ Important(ns[k]) <=> Important(ms[e(k)])
  BY <1>2 DEF Variant
<1> HIDE DEF ns, C, e, n
<1>7. Single(ns)
  <2> SUFFICES ASSUME NEW k \in 1 .. C, NEW l \in 1 .. C
               PROVE  /\ ns[k].use = ns[l].use /\ ns[k].use # 0 => k = l
                      /\ ns[k].res = ns[l].res /\ ns[k].res # 0 => k = l
    BY <1>2 DEF Single
  <2>1. e(k) = e(l) => k = l
    BY <1>2, <1>3, <1>4
  <2>2. e(k) \in DOMAIN ms /\ e(l) \in DOMAIN ms
    BY <1>3
  <2> QED BY <1>6, <2>1, <2>2 DEF Tame, Single
<1>8. Adjacent(ns)
  <2> SUFFICES ASSUME NEW k \in 1 .. C, NEW l \in 1 .. C, ns[k].use # 0, ns[l].res = ns[k].use
               PROVE  l = k + 1
    BY <1>2 DEF Adjacent
  <2>1. ms[e(k)].use # 0 /\ ms[e(l)].res = ms[e(k)].use
    BY <1>6
  <2>2. e(l) = e(k) + 1
    BY <1>3, <2>1 DEF Tame, Adjacent
  <2>3. k < l
    BY <1>3, <1>4, <2>2
  <2>4. ~ (k + 1 < l)
    <3> SUFFICES ASSUME k + 1 < l PROVE FALSE
      OBVIOUS
    <3>1. k + 1 \in 1 .. C /\ k < k + 1
      BY <1>2
    <3>2. e(k) < e(k + 1) /\ e(k + 1) < e(l)
      BY <1>4, <3>1
    <3> QED BY <1>3, <2>2, <3>1, <3>2
  <2> QED BY <1>2, <2>3, <2>4
<1>9. Tame(ns)
  BY <1>2, <1>6, <1>7, <1>8 DEF Tame
<1>10. IdsFrom(ms, ns)
  BY <1>2, <1>3, <1>6 DEF IdsFrom
<1>11. StaysInPlace(ms, ns)
  <2> SUFFICES ASSUME NEW H \in SUBSET (Nat \ {0}), NEW s \in Nat, InPlace(ms, H, s)
               PROVE  InPlace(ns, H, s)
    BY DEF StaysInPlace
  <2>1. \A k \in 1 .. C : ns[k].res \in H => ms[e(k)].res \in H
    BY <1>6
  <2>2. CASE Early(ms, H, s)
    <3>1. Early(ns, H, s)
      BY <1>2, <1>3, <1>5, <2>1, <2>2, SMTT(60) DEF Early
    <3> QED BY <3>1 DEF InPlace
  <2>3. CASE Led(ms, s) /\ Early(ms, H, s + 1)
    <3>1. \A k \in 1 .. C : ns[k].res \in H => e(k) <= s
      BY <1>3, <2>1, <2>3 DEF Early
    <3>2. CASE \E j \in 1 .. s - 1 : j \notin K
      <4>1. PICK j \in 1 .. s - 1 : j \notin K
        BY <3>2
      <4>2. Cardinality(UpTo(K, s)) <= s - 1
        <5>1. j \in 1 .. s
          OBVIOUS
        <5> QED BY <1>1, <4>1, <5>1, RankStep
      <4>3. \A k \in 1 .. C : ns[k].res \in H => k < s
        <5> SUFFICES ASSUME NEW k \in 1 .. C, ns[k].res \in H PROVE k < s
          OBVIOUS
        <5>1. e(k) <= s /\ k <= e(k) /\ e(k) \in Nat /\ (e(k) = s => k <= s - 1)
          BY <1>3, <1>5, <3>1, <4>2
        <5> QED BY <5>1
      <4> QED BY <1>2, <4>3 DEF InPlace, Early
    <3>3. CASE \A j \in 1 .. s - 1 : j \in K
      <4>1. \A j \in 1 .. s - 1 : j \in 1 .. C /\ e(j) = j
        <5> TAKE j \in 1 .. s - 1
        <5>1. j \in K /\ j \in Nat /\ \A x \in 1 .. j : x \in K
          BY <3>3
        <5>2. Cardinality(UpTo(K, j)) = j
          BY <1>1, <5>1, RankStep
        <5>3. /\ Cardinality(UpTo(K, j)) \in 1 .. Cardinality(K)
              /\ Nth(K, Cardinality(UpTo(K, j))) = j
          BY <1>1, <5>1, Enumeration
        <5> QED BY <5>2, <5>3 DEF C, e
      <4>2. PICK k \in DOMAIN ms :
              /\ k + 1 < s /\ k + 1 \in DOMAIN ms
              /\ ~Important(ms[k]) /\ ~Important(ms[k + 1]) /\ ms[k + 1].role # "user"
              /\ \A j \in 1 .. k - 1 : Important(ms[j])
        BY <2>3 DEF Led
      <4>3. k \in 1 .. s - 1 /\ k + 1 \in 1 .. s - 1 /\ \A j \in 1 .. k - 1 : j \in 1 .. s - 1
        BY <1>1, <4>2
      <4>4. /\ ~Important(ns[k]) /\ ~Important(ns[k + 1]) /\ ns[k + 1].role # "user"
            /\ \A j \in 1 .. k - 1 : Important(ns[j])
        BY <1>6, <4>1, <4>2, <4>3
      <4>5. Led(ns, s)
        BY <1>2, <4>1, <4>2, <4>3, <4>4 DEF Led
      <4>6. Early(ns, H, s + 1)
        BY <1>2, <1>3, <1>5, <3>1 DEF Early
      <4> QED BY <4>5, <4>6 DEF InPlace
    <3> QED BY <3>2, <3>3
  <2> QED BY <2>2, <2>3 DEF InPlace
<1> QED BY <1>2, <1>9, <1>10, <1>11 DEF Follows, ns

(* The indices of the system messages.                                     *)
IsSystem(ms) == {i \in DOMAIN ms : ms[i].role = "system"}

(* A selection that drops and rewrites no system message keeps them in     *)
(* order.                                                                  *)
LEMMA SelectSystem ==
  ASSUME NEW ms \in Seq(Messages), NEW vs \in Seq(Messages), Len(vs) = Len(ms),
         NEW K \in SUBSET DOMAIN ms, IsSystem(ms) \subseteq K,
         \A i \in K : vs[i].role = ms[i].role /\ (ms[i].role = "system" => vs[i] = ms[i])
  PROVE  SystemMessages(Pick(vs, K)) = SystemMessages(ms)
<1> DEFINE ns == Pick(vs, K)
           C == Cardinality(K)
           e(k) == Nth(K, k)
           I == IsSystem(ns)
           J == IsSystem(ms)
           d == [k \in I |-> e(k)]
<1>1. K \in SUBSET DOMAIN vs /\ K \in SUBSET (1 .. Len(ms)) /\ Len(ms) \in Nat
  OBVIOUS
<1>2. /\ ns \in Seq(Messages) /\ DOMAIN ns = 1 .. C
      /\ \A k \in 1 .. C : e(k) \in K /\ ns[k] = vs[e(k)]
  BY <1>1, PickElements
<1>3. \A k, l \in 1 .. C : k < l <=> e(k) < e(l)
  BY <1>1, Enumeration
<1>4. \A i \in K : Cardinality(UpTo(K, i)) \in 1 .. C /\ e(Cardinality(UpTo(K, i))) = i
  BY <1>1, Enumeration
<1> HIDE DEF ns, C, e
<1>5. I \in SUBSET DOMAIN ns /\ J \in SUBSET DOMAIN ms
  BY DEF IsSystem
<1>6. \A k \in I : k \in 1 .. C /\ e(k) \in J /\ ns[k] = ms[e(k)]
  BY <1>2 DEF IsSystem
<1>7. \A j \in J : \E k \in I : e(k) = j
  <2> TAKE j \in J
  <2>1. PICK k \in 1 .. C : e(k) = j
    BY <1>4
  <2>2. k \in I
    BY <1>2, <2>1 DEF IsSystem
  <2> QED BY <2>1, <2>2
<1> HIDE DEF I, J
<1>8. /\ d \in [I -> J]
      /\ \A k, l \in I : k < l => d[k] < d[l]
      /\ \A j \in J : \E k \in I : d[k] = j
      /\ \A k \in I : ns[k] = ms[d[k]]
  BY <1>3, <1>6, <1>7
<1> HIDE DEF d
<1>9. Pick(ns, I) = Pick(ms, J)
  <2>1. ns \in Seq(Messages)
    BY <1>2
  <2> QED BY <1>5, <1>8, <2>1, PickEqual
<1> QED BY <1>9 DEF SystemMessages, I, J, IsSystem, ns

(* The compaction of c into d: what follows the old messages, with the same*)
(* system messages.                                                        *)
Keeps(c, d) ==
  /\ d \in Conversations
  /\ Follows(c.msgs, d.msgs)
  /\ SystemMessages(d.msgs) = SystemMessages(c.msgs)

(* A strategy that does nothing keeps everything.                          *)
LEMMA KeepsItself ==
  ASSUME NEW c \in Conversations, Tame(c.msgs)
  PROVE  Keeps(c, c)
BY DEF Keeps, Follows, IdsFrom, StaysInPlace, Conversations

(* The strategies are applied one after the other.                         *)
LEMMA KeepsFurther ==
  ASSUME NEW b, NEW c, NEW d, Keeps(b, c), Keeps(c, d)
  PROVE  Keeps(b, d)
<1>1. IdsFrom(b.msgs, c.msgs) /\ IdsFrom(c.msgs, d.msgs)
  BY DEF Keeps, Follows
<1>2. IdsFrom(b.msgs, d.msgs)
  BY <1>1 DEF IdsFrom
<1>3. StaysInPlace(b.msgs, d.msgs)
  BY DEF Keeps, Follows, StaysInPlace
<1> QED BY <1>2, <1>3 DEF Keeps, Follows

(* A strategy that replaces the messages by a list that follows them.      *)
LEMMA RebuildKeeps ==
  ASSUME NEW c \in Conversations, NEW ms, Follows(c.msgs, ms),
         SystemMessages(ms) = SystemMessages(c.msgs)
  PROVE  Keeps(c, Rebuild(c, ms))
BY RebuildResult DEF Keeps, Follows

(* extract_important never takes a message with a tool_use for important.  *)
LEMMA ImportantStays ==
  ASSUME NEW ms \in Seq(Messages), Tame(ms), NEW i \in DOMAIN ms
  PROVE  ms[i].use # 0 => ~Important(ms[i])
<1>1. ms[i] \in Messages /\ Shaped(ms[i])
  BY DEF Tame
<1> QED BY <1>1 DEF Shaped, Important, Messages

(* snip_large_tool_results: only the size of a result changes.             *)
LEMMA ShrinkKeeps ==
  ASSUME NEW c \in Conversations, Tame(c.msgs)
  PROVE  /\ Keeps(c, Shrink(c))
         /\ Shrink(c).msgs = [i \in DOMAIN c.msgs |->
                                IF i \in Removable(c, PreserveRecent)
                                THEN [c.msgs[i] EXCEPT !.big = FALSE] ELSE c.msgs[i]]
<1> DEFINE ms == c.msgs
           vs == [i \in DOMAIN ms |-> IF i \in Removable(c, PreserveRecent)
                                      THEN [ms[i] EXCEPT !.big = FALSE] ELSE ms[i]]
<1>1. ms \in Seq(Messages) /\ DOMAIN ms = 1 .. Len(ms) /\ Len(ms) \in Nat
  BY DEF Conversations
<1>2. \A i \in DOMAIN ms : /\ vs[i] \in Messages /\ Shaped(vs[i]) /\ vs[i].role = ms[i].role
                           /\ vs[i].use = ms[i].use /\ vs[i].res = ms[i].res
                           /\ Important(vs[i]) <=> Important(ms[i])
                           /\ ms[i].role = "system" => vs[i] = ms[i]
  <2> TAKE i \in DOMAIN ms
  <2>1. ms[i] \in Messages /\ Shaped(ms[i])
    BY <1>1 DEF Tame
  <2>2. CASE i \in Removable(c, PreserveRecent)
    <3>1. ~Important(ms[i])
      BY <2>2 DEF Removable
    <3>2. vs[i] = [ms[i] EXCEPT !.big = FALSE]
      BY <2>2
    <3> QED BY <2>1, <3>1, <3>2 DEF Messages, Shaped, Important
  <2>3. CASE i \notin Removable(c, PreserveRecent)
    BY <2>1, <2>3
  <2> QED BY <2>2, <2>3
<1>3. vs \in Seq(Messages) /\ Len(vs) = Len(ms) /\ DOMAIN vs = DOMAIN ms
  <2>1. vs \in [1 .. Len(ms) -> Messages]
    BY <1>1, <1>2
  <2> HIDE DEF vs
  <2> QED BY <1>1, <2>1
<1> HIDE DEF vs
<1>4. Pick(vs, DOMAIN ms) = vs
  BY <1>3, PickAll
<1>5. Variant(ms, vs, DOMAIN ms)
  BY <1>2, <1>3 DEF Variant
<1>6. Follows(ms, vs)
  BY <1>1, <1>4, <1>5, SelectFollows
<1>7. SystemMessages(vs) = SystemMessages(ms)
  <2>1. IsSystem(ms) \subseteq DOMAIN ms
    BY DEF IsSystem
  <2> QED BY <1>1, <1>2, <1>3, <1>4, <2>1, SelectSystem, SMTT(60)
<1>8. Shrink(c) = Rebuild(c, vs)
  BY DEF Shrink, vs
<1> QED BY <1>3, <1>6, <1>7, <1>8, RebuildKeeps, RebuildResult DEF vs

-----------------------------------------------------------------------------
(* The repair.                                                             *)

(* repair_tool_pairing drops blocks and empty messages and leaves every id *)
(* paired.                                                                 *)
LEMMA RepairKeeps ==
  ASSUME NEW c \in Conversations, Tame(c.msgs)
  PROVE  Keeps(c, RepairPairing(c)) /\ Paired(RepairPairing(c).msgs)
<1> DEFINE ms == c.msgs
           used == {ms[i].use : i \in DOMAIN ms}
           answered == {ms[i].res : i \in DOMAIN ms}
           vs == [i \in DOMAIN ms |->
                    [ms[i] EXCEPT !.use = IF ms[i].use \in answered THEN ms[i].use ELSE 0,
                                  !.res = IF ms[i].res \in used THEN ms[i].res ELSE 0,
                                  !.error = ms[i].error /\ ms[i].res \in used,
                                  !.big = ms[i].big /\ ms[i].res \in used]]
           K == {i \in DOMAIN vs : ~Empty(vs[i])}
           ns == Pick(vs, K)
<1>1. ms \in Seq(Messages) /\ DOMAIN ms = 1 .. Len(ms) /\ Len(ms) \in Nat
  BY DEF Conversations
<1>2. RepairPairing(c) = [c EXCEPT !.msgs = ns]
  BY DEF RepairPairing, NonEmpty
<1>3. ASSUME NEW i \in DOMAIN ms
      PROVE  /\ vs[i] \in Messages /\ vs[i].role = ms[i].role /\ vs[i].text = ms[i].text
             /\ vs[i].use = IF ms[i].use \in answered THEN ms[i].use ELSE 0
             /\ vs[i].res = IF ms[i].res \in used THEN ms[i].res ELSE 0
             /\ vs[i].error = (ms[i].error /\ ms[i].res \in used)
             /\ vs[i].big = (ms[i].big /\ ms[i].res \in used)
             /\ ms[i] \in Messages /\ Shaped(ms[i])
  <2>1. ms[i] \in Messages /\ Shaped(ms[i])
    BY <1>1 DEF Tame
  <2> HIDE DEF used, answered
  <2> QED BY <2>1 DEF Messages
<1>4. vs \in Seq(Messages) /\ Len(vs) = Len(ms) /\ DOMAIN vs = DOMAIN ms
  <2>1. vs \in [1 .. Len(ms) -> Messages]
    BY <1>1, <1>3
  <2> HIDE DEF vs
  <2> QED BY <1>1, <2>1
<1> HIDE DEF vs, used, answered
<1>5. ASSUME NEW i \in DOMAIN ms
      PROVE  Shaped(vs[i]) /\ (i \in K => (Important(vs[i]) <=> Important(ms[i])))
  <2>1. Shaped(vs[i])
    BY <1>3 DEF Shaped
  <2>2. i \in K => ~Empty(vs[i])
    OBVIOUS
  <2>3. i \in K /\ ms[i].error => vs[i].error
    BY <1>3, <2>2 DEF Shaped, Empty, Messages
  <2> QED BY <1>3, <2>1, <2>3 DEF Important
<1>6. Variant(ms, vs, K)
  BY <1>3, <1>4, <1>5 DEF Variant
<1>7. Follows(ms, ns)
  <2>1. K \in SUBSET DOMAIN ms
    BY <1>4
  <2> HIDE DEF K
  <2> QED BY <1>1, <1>6, <2>1, SelectFollows
<1>8. SystemMessages(ns) = SystemMessages(ms)
  <2>1. \A i \in DOMAIN ms : ms[i].role = "system" => vs[i] = ms[i] /\ ~Empty(vs[i])
    <3> SUFFICES ASSUME NEW i \in DOMAIN ms, ms[i].role = "system"
                 PROVE  vs[i] = ms[i] /\ ~Empty(vs[i])
      OBVIOUS
    <3>1. /\ ms[i].use = 0 /\ ms[i].res = 0 /\ ms[i].error = FALSE /\ ms[i].big = FALSE
          /\ ms[i].text # 0
      BY <1>3 DEF Shaped, Messages
    <3>2. vs[i].use = 0 /\ vs[i].res = 0 /\ vs[i].error = FALSE /\ vs[i].big = FALSE
      BY <1>3, <3>1
    <3> QED BY <1>3, <3>1, <3>2 DEF Messages, Empty
  <2>2. IsSystem(ms) \subseteq K /\ K \in SUBSET DOMAIN ms
    BY <1>4, <2>1 DEF IsSystem
  <2>3. \A i \in K : vs[i].role = ms[i].role /\ (ms[i].role = "system" => vs[i] = ms[i])
    BY <1>3, <1>4, <2>1
  <2> HIDE DEF K
  <2> QED BY <1>1, <1>4, <2>2, <2>3, SelectSystem
<1>9. /\ \A k \in DOMAIN ns : \E i \in K : ns[k] = vs[i]
      /\ \A i \in K : \E k \in DOMAIN ns : ns[k] = vs[i]
  <2>1. K \in SUBSET DOMAIN vs
    OBVIOUS
  <2> HIDE DEF K
  <2> QED BY <1>4, <2>1, PickMembers
<1>10. DOMAIN ns = 1 .. Len(ns) /\ Len(ns) \in Nat /\ Adjacent(ns)
  BY <1>7 DEF Follows, Tame
<1>11. ASSUME NEW u \in Nat \ {0}, NEW i \in DOMAIN ms, NEW j \in DOMAIN ms,
              ms[i].use = u, ms[j].res = u
       PROVE  \E k, l \in DOMAIN ns : ns[k].use = u /\ ns[l].res = u /\ l = k + 1
  <2>1. vs[i].use = u /\ vs[j].res = u
    BY <1>3, <1>11 DEF used, answered
  <2>2. i \in K /\ j \in K
    BY <1>4, <2>1 DEF Empty
  <2>3. PICK k \in DOMAIN ns : ns[k] = vs[i]
    BY <1>9, <2>2
  <2>4. PICK l \in DOMAIN ns : ns[l] = vs[j]
    BY <1>9, <2>2
  <2> HIDE DEF ns
  <2> QED BY <1>10, <2>1, <2>3, <2>4 DEF Adjacent
<1>12. ASSUME NEW k \in DOMAIN ns
       PROVE  UseAnswered(ns, k) /\ ResultAsked(ns, k)
  <2>1. PICK i \in K : ns[k] = vs[i]
    BY <1>9
  <2>2. i \in DOMAIN ms
    BY <1>4
  <2>3. Single(ns)
    BY <1>7 DEF Follows, Tame
  <2> HIDE DEF ns, K
  <2>4. ASSUME ns[k].use # 0 PROVE k < Len(ns) /\ ns[k + 1].res = ns[k].use
    <3>1. ms[i].use = ns[k].use /\ ms[i].use \in answered /\ ms[i].use \in Nat \ {0}
      BY <1>3, <2>1, <2>2, <2>4 DEF Messages
    <3>2. PICK j \in DOMAIN ms : ms[j].res = ms[i].use
      BY <3>1 DEF answered
    <3>3. PICK k1, l \in DOMAIN ns : ns[k1].use = ms[i].use /\ ns[l].res = ms[i].use /\ l = k1 + 1
      BY <1>11, <2>2, <3>1, <3>2
    <3>4. k1 = k
      BY <2>3, <2>4, <3>1, <3>3 DEF Single
    <3> QED BY <1>10, <3>1, <3>3, <3>4
  <2>5. ASSUME ns[k].res # 0 PROVE k > 1 /\ ns[k - 1].use = ns[k].res
    <3>1. ms[i].res = ns[k].res /\ ms[i].res \in used /\ ms[i].res \in Nat \ {0}
      BY <1>3, <2>1, <2>2, <2>5 DEF Messages
    <3>2. PICK j \in DOMAIN ms : ms[j].use = ms[i].res
      BY <3>1 DEF used
    <3>3. PICK k1, l \in DOMAIN ns : ns[k1].use = ms[i].res /\ ns[l].res = ms[i].res /\ l = k1 + 1
      BY <1>11, <2>2, <3>1, <3>2
    <3>4. l = k
      BY <2>3, <2>5, <3>1, <3>3 DEF Single
    <3> QED BY <1>10, <3>1, <3>3, <3>4
  <2> QED BY <2>4, <2>5 DEF UseAnswered, ResultAsked
<1>13. RepairPairing(c) \in Conversations /\ RepairPairing(c).msgs = ns
  <2>1. ns \in Seq(Messages)
    BY <1>7 DEF Follows
  <2> HIDE DEF ns
  <2> QED BY <1>2, <2>1 DEF Conversations
<1> QED BY <1>7, <1>8, <1>12, <1>13 DEF Keeps, Paired

(* The end of compact_with_config: the repair and the anchor.              *)
LEMMA CompactedKeeps ==
  ASSUME NEW c \in Conversations, Tame(c.msgs)
  PROVE  /\ Keeps(c, Compacted(c)) /\ Paired(Compacted(c).msgs)
         /\ Compacted(c).msgs = RepairPairing(c).msgs
<1>1. Keeps(c, RepairPairing(c)) /\ Paired(RepairPairing(c).msgs)
  BY RepairKeeps
<1>2. Compacted(c) \in Conversations /\ Compacted(c).msgs = RepairPairing(c).msgs
  <2>1. RepairPairing(c) \in Conversations
    BY <1>1 DEF Keeps
  <2> QED BY <2>1 DEF Compacted, Conversations
<1> QED BY <1>1, <1>2 DEF Keeps

-----------------------------------------------------------------------------
(* Truncation.                                                             *)

(* The messages the truncation keeps are among those it may keep.          *)
LEMMA GreedyFromI ==
  ASSUME NEW ms \in Seq(Messages), NEW I, NEW budget
  PROVE  GreedyFromEnd(ms, I, budget) \subseteq I
<1> DEFINE N == Len(ms)
           Take(kept, i) ==
             IF i \in I /\ CostOf(ms, kept \cup {i}) <= budget THEN kept \cup {i} ELSE kept
           Next1(g, k) == IF k = 0 THEN {} ELSE Take(g[k - 1], N + 1 - k)
           Grows(g, n) == \A k \in 0 .. n : g[k] = Next1(g, k)
<1>1. N \in Nat
  OBVIOUS
<1> HIDE DEF N
<1>2. \A i : \A kept \in SUBSET I : Take(kept, i) \in SUBSET I
  OBVIOUS
<1> HIDE DEF Take
<1>3. \E g \in [0 .. N -> SUBSET I] : Grows(g, N)
  <2> DEFINE T == {n \in 0 .. N : \E g \in [0 .. n -> SUBSET I] : Grows(g, n)}
  <2>1. 0 \in T
    <3> DEFINE g == [k \in 0 .. 0 |-> {}]
    <3>1. g \in [0 .. 0 -> SUBSET I] /\ Grows(g, 0)
      OBVIOUS
    <3>2. 0 \in 0 .. N
      BY <1>1
    <3> HIDE DEF g, Grows
    <3> QED BY <3>1, <3>2
  <2>2. ASSUME NEW n \in 0 .. N - 1, n \in T PROVE n + 1 \in T
    <3>1. PICK g \in [0 .. n -> SUBSET I] : Grows(g, n)
      BY <2>2
    <3> DEFINE h == [k \in 0 .. n + 1 |-> IF k = n + 1 THEN Take(g[n], N + 1 - (n + 1)) ELSE g[k]]
    <3>2. n \in 0 .. n /\ n + 1 \in 0 .. N /\ n \in Nat
      BY <1>1
    <3>3. Take(g[n], N + 1 - (n + 1)) \in SUBSET I
      BY <1>2, <3>2
    <3>4. h \in [0 .. n + 1 -> SUBSET I]
      BY <3>3
    <3>5. ASSUME NEW k \in 0 .. n + 1 PROVE h[k] = Next1(h, k)
      <4>1. CASE k = n + 1
        <5>1. k # 0 /\ k - 1 = n /\ h[n] = g[n] /\ h[k] = Take(g[n], N + 1 - k)
          BY <3>2, <4>1
        <5> QED BY <5>1
      <4>2. CASE k # n + 1
        <5>1. k \in 0 .. n /\ h[k] = g[k] /\ (k # 0 => h[k - 1] = g[k - 1])
          BY <3>2, <4>2
        <5> QED BY <3>1, <5>1
      <4> QED BY <4>1, <4>2
    <3>6. Grows(h, n + 1)
      BY <3>5
    <3> HIDE DEF h, Grows
    <3> QED BY <3>2, <3>4, <3>6
  <2> HIDE DEF T
  <2>3. \A k \in 0 .. N : k \in T
    BY <1>1, <2>1, <2>2, CountUp
  <2>4. N \in T
    BY <1>1, <2>3
  <2> QED BY <2>4 DEF T
<1> DEFINE taken == CHOOSE g : g = [k \in 0 .. N |-> Next1(g, k)]
<1>4. taken = [k \in 0 .. N |-> Next1(taken, k)]
  <2>1. PICK g \in [0 .. N -> SUBSET I] : Grows(g, N)
    BY <1>3
  <2>2. g = [k \in 0 .. N |-> Next1(g, k)]
    BY <2>1
  <2> QED BY <2>2
<1>5. GreedyFromEnd(ms, I, budget) = taken[N]
  BY DEF GreedyFromEnd, N, Take
<1>6. \A k \in 0 .. N : taken[k] = Next1(taken, k)
  <2> HIDE DEF taken, Next1
  <2> QED BY <1>4
<1> HIDE DEF taken
<1> DEFINE T == {k \in 0 .. N : taken[k] \in SUBSET I}
<1>7. 0 \in T
  <2>1. taken[0] = {} /\ 0 \in 0 .. N
    BY <1>1, <1>6
  <2> QED BY <2>1
<1>8. ASSUME NEW k \in 0 .. N - 1, k \in T PROVE k + 1 \in T
  <2>1. k + 1 \in 0 .. N /\ k + 1 # 0 /\ k + 1 - 1 = k
    BY <1>1
  <2>2. taken[k + 1] = Take(taken[k], N + 1 - (k + 1))
    BY <1>6, <2>1
  <2>3. taken[k] \in SUBSET I
    BY <1>8
  <2>4. taken[k + 1] \in SUBSET I
    BY <1>2, <2>2, <2>3
  <2> QED BY <2>1, <2>4
<1> HIDE DEF T
<1>9. \A k \in 0 .. N : k \in T
  BY <1>1, <1>7, <1>8, CountUp
<1>10. N \in T
  BY <1>1, <1>9
<1> QED BY <1>5, <1>10 DEF T

(* The truncating strategy drops messages and no system message.           *)
LEMMA TruncateKeeps ==
  ASSUME NEW c \in Conversations, Tame(c.msgs), NEW budget
  PROVE  Keeps(c, Truncate(c, budget))
<1> DEFINE ms == c.msgs
           all == DOMAIN ms
           removable == Removable(c, PreserveRecent)
           fixed == all \ removable
           important == {i \in all : Important(ms[i])}
           room == budget - CostOf(ms, fixed)
           greedy == GreedyFromEnd(ms, removable, room)
           end == LongestEnd(ms, fixed \ important, budget - CostOf(ms, important))
           kept == IF room >= 0 THEN fixed \cup greedy ELSE important \cup end
<1>1. ms \in Seq(Messages)
  BY DEF Conversations
<1>2. removable \subseteq all /\ \A i \in removable : ~Important(ms[i])
  BY DEF Removable, Old, OldUpTo
<1>3. greedy \subseteq removable
  BY <1>1, GreedyFromI
<1>4. end \subseteq fixed
  BY DEF LongestEnd
<1>5. IsSystem(ms) \subseteq important /\ important \subseteq fixed
  BY <1>2 DEF IsSystem, Important
<1>6. IsSystem(ms) \subseteq kept /\ kept \in SUBSET all
  <2> HIDE DEF greedy, end, fixed, important, removable, room
  <2>1. fixed \subseteq all /\ important \subseteq all
    BY DEF fixed, important
  <2> QED BY <1>2, <1>3, <1>4, <1>5, <2>1
<1> HIDE DEF kept
<1>7. Variant(ms, ms, kept)
  BY <1>1, <1>6 DEF Variant, Tame
<1>8. Follows(ms, Pick(ms, kept))
  BY <1>1, <1>6, <1>7, SelectFollows
<1>9. SystemMessages(Pick(ms, kept)) = SystemMessages(ms)
  BY <1>1, <1>6, SelectSystem
<1>10. Keeps(c, Rebuild(c, Pick(ms, kept)))
  BY <1>8, <1>9, RebuildKeeps
<1>11. Truncate(c, budget) = IF TotalCost(ms) <= budget THEN c ELSE Rebuild(c, Pick(ms, kept))
  BY DEF Truncate, kept
<1> QED BY <1>10, <1>11, KeepsItself

-----------------------------------------------------------------------------
(* The old messages are those before some index.                           *)

(* The number of turns that the summary replaces.                          *)
LEMMA BoundaryValue ==
  ASSUME NEW c \in Conversations, NEW keep \in Nat
  PROVE  Boundary(c, keep) = IF Len(c.turns) > keep THEN Len(c.turns) - keep ELSE 0
<1> DEFINE a == Len(c.turns) - keep
           v == IF a > 0 THEN a ELSE 0
<1>1. a \in Int /\ Len(c.turns) \in Nat
  BY DEF Conversations
<1>2. v \in {a, 0} /\ \A y \in {a, 0} : v >= y
  BY <1>1
<1>3. \A x \in {a, 0} : (\A y \in {a, 0} : x >= y) => x = v
  BY <1>1
<1>4. Max({a, 0}) = v
  <2> HIDE DEF a, v
  <2> QED BY <1>2, <1>3 DEF Max
<1> QED BY <1>1, <1>4 DEF Boundary

(* A set of indices that is closed downwards is an interval from 1.        *)
LEMMA PrefixSet ==
  ASSUME NEW n \in Nat, NEW D \in SUBSET (1 .. n), \A i \in D, j \in 1 .. n : j <= i => j \in D
  PROVE  \E b \in 0 .. n : D = 1 .. b
<1> DEFINE T == {i \in 1 .. n + 1 : i \notin D}
<1>1. n + 1 \in T /\ T \in SUBSET Nat
  OBVIOUS
<1> HIDE DEF T
<1>2. PICK x \in T : \A y \in T : x <= y
  BY <1>1, LeastNumber
<1>3. x \in 1 .. n + 1 /\ x \notin D
  BY <1>2 DEF T
<1>4. \A j \in 1 .. x - 1 : j \in D
  <2> TAKE j \in 1 .. x - 1
  <2>1. j \notin T /\ j \in 1 .. n + 1
    BY <1>2, <1>3
  <2> QED BY <2>1 DEF T
<1>5. \A j \in D : j \in 1 .. x - 1
  <2> TAKE j \in D
  <2>1. j \in 1 .. n /\ ~ (x <= j)
    BY <1>3
  <2> QED BY <1>3, <2>1
<1>6. D = 1 .. x - 1
  BY <1>4, <1>5
<1>7. x - 1 \in 0 .. n
  BY <1>3
<1> QED BY <1>6, <1>7

(* The user messages up to an index, as a set of indices.                  *)
LEMMA UsersBefore ==
  ASSUME NEW c \in Conversations, NEW i \in Nat
  PROVE  /\ UserIndices(c.msgs) \in SUBSET (1 .. Len(c.msgs)) /\ Len(c.msgs) \in Nat
         /\ DOMAIN c.msgs = 1 .. Len(c.msgs)
         /\ {j \in UserIndices(c.msgs) : j <= i} = UpTo(UserIndices(c.msgs), i)
         /\ Cardinality(UpTo(UserIndices(c.msgs), i)) \in Nat
         /\ \A j \in Nat : j <= i => Cardinality(UpTo(UserIndices(c.msgs), j))
                                      <= Cardinality(UpTo(UserIndices(c.msgs), i))
<1> DEFINE U == UserIndices(c.msgs)
<1>1. DOMAIN c.msgs = 1 .. Len(c.msgs) /\ Len(c.msgs) \in Nat
  BY DEF Conversations
<1>2. U \in SUBSET (1 .. Len(c.msgs))
  BY <1>1 DEF UserIndices
<1> HIDE DEF U
<1>3. IsFiniteSet(UpTo(U, i)) /\ Cardinality(UpTo(U, i)) \in Nat
  BY <1>1, <1>2, IndexSet
<1>4. ASSUME NEW j \in Nat, j <= i PROVE Cardinality(UpTo(U, j)) <= Cardinality(UpTo(U, i))
  <2>1. \A x \in U : x \in Nat
    BY <1>1, <1>2
  <2>2. \A x \in UpTo(U, j) : x \in UpTo(U, i)
    BY <1>4, <2>1 DEF UpTo
  <2>3. UpTo(U, j) \in SUBSET UpTo(U, i)
    BY <2>2
  <2> QED BY <1>3, <2>3, FS_Subset
<1> QED BY <1>1, <1>2, <1>3, <1>4 DEF U, UpTo

(* The turns to be summarised are the first messages, up to a user message.*)
LEMMA OldIsPrefix ==
  ASSUME NEW c \in Conversations, NEW keep \in Nat
  PROVE  /\ \E b \in 0 .. Len(c.msgs) : Old(c, keep) = 1 .. b
         /\ \A k \in Old(c, keep) : k + 1 \in DOMAIN c.msgs /\ c.msgs[k + 1].role # "user"
                                    => k + 1 \in Old(c, keep)
<1> DEFINE U == UserIndices(c.msgs)
           turn == Boundary(c, keep)
           D == Old(c, keep)
           n == Len(c.msgs)
<1>1. turn \in Nat
  <2>1. Len(c.turns) \in Nat
    BY DEF Conversations
  <2> QED BY <2>1, BoundaryValue
<1>2. /\ n \in Nat /\ DOMAIN c.msgs = 1 .. n /\ U \in SUBSET (1 .. n)
      /\ \A i \in Nat : {j \in U : j <= i} = UpTo(U, i)
      /\ \A i \in Nat : Cardinality(UpTo(U, i)) \in Nat
      /\ \A i, j \in Nat : j <= i => Cardinality(UpTo(U, j)) <= Cardinality(UpTo(U, i))
  BY UsersBefore, 0 \in Nat
<1>3. \A i : i \in D <=> i \in 1 .. n /\ Cardinality(UpTo(U, i)) <= turn
  <2>1. D = {i \in 1 .. n : Cardinality({j \in U : j <= i}) <= turn}
    BY <1>2 DEF Old, OldUpTo
  <2>2. \A i \in 1 .. n : {j \in U : j <= i} = UpTo(U, i)
    <3>1. \A i \in 1 .. n : i \in Nat
      OBVIOUS
    <3> QED BY <1>2, <3>1
  <2> HIDE DEF D, U, turn, n
  <2> QED BY <2>1, <2>2
<1> HIDE DEF D, U, turn
<1>4. \A i \in D, j \in 1 .. n : j <= i => j \in D
  <2> SUFFICES ASSUME NEW i \in D, NEW j \in 1 .. n, j <= i PROVE j \in D
    OBVIOUS
  <2>1. i \in Nat /\ j \in Nat /\ Cardinality(UpTo(U, i)) <= turn
    BY <1>3
  <2>2. /\ Cardinality(UpTo(U, j)) <= Cardinality(UpTo(U, i))
        /\ Cardinality(UpTo(U, j)) \in Nat /\ Cardinality(UpTo(U, i)) \in Nat
    BY <1>2, <2>1
  <2>3. Cardinality(UpTo(U, j)) <= turn
    BY <1>1, <2>1, <2>2
  <2> QED BY <1>3, <2>3
<1>5. D \in SUBSET (1 .. n)
  BY <1>3
<1>6. \E b \in 0 .. n : D = 1 .. b
  BY <1>2, <1>4, <1>5, PrefixSet
<1>7. ASSUME NEW k \in D, k + 1 \in DOMAIN c.msgs, c.msgs[k + 1].role # "user"
      PROVE  k + 1 \in D
  <2>1. k \in 1 .. n /\ Cardinality(UpTo(U, k)) <= turn
    BY <1>3
  <2>2. k + 1 \notin U
    BY <1>7 DEF U, UserIndices
  <2>3. \A x \in U : x \in Nat
    BY <1>2
  <2>4. UpTo(U, k + 1) = UpTo(U, k)
    BY <2>1, <2>2, <2>3 DEF UpTo
  <2> QED BY <1>2, <1>3, <1>7, <2>1, <2>4
<1> QED BY <1>6, <1>7 DEF D

(* An interval of indices selects a subsequence.                           *)
LEMMA PickInterval ==
  ASSUME NEW S, NEW s \in Seq(S), NEW a \in Nat \ {0}, NEW b \in 0 .. Len(s), a <= b + 1
  PROVE  Pick(s, a .. b) = SubSeq(s, a, b)
<1> DEFINE t == SubSeq(s, a, b)
           d == [k \in a .. b |-> k - a + 1]
<1>1. /\ t \in Seq(S) /\ Len(t) = b - a + 1 /\ DOMAIN t = 1 .. b - a + 1
      /\ \A k \in 1 .. b - a + 1 : t[k] = s[k + a - 1]
  OBVIOUS
<1> HIDE DEF t
<1>2. (a .. b) \in SUBSET DOMAIN s /\ DOMAIN t \in SUBSET DOMAIN t
  OBVIOUS
<1>3. /\ d \in [a .. b -> DOMAIN t]
      /\ \A i, j \in a .. b : i < j => d[i] < d[j]
      /\ \A j \in DOMAIN t : \E i \in a .. b : d[i] = j
      /\ \A i \in a .. b : s[i] = t[d[i]]
  <2>1. \A i \in a .. b : d[i] \in 1 .. b - a + 1 /\ t[d[i]] = s[i]
    BY <1>1
  <2>2. \A j \in 1 .. b - a + 1 : j + a - 1 \in a .. b /\ d[j + a - 1] = j
    OBVIOUS
  <2>3. \A i, j \in a .. b : i < j => d[i] < d[j]
    OBVIOUS
  <2> QED BY <1>1, <2>1, <2>2, <2>3
<1> HIDE DEF d
<1>4. Pick(s, a .. b) = Pick(t, DOMAIN t)
  <2> DEFINE I == a .. b
             J == DOMAIN t
  <2>1. /\ I \in SUBSET DOMAIN s /\ J \in SUBSET DOMAIN t /\ d \in [I -> J]
        /\ \A i, j \in I : i < j => d[i] < d[j]
        /\ \A j \in J : \E i \in I : d[i] = j
        /\ \A i \in I : s[i] = t[d[i]]
    BY <1>2, <1>3
  <2>2. t \in Seq(S)
    BY <1>1
  <2> HIDE DEF I, J
  <2>3. Pick(s, I) = Pick(t, J)
    BY <2>1, <2>2, PickEqual
  <2> QED BY <2>3 DEF I, J
<1> QED BY <1>1, <1>4, PickAll DEF t

(* The elements of a concatenation.                                        *)
LEMMA Joined ==
  ASSUME NEW S, NEW s \in Seq(S), NEW t \in Seq(S)
  PROVE  /\ s \o t \in Seq(S) /\ Len(s \o t) = Len(s) + Len(t)
         /\ \A k \in 1 .. Len(s) : (s \o t)[k] = s[k]
         /\ \A k \in 1 .. Len(t) : (s \o t)[Len(s) + k] = t[k]
OBVIOUS

(* The important messages, the summary and its acknowledgement, the recent *)
(* turns.                                                                  *)
SummaryOf(ms, important, b, summary) ==
  Pick(ms, important) \o <<Text("user", summary), Text("assistant", 1)>>
                      \o Pick(ms, (b + 1) .. Len(ms))

(* Its messages, one by one: p important ones come first.                  *)
SummaryShape(ns, ms, I, b, summary, p) ==
  LET n == Len(ms) - b + p + 2
  IN  /\ ns \in Seq(Messages) /\ Len(ns) = n /\ DOMAIN ns = 1 .. n /\ p \in 0 .. b
      /\ \A k \in 1 .. p : Nth(I, k) \in I /\ ns[k] = ms[Nth(I, k)]
      /\ ns[p + 1] = Text("user", summary) /\ ns[p + 2] = Text("assistant", 1)
      /\ \A k \in p + 3 .. n : ns[k] = ms[k - p - 2 + b]

(* The messages of a summarised conversation have this shape.              *)
LEMMA SummaryElements ==
  ASSUME NEW ms \in Seq(Messages), NEW b \in 0 .. Len(ms), NEW I \in SUBSET (1 .. b),
         NEW summary \in Nat
  PROVE  SummaryShape(SummaryOf(ms, I, b, summary), ms, I, b, summary, Cardinality(I))
<1> DEFINE p == Cardinality(I)
           P == Pick(ms, I)
           M == <<Text("user", summary), Text("assistant", 1)>>
           R == SubSeq(ms, b + 1, Len(ms))
<1>1. /\ P \in Seq(Messages) /\ Len(P) = p /\ p \in Nat
      /\ \A k \in 1 .. p : Nth(I, k) \in I /\ P[k] = ms[Nth(I, k)]
  <2>1. I \in SUBSET DOMAIN ms
    OBVIOUS
  <2> QED BY <2>1, PickElements
<1>2. M \in Seq(Messages) /\ Len(M) = 2 /\ M[1] = Text("user", summary) /\ M[2] = Text("assistant", 1)
  BY MessageTypes
<1>3. /\ R \in Seq(Messages) /\ Len(R) = Len(ms) - b
      /\ \A k \in 1 .. Len(ms) - b : R[k] = ms[k + b]
  OBVIOUS
<1>4. R = Pick(ms, (b + 1) .. Len(ms))
  <2>1. b + 1 \in Nat \ {0} /\ Len(ms) \in 0 .. Len(ms) /\ b + 1 <= Len(ms) + 1
    OBVIOUS
  <2> QED BY <2>1, PickInterval
<1>5. p \in 0 .. b
  <2>1. b \in Nat
    OBVIOUS
  <2> QED BY <2>1, IndexSet
<1> DEFINE ns == P \o M \o R
<1> HIDE DEF P, M, R, p
<1>6. /\ ns \in Seq(Messages) /\ Len(ns) = Len(ms) - b + p + 2
      /\ \A k \in 1 .. p : ns[k] = P[k]
      /\ ns[p + 1] = M[1] /\ ns[p + 2] = M[2]
      /\ \A k \in p + 3 .. Len(ms) - b + p + 2 : ns[k] = R[k - p - 2]
  <2>1. Len(ms) - b \in Nat
    OBVIOUS
  <2> DEFINE Q == P \o M
             r == Len(ms) - b
  <2>2. /\ Q \in Seq(Messages) /\ Len(Q) = p + 2
        /\ \A k \in 1 .. p : Q[k] = P[k]
        /\ Q[p + 1] = M[1] /\ Q[p + 2] = M[2]
    <3> HIDE DEF Q, ns, r
    <3>1. /\ Q \in Seq(Messages) /\ Len(Q) = Len(P) + Len(M)
          /\ \A k \in 1 .. Len(P) : Q[k] = P[k]
          /\ \A k \in 1 .. Len(M) : Q[Len(P) + k] = M[k]
      <4>1. P \in Seq(Messages) /\ M \in Seq(Messages)
        BY <1>1, <1>2
      <4> QED BY <4>1, Joined DEF Q
    <3> QED BY <1>1, <1>2, <3>1
  <2>3. ns = Q \o R
    OBVIOUS
  <2>4. Len(R) = r /\ r \in Nat
    BY <1>3, <2>1
  <2> HIDE DEF Q, ns, r
  <2>a. /\ ns \in Seq(Messages) /\ Len(ns) = Len(Q) + Len(R)
        /\ \A l \in 1 .. Len(Q) : ns[l] = Q[l]
        /\ \A l \in 1 .. Len(R) : ns[Len(Q) + l] = R[l]
    <3>1. Q \in Seq(Messages) /\ R \in Seq(Messages)
      BY <1>3, <2>2
    <3> QED BY <2>3, <3>1, Joined
  <2>5. ns \in Seq(Messages) /\ Len(ns) = r + p + 2
    BY <1>1, <2>2, <2>4, <2>a
  <2>6. \A k \in 1 .. p + 2 : ns[k] = Q[k]
    BY <2>2, <2>a
  <2>7. \A k \in p + 3 .. r + p + 2 : ns[k] = R[k - p - 2]
    <3> TAKE k \in p + 3 .. r + p + 2
    <3>1. k - p - 2 \in 1 .. r /\ p + 2 + (k - p - 2) = k
      BY <1>1, <2>4
    <3> QED BY <2>2, <2>4, <2>a, <3>1
  <2>8. (\A k \in 1 .. p : k \in 1 .. p + 2) /\ p + 1 \in 1 .. p + 2 /\ p + 2 \in 1 .. p + 2
    BY <1>1
  <2> QED BY <2>2, <2>5, <2>6, <2>7, <2>8 DEF r
<1>7. \A k \in p + 3 .. Len(ms) - b + p + 2 : ns[k] = ms[k - p - 2 + b]
  <2> TAKE k \in p + 3 .. Len(ms) - b + p + 2
  <2>1. k - p - 2 \in 1 .. Len(ms) - b
    BY <1>1
  <2>2. ns[k] = R[k - p - 2]
    BY <1>6
  <2> HIDE DEF ns
  <2> QED BY <1>3, <2>1, <2>2
<1>8. SummaryOf(ms, I, b, summary) = ns
  BY <1>4 DEF SummaryOf, P, M
<1> HIDE DEF ns
<1>9. DOMAIN ns = 1 .. Len(ns)
  BY <1>6
<1>10. SummaryShape(ns, ms, I, b, summary, p)
  BY <1>1, <1>2, <1>5, <1>6, <1>7, <1>9 DEF SummaryShape
<1> QED BY <1>8, <1>10 DEF p

(* Two lists have the same system messages when an increasing map of       *)
(* indices takes the ones to the others.                                   *)
LEMMA SystemSame ==
  ASSUME NEW ms \in Seq(Messages), NEW ns \in Seq(Messages), NEW e,
         \A k \in IsSystem(ns) : e[k] \in IsSystem(ms) /\ ns[k] = ms[e[k]],
         \A j \in IsSystem(ms) : \E k \in IsSystem(ns) : e[k] = j,
         \A k, l \in IsSystem(ns) : k < l => e[k] < e[l]
  PROVE  SystemMessages(ns) = SystemMessages(ms)
<1> DEFINE I == IsSystem(ns)
           J == IsSystem(ms)
           d == [k \in I |-> e[k]]
<1>1. I \in SUBSET DOMAIN ns /\ J \in SUBSET DOMAIN ms
  BY DEF IsSystem
<1> HIDE DEF I, J
<1>2. /\ d \in [I -> J]
      /\ \A k, l \in I : k < l => d[k] < d[l]
      /\ \A j \in J : \E k \in I : d[k] = j
      /\ \A k \in I : ns[k] = ms[d[k]]
  BY DEF I, J
<1> HIDE DEF d
<1>3. Pick(ns, I) = Pick(ms, J)
  BY <1>1, <1>2, PickEqual
<1> QED BY <1>3 DEF SystemMessages, I, J, IsSystem

(* The messages after the summary follow those before it: the ids stay     *)
(* single and adjacent because the summary ends where a turn ends, and the *)
(* handled results stay in place.                                          *)
LEMMA SummaryFollows ==
  ASSUME NEW ms \in Seq(Messages), Tame(ms), NEW b \in 0 .. Len(ms), NEW I \in SUBSET (1 .. b),
         NEW summary \in Nat,
         \A i \in 1 .. b : i \in I <=> Important(ms[i]),
         \E i \in 1 .. b : i \notin I,
         \A i \in 1 .. b : i + 1 \in DOMAIN ms /\ ms[i + 1].role # "user" => i + 1 \in 1 .. b
  PROVE  /\ Follows(ms, SummaryOf(ms, I, b, summary))
         /\ SystemMessages(SummaryOf(ms, I, b, summary)) = SystemMessages(ms)
<1> DEFINE p == Cardinality(I)
           ns == SummaryOf(ms, I, b, summary)
           n == Len(ms) - b + p + 2
           Carried == (1 .. p) \cup (p + 3 .. n)
           e == [k \in Carried |-> IF k <= p THEN Nth(I, k) ELSE k - p - 2 + b]
<1>1. /\ ns \in Seq(Messages) /\ Len(ns) = n /\ DOMAIN ns = 1 .. n /\ p \in 0 .. b
      /\ \A k \in 1 .. p : Nth(I, k) \in I /\ ns[k] = ms[Nth(I, k)]
      /\ ns[p + 1] = Text("user", summary) /\ ns[p + 2] = Text("assistant", 1)
      /\ \A k \in p + 3 .. n : ns[k] = ms[k - p - 2 + b]
  <2>1. SummaryShape(ns, ms, I, b, summary, p)
    BY SummaryElements
  <2> HIDE DEF ns, p
  <2> QED BY <2>1 DEF SummaryShape
<1>2. /\ Len(ms) \in Nat /\ b \in Nat /\ b <= Len(ms) /\ DOMAIN ms = 1 .. Len(ms)
      /\ p \in Nat /\ n \in Nat
  <2>1. Len(ms) \in Nat /\ b \in Nat /\ b <= Len(ms) /\ DOMAIN ms = 1 .. Len(ms)
    OBVIOUS
  <2>2. p \in 0 .. b
    BY <1>1
  <2> HIDE DEF p
  <2>3. p \in Nat
    BY <2>2
  <2> QED BY <2>1, <2>3
<1>3. \A k, l \in 1 .. p : k < l <=> Nth(I, k) < Nth(I, l)
  BY <1>2, Enumeration
<1>4. \A k \in 1 .. p : Nth(I, k) \in 1 .. b /\ Cardinality(UpTo(I, Nth(I, k))) = k /\ k <= Nth(I, k)
  <2> TAKE k \in 1 .. p
  <2>1. Nth(I, k) \in I /\ Nth(I, k) \in 1 .. b /\ Nth(I, k) \in Nat
    <3>1. Nth(I, k) \in I
      BY <1>1
    <3>2. \A x \in I : x \in 1 .. b
      OBVIOUS
    <3>3. Nth(I, k) \in 1 .. b
      BY <3>1, <3>2
    <3> QED BY <3>1, <3>3
  <2>2. Cardinality(UpTo(I, Nth(I, k))) = k
    BY <1>2, Enumeration
  <2>3. Cardinality(UpTo(I, Nth(I, k))) <= Nth(I, k)
    BY <1>2, <2>1, IndexSet
  <2> QED BY <2>1, <2>2, <2>3
<1> HIDE DEF ns, p
<1>5. \A k \in Carried : /\ k \in 1 .. n /\ e[k] \in DOMAIN ms /\ ns[k] = ms[e[k]]
                         /\ k <= p => e[k] \in I /\ e[k] \in 1 .. b /\ Important(ns[k]) /\ k <= e[k]
                         /\ k > p => k >= p + 3 /\ e[k] = k - p - 2 + b /\ e[k] > b
  <2> SUFFICES ASSUME NEW k \in Carried
               PROVE  /\ k \in 1 .. n /\ e[k] \in DOMAIN ms /\ ns[k] = ms[e[k]]
                      /\ k <= p => e[k] \in I /\ e[k] \in 1 .. b /\ Important(ns[k]) /\ k <= e[k]
                      /\ k > p => k >= p + 3 /\ e[k] = k - p - 2 + b /\ e[k] > b
    OBVIOUS
  <2>1. CASE k \in 1 .. p
    <3>1. e[k] = Nth(I, k) /\ e[k] \in I /\ ns[k] = ms[e[k]] /\ e[k] \in 1 .. b /\ k <= e[k]
      BY <1>1, <1>2, <1>4, <2>1, SMTT(60)
    <3>2. Important(ns[k])
      BY <3>1
    <3> QED BY <1>2, <2>1, <3>1, <3>2
  <2>2. CASE k \in p + 3 .. n
    <3>1. e[k] = k - p - 2 + b /\ k > p
      BY <1>2, <2>2
    <3>2. ns[k] = ms[k - p - 2 + b]
      BY <1>1, <2>2
    <3>3. k - p - 2 + b \in 1 .. Len(ms) /\ k - p - 2 + b > b /\ k \in 1 .. n
      BY <1>2, <2>2
    <3> QED BY <1>2, <2>2, <3>1, <3>2, <3>3
  <2> QED BY <2>1, <2>2
<1>6. \A k, l \in Carried : k < l <=> e[k] < e[l]
  <2> SUFFICES ASSUME NEW k \in Carried, NEW l \in Carried PROVE k < l <=> e[k] < e[l]
    OBVIOUS
  <2>1. k \in Nat /\ l \in Nat /\ e[k] \in Nat /\ e[l] \in Nat
    <3>1. \A x \in Carried : x \in 1 .. n /\ e[x] \in 1 .. Len(ms)
      BY <1>2, <1>5
    <3> HIDE DEF e, Carried, n
    <3>2. k \in 1 .. n /\ l \in 1 .. n /\ e[k] \in 1 .. Len(ms) /\ e[l] \in 1 .. Len(ms)
      BY <3>1
    <3> QED BY <3>2
  <2>2. CASE k <= p /\ l <= p
    <3>1. k \in 1 .. p /\ l \in 1 .. p
      BY <1>2, <2>1, <2>2
    <3>2. e[k] = Nth(I, k) /\ e[l] = Nth(I, l)
      BY <3>1, <2>2
    <3> QED BY <1>3, <3>1, <3>2
  <2>3. CASE ~ (k <= p /\ l <= p)
    <3>1. /\ k <= p => e[k] <= b
          /\ l <= p => e[l] <= b
          /\ k > p => e[k] = k - p - 2 + b /\ e[k] > b
          /\ l > p => e[l] = l - p - 2 + b /\ e[l] > b
      <4>1. \A x \in Carried : /\ x <= p => e[x] \in 1 .. b
                               /\ x > p => e[x] = x - p - 2 + b /\ e[x] > b
        BY <1>5
      <4> HIDE DEF e, Carried, n
      <4>2. /\ k <= p => e[k] \in 1 .. b
            /\ l <= p => e[l] \in 1 .. b
            /\ k > p => e[k] = k - p - 2 + b /\ e[k] > b
            /\ l > p => e[l] = l - p - 2 + b /\ e[l] > b
        BY <4>1
      <4> QED BY <1>2, <4>2
    <3> HIDE DEF e, Carried, n
    <3>2. CASE k <= p /\ l > p
      BY <1>2, <2>1, <3>1, <3>2
    <3>3. CASE k > p /\ l <= p
      BY <1>2, <2>1, <3>1, <3>3
    <3>4. CASE k > p /\ l > p
      BY <1>2, <2>1, <3>1, <3>4
    <3> QED BY <1>2, <2>1, <2>3, <3>2, <3>3, <3>4
  <2> QED BY <2>2, <2>3
<1>7. \A k \in 1 .. n : k \in Carried \/ k = p + 1 \/ k = p + 2
  BY <1>2
<1>8. /\ ns[p + 1].use = 0 /\ ns[p + 1].res = 0 /\ ns[p + 1].role = "user"
      /\ ns[p + 2].use = 0 /\ ns[p + 2].res = 0 /\ ns[p + 2].role = "assistant"
      /\ ~Important(ns[p + 1]) /\ ~Important(ns[p + 2])
      /\ Shaped(ns[p + 1]) /\ Shaped(ns[p + 2])
  BY <1>1 DEF Text, Important, Shaped
<1> HIDE DEF Carried, e, n
<1>9. \A k \in Carried, l \in Carried : e[k] = e[l] => k = l
  <2> SUFFICES ASSUME NEW k \in Carried, NEW l \in Carried, e[k] = e[l] PROVE k = l
    OBVIOUS
  <2>1. k \in Nat /\ l \in Nat /\ e[k] \in Nat
    BY <1>2, <1>5
  <2> QED BY <1>6, <2>1
<1>10. \A k \in 1 .. n : ns[k].use # 0 \/ ns[k].res # 0 \/ ns[k].role = "system" => k \in Carried
  BY <1>7, <1>8
<1>11. \A k \in 1 .. n : ns[k].use # 0 => k \in Carried /\ k > p
  <2> SUFFICES ASSUME NEW k \in 1 .. n, ns[k].use # 0, k <= p PROVE FALSE
    BY <1>2, <1>10
  <2>1. k \in Carried
    BY <1>10
  <2>2. Important(ms[e[k]]) /\ ms[e[k]].use # 0 /\ e[k] \in DOMAIN ms
    BY <1>5, <2>1
  <2> QED BY <2>2, ImportantStays
<1>12. Single(ns)
  <2> SUFFICES ASSUME NEW k \in 1 .. n, NEW l \in 1 .. n
               PROVE  /\ ns[k].use = ns[l].use /\ ns[k].use # 0 => k = l
                      /\ ns[k].res = ns[l].res /\ ns[k].res # 0 => k = l
    BY <1>1 DEF Single
  <2>1. CASE k \in Carried /\ l \in Carried
    <3>1. e[k] \in DOMAIN ms /\ e[l] \in DOMAIN ms /\ ns[k] = ms[e[k]] /\ ns[l] = ms[e[l]]
      BY <1>5, <2>1
    <3> QED BY <1>9, <2>1, <3>1 DEF Tame, Single
  <2>2. CASE ~ (k \in Carried /\ l \in Carried)
    BY <1>10, <2>2
  <2> QED BY <2>1, <2>2
<1>13. Adjacent(ns)
  <2> SUFFICES ASSUME NEW k \in 1 .. n, NEW l \in 1 .. n, ns[k].use # 0, ns[l].res = ns[k].use
               PROVE  l = k + 1
    BY <1>1 DEF Adjacent
  <2>1. k \in Carried /\ l \in Carried /\ k > p
    BY <1>10, <1>11
  <2>2. /\ e[k] \in DOMAIN ms /\ e[l] \in DOMAIN ms /\ ns[k] = ms[e[k]] /\ ns[l] = ms[e[l]]
        /\ e[k] = k - p - 2 + b /\ e[k] > b
    BY <1>5, <2>1
  <2>3. e[l] = e[k] + 1
    BY <2>2 DEF Tame, Adjacent
  <2>4. l > p
    <3> SUFFICES ASSUME l <= p PROVE FALSE
      BY <1>2
    <3>1. e[l] \in 1 .. b
      BY <1>5, <2>1
    <3> QED BY <1>2, <2>2, <2>3, <3>1
  <2>5. e[l] = l - p - 2 + b
    BY <1>5, <2>1, <2>4
  <2> QED BY <1>2, <2>2, <2>3, <2>5
<1>14. Tame(ns)
  <2>1. \A k \in 1 .. n : Shaped(ns[k])
    BY <1>5, <1>7, <1>8 DEF Tame
  <2> QED BY <1>1, <1>12, <1>13, <2>1 DEF Tame
<1>15. IdsFrom(ms, ns)
  BY <1>1, <1>5, <1>10 DEF IdsFrom
<1>16. StaysInPlace(ms, ns)
  <2> SUFFICES ASSUME NEW H \in SUBSET (Nat \ {0}), NEW s \in Nat, InPlace(ms, H, s)
               PROVE  InPlace(ns, H, s)
    BY DEF StaysInPlace
  <2>1. \A k \in 1 .. n : ns[k].res \in H => k \in Carried /\ ms[e[k]].res \in H
    BY <1>5, <1>10
  <2>2. p <= b - 1
    <3>1. PICK i \in 1 .. b : i \notin I
      OBVIOUS
    <3>2. Cardinality(UpTo(I, b)) <= b - 1 /\ UpTo(I, b) = I
      <4>1. \A x \in I : x \in Nat /\ x <= b
        <5> TAKE x \in I
        <5>1. x \in 1 .. b
          OBVIOUS
        <5> QED BY <5>1
      <4>2. UpTo(I, b) = I
        BY <4>1 DEF UpTo
      <4> QED BY <1>2, <3>1, <4>2, RankStep
    <3> QED BY <3>2 DEF p
  <2>3. Early(ms, H, s) \/ p <= b - 2
    <3> SUFFICES ASSUME Led(ms, s) PROVE p <= b - 2
      BY DEF InPlace
    <3>1. PICK k \in DOMAIN ms :
            /\ k + 1 < s /\ k + 1 \in DOMAIN ms
            /\ ~Important(ms[k]) /\ ~Important(ms[k + 1]) /\ ms[k + 1].role # "user"
            /\ \A j \in 1 .. k - 1 : Important(ms[j])
      BY DEF Led
    <3>2. PICK i \in 1 .. b : ~Important(ms[i])
      OBVIOUS
    <3>3. k <= i
      <4> SUFFICES ASSUME ~ (k <= i) PROVE FALSE
        OBVIOUS
      <4>1. i \in 1 .. k - 1
        BY <1>2
      <4> QED BY <3>1, <3>2, <4>1
    <3>4. k \in 1 .. b
      BY <1>2, <3>3
    <3>5. k + 1 \in 1 .. b
      BY <3>1, <3>4
    <3>6. k \notin I /\ k + 1 \notin I
      BY <3>1, <3>4, <3>5
    <3> DEFINE B0 == 1 .. b
               B1 == B0 \ {k}
               B2 == B1 \ {k + 1}
    <3>7. IsFiniteSet(B0) /\ Cardinality(B0) = b
      BY <1>2, FS_Interval
    <3>8. k \in B0 /\ k + 1 \in B1 /\ I \in SUBSET B2
      <4>1. k + 1 # k
        BY <1>2, <3>1
      <4> QED BY <3>4, <3>5, <3>6, <4>1
    <3> HIDE DEF B0
    <3>9. IsFiniteSet(B1) /\ Cardinality(B1) = b - 1
      BY <3>7, <3>8, FS_RemoveElement
    <3> HIDE DEF B1
    <3>10. IsFiniteSet(B2) /\ Cardinality(B2) = b - 1 - 1
      <4>1. IsFiniteSet(B1) /\ k + 1 \in B1
        BY <3>8, <3>9
      <4>2. IsFiniteSet(B1 \ {k + 1}) /\ Cardinality(B1 \ {k + 1}) = Cardinality(B1) - 1
        BY <4>1, FS_RemoveElement
      <4> QED BY <3>9, <4>2
    <3> HIDE DEF B2
    <3>11. Cardinality(I) <= b - 1 - 1
      <4>1. Cardinality(I) <= Cardinality(B2)
        BY <3>8, <3>10, FS_Subset
      <4> QED BY <3>10, <4>1
    <3> QED BY <1>2, <3>11 DEF p
  <2>4. \A k \in 1 .. n : ns[k].res \in H => /\ k \in Carried /\ e[k] \in Nat /\ e[k] <= s
                                             /\ Early(ms, H, s) => e[k] < s
    <3> SUFFICES ASSUME NEW k \in 1 .. n, ns[k].res \in H
                 PROVE  /\ k \in Carried /\ e[k] \in Nat /\ e[k] <= s
                        /\ Early(ms, H, s) => e[k] < s
      OBVIOUS
    <3>1. k \in Carried /\ ms[e[k]].res \in H /\ e[k] \in DOMAIN ms
      BY <1>5, <2>1
    <3>2. Early(ms, H, s + 1) => e[k] < s + 1
      BY <3>1 DEF Early
    <3>3. Early(ms, H, s) => e[k] < s
      BY <3>1 DEF Early
    <3>4. e[k] \in Nat
      BY <1>2, <3>1
    <3>5. Early(ms, H, s) \/ Early(ms, H, s + 1)
      BY DEF InPlace
    <3> QED BY <3>1, <3>2, <3>3, <3>4, <3>5
  <2>5. \A k \in 1 .. n : ns[k].res \in H => k <= s
    <3> SUFFICES ASSUME NEW k \in 1 .. n, ns[k].res \in H PROVE k <= s
      OBVIOUS
    <3>1. k \in Carried /\ e[k] \in Nat /\ e[k] <= s /\ (Early(ms, H, s) => e[k] < s)
      BY <2>4
    <3>2. CASE k <= p
      BY <1>5, <3>1, <3>2
    <3>3. CASE k > p
      <4>1. e[k] = k - p - 2 + b
        BY <1>5, <3>1, <3>3
      <4> QED BY <1>2, <2>2, <2>3, <3>1, <4>1
    <3> QED BY <1>2, <3>2, <3>3
  <2>6. \A k \in 1 .. p : k \in 1 .. n /\ (ns[k].res \in H => k < s)
    <3> SUFFICES ASSUME NEW k \in 1 .. p PROVE k \in 1 .. n /\ (ns[k].res \in H => k < s)
      OBVIOUS
    <3>1. k \in Carried /\ e[k] = Nth(I, k)
      BY <1>2 DEF Carried, e
    <3>2. k \in 1 .. n /\ e[k] \in Nat /\ k <= e[k]
      BY <1>2, <1>5, <3>1
    <3>3. ASSUME ns[k].res \in H PROVE k < s
      <4>1. e[k] <= s /\ (Early(ms, H, s) => e[k] < s)
        BY <2>4, <3>2, <3>3
      <4>2. CASE Early(ms, H, s)
        BY <3>2, <4>1, <4>2
      <4>3. CASE Led(ms, s)
        <5>1. PICK j \in DOMAIN ms : j + 1 < s /\ ~Important(ms[j])
          BY <4>3 DEF Led
        <5>2. j \in Nat /\ j >= 1 /\ j < s
          BY <1>2, <5>1
        <5>3. j \notin I
          <6>1. j \in I => j \in 1 .. b
            OBVIOUS
          <6> QED BY <5>1, <6>1
        <5>4. CASE e[k] = s
          <6>1. j \in 1 .. s
            BY <5>2
          <6>2. Cardinality(UpTo(I, s)) <= s - 1
            BY <1>2, <5>3, <6>1, RankStep
          <6>3. Cardinality(UpTo(I, Nth(I, k))) = k
            BY <1>4
          <6> QED BY <3>1, <5>4, <6>2, <6>3
        <5>5. CASE e[k] # s
          BY <3>2, <4>1, <5>5
        <5> QED BY <5>4, <5>5
      <4> QED BY <4>2, <4>3 DEF InPlace
    <3> QED BY <3>2, <3>3
  <2>7. CASE p + 2 < s
    <3>1. p + 1 \in 1 .. n /\ p + 2 \in 1 .. n
      BY <1>2 DEF n
    <3>2. \A j \in 1 .. p : Important(ns[j])
      <4> TAKE j \in 1 .. p
      <4>1. j \in Carried /\ j <= p
        BY <1>2 DEF Carried
      <4> QED BY <1>5, <4>1
    <3>3. Led(ns, s)
      <4> DEFINE q == p + 1
      <4>1. q = p + 1 /\ q + 1 = p + 2 /\ q - 1 = p
        BY <1>2
      <4> HIDE DEF q
      <4>2. /\ q \in DOMAIN ns /\ q + 1 < s /\ q + 1 \in DOMAIN ns
            /\ ~Important(ns[q]) /\ ~Important(ns[q + 1]) /\ ns[q + 1].role # "user"
            /\ \A j \in 1 .. q - 1 : Important(ns[j])
        BY <1>1, <1>8, <2>7, <3>1, <3>2, <4>1
      <4> QED BY <4>2 DEF Led
    <3>4. Early(ns, H, s + 1)
      <4>1. \A k \in 1 .. n : ns[k].res \in H => k < s + 1
        BY <1>2, <2>5
      <4> QED BY <1>1, <4>1 DEF Early
    <3> QED BY <3>3, <3>4 DEF InPlace
  <2>8. CASE ~ (p + 2 < s)
    <3>1. \A k \in 1 .. n : ns[k].res \in H => k < s
      <4> SUFFICES ASSUME NEW k \in 1 .. n, ns[k].res \in H PROVE k < s
        OBVIOUS
      <4>1. k \in Carried /\ k <= s
        BY <2>4, <2>5
      <4>2. CASE k <= p
        <5>1. k \in 1 .. p
          BY <1>2, <4>2
        <5> QED BY <2>6, <5>1
      <4>3. CASE k > p
        <5>1. k >= p + 3
          BY <1>5, <4>1, <4>3
        <5> QED BY <1>2, <2>8, <4>1, <5>1
      <4> QED BY <1>2, <4>2, <4>3
    <3> QED BY <1>1, <3>1 DEF InPlace, Early
  <2> QED BY <2>7, <2>8
<1>17. SystemMessages(ns) = SystemMessages(ms)
  <2> DEFINE J == IsSystem(ms)
             L == IsSystem(ns)
  <2>1. L \in SUBSET DOMAIN ns /\ J \in SUBSET DOMAIN ms
    BY DEF IsSystem
  <2>2. \A k \in L : k \in Carried /\ e[k] \in J /\ ns[k] = ms[e[k]]
    <3> SUFFICES ASSUME NEW k \in L PROVE k \in Carried /\ e[k] \in J /\ ns[k] = ms[e[k]]
      OBVIOUS
    <3>1. k \in 1 .. n /\ ns[k].role = "system"
      BY <1>1 DEF IsSystem
    <3>2. k \in Carried
      BY <1>10, <3>1
    <3> QED BY <1>5, <3>1, <3>2 DEF IsSystem
  <2>3. \A j \in J : \E k \in Carried : e[k] = j
    <3> SUFFICES ASSUME NEW j \in J PROVE \E k \in Carried : e[k] = j
      OBVIOUS
    <3>1. j \in 1 .. Len(ms) /\ Important(ms[j])
      BY <1>2 DEF IsSystem, Important
    <3>2. CASE j \in 1 .. b
      <4>1. j \in I
        BY <3>1, <3>2
      <4>2. Cardinality(UpTo(I, j)) \in 1 .. p /\ Nth(I, Cardinality(UpTo(I, j))) = j
        BY <1>2, <4>1, Enumeration DEF p
      <4>3. \A k \in 1 .. p : k \in Carried /\ e[k] = Nth(I, k)
        BY <1>2 DEF Carried, e
      <4> QED BY <4>2, <4>3
    <3>3. CASE j \notin 1 .. b
      <4> DEFINE k == j - b + p + 2
      <4>1. k \in p + 3 .. n /\ k - p - 2 + b = j /\ ~ (k <= p)
        BY <1>2, <3>1, <3>3 DEF n
      <4>2. k \in Carried /\ e[k] = j
        BY <4>1 DEF Carried, e
      <4> QED BY <4>2
    <3> QED BY <3>2, <3>3
  <2>4. \A j \in J : \E k \in L : e[k] = j
    <3> SUFFICES ASSUME NEW j \in J PROVE \E k \in L : e[k] = j
      OBVIOUS
    <3>1. PICK k \in Carried : e[k] = j
      BY <2>3
    <3>2. k \in 1 .. n /\ ns[k] = ms[j]
      BY <1>5, <3>1
    <3>3. k \in L
      BY <1>1, <3>2 DEF IsSystem
    <3> QED BY <3>1, <3>3
  <2>5. \A k, l \in L : k < l => e[k] < e[l]
    BY <1>6, <2>2
  <2>6. ns \in Seq(Messages)
    BY <1>1
  <2> QED BY <2>2, <2>4, <2>5, <2>6, SystemSame
<1> QED BY <1>1, <1>14, <1>15, <1>16, <1>17 DEF Follows, ns

(* The summarizing strategies do nothing or replace the old turns by the   *)
(* summary.                                                                *)
LEMMA SummarizeKeeps ==
  ASSUME NEW c \in Conversations, Tame(c.msgs), NEW keep \in Nat, NEW summary \in Nat
  PROVE  /\ Keeps(c, Summarize(c, keep, summary))
         /\ \/ Summarize(c, keep, summary) = c
            \/ /\ Len(c.turns) > keep
               /\ \E b \in 0 .. Len(c.msgs) : \E I \in SUBSET (1 .. b) :
                    /\ Old(c, keep) = 1 .. b
                    /\ Summarize(c, keep, summary).msgs = SummaryOf(c.msgs, I, b, summary)
<1> DEFINE ms == c.msgs
           old == Removable(c, keep)
           important == Old(c, keep) \ old
           recent == DOMAIN ms \ Old(c, keep)
           ns == Pick(ms, important) \o <<Text("user", summary), Text("assistant", 1)>>
                                     \o Pick(ms, recent)
<1>1. /\ ms \in Seq(Messages) /\ DOMAIN ms = 1 .. Len(ms) /\ Len(ms) \in Nat
      /\ Len(c.turns) \in Nat
  BY DEF Conversations
<1>2. Summarize(c, keep, summary) =
        IF Len(c.turns) <= keep \/ old = {} THEN c ELSE Rebuild(c, ns)
  BY DEF Summarize
<1> HIDE DEF ns
<1>3. CASE Len(c.turns) <= keep \/ old = {}
  BY <1>2, <1>3, KeepsItself
<1>4. CASE ~ (Len(c.turns) <= keep \/ old = {})
  <2>1. PICK b \in 0 .. Len(ms) : Old(c, keep) = 1 .. b
    BY OldIsPrefix
  <2>2. important \in SUBSET (1 .. b)
    BY <2>1
  <2>3. recent = (b + 1) .. Len(ms)
    BY <1>1, <2>1
  <2>4. ns = SummaryOf(ms, important, b, summary)
    BY <2>3 DEF ns, SummaryOf
  <2>5. \A i \in 1 .. b : i \in important <=> Important(ms[i])
    BY <2>1 DEF Removable
  <2>6. \E i \in 1 .. b : i \notin important
    BY <1>4, <2>1 DEF Removable
  <2>7. \A i \in 1 .. b : i + 1 \in DOMAIN ms /\ ms[i + 1].role # "user" => i + 1 \in 1 .. b
    <3>1. \A k \in Old(c, keep) : k + 1 \in DOMAIN ms /\ ms[k + 1].role # "user"
                                  => k + 1 \in Old(c, keep)
      BY OldIsPrefix
    <3> QED BY <2>1, <3>1
  <2> HIDE DEF important, recent
  <2>8. Follows(ms, ns) /\ SystemMessages(ns) = SystemMessages(ms)
    <3> HIDE DEF ms, old
    <3>1. Tame(ms)
      BY DEF ms
    <3> QED BY <1>1, <2>2, <2>4, <2>5, <2>6, <2>7, <3>1, SummaryFollows
  <2>9. Summarize(c, keep, summary) = Rebuild(c, ns)
    BY <1>2, <1>4
  <2>10. ns \in Seq(Messages)
    BY <2>8 DEF Follows
  <2>11. Rebuild(c, ns).msgs = ns
    BY <2>10, RebuildResult
  <2>12. Keeps(c, Rebuild(c, ns))
    BY <2>8, RebuildKeeps
  <2>13. Len(c.turns) > keep
    BY <1>1, <1>4
  <2> QED BY <2>1, <2>2, <2>4, <2>9, <2>11, <2>12, <2>13
<1> QED BY <1>3, <1>4

(* The strategy that the percentage chooses.                               *)
LEMMA AutoKeeps ==
  ASSUME NEW c \in Conversations, Tame(c.msgs), NEW summary \in Nat
  PROVE  Keeps(c, AutoStrategy(c, summary))
<1>1. Keeps(c, Shrink(c))
  BY ShrinkKeeps
<1>2. Keeps(c, Summarize(c, PreserveRecent, summary)) /\ Keeps(c, Summarize(c, 3, summary))
  BY SummarizeKeeps DEF PreserveRecent
<1>3. Keeps(c, Truncate(c, Window \div 2))
  BY TruncateKeeps
<1> QED BY <1>1, <1>2, <1>3 DEF AutoStrategy

(* compact_with_config before a request: the strategy, then the repair.    *)
LEMMA AutoCompactionKeeps ==
  ASSUME NEW c \in Conversations, Tame(c.msgs), NEW summary \in Nat
  PROVE  LET d == Compacted(AutoStrategy(c, summary)) IN Keeps(c, d) /\ Paired(d.msgs)
<1> DEFINE a == AutoStrategy(c, summary)
<1>1. Keeps(c, a)
  BY AutoKeeps
<1> HIDE DEF a
<1>2. a \in Conversations /\ Tame(a.msgs)
  BY <1>1 DEF Keeps, Follows
<1>3. Keeps(a, Compacted(a)) /\ Paired(Compacted(a).msgs)
  BY <1>2, CompactedKeeps
<1>4. Keeps(c, Compacted(a))
  BY <1>1, <1>3, KeepsFurther
<1> QED BY <1>3, <1>4 DEF a

(* compact_for_prompt_too_long: the summary, then the truncation if it is  *)
(* still too long.                                                         *)
LEMMA ForcedCompactionKeeps ==
  ASSUME NEW c \in Conversations, Tame(c.msgs), NEW summary \in Nat
  PROVE  LET d == Compacted(Summarize(c, PreserveRecent, summary))
             f == Compacted(Truncate(d, Window \div 2))
         IN  Keeps(c, d) /\ Paired(d.msgs) /\ Keeps(c, f) /\ Paired(f.msgs)
<1> DEFINE a == Summarize(c, PreserveRecent, summary)
           d == Compacted(a)
           e == Truncate(d, Window \div 2)
           f == Compacted(e)
<1>1. Keeps(c, a)
  BY SummarizeKeeps DEF PreserveRecent
<1> HIDE DEF a
<1>2. a \in Conversations /\ Tame(a.msgs)
  BY <1>1 DEF Keeps, Follows
<1>3. Keeps(a, d) /\ Paired(d.msgs)
  BY <1>2, CompactedKeeps
<1>4. Keeps(c, d)
  BY <1>1, <1>3, KeepsFurther
<1> HIDE DEF d
<1>5. d \in Conversations /\ Tame(d.msgs)
  BY <1>4 DEF Keeps, Follows
<1>6. Keeps(d, e)
  BY <1>5, TruncateKeeps
<1> HIDE DEF e
<1>7. e \in Conversations /\ Tame(e.msgs)
  BY <1>6 DEF Keeps, Follows
<1>8. Keeps(e, f) /\ Paired(f.msgs)
  BY <1>7, CompactedKeeps
<1>9. Keeps(c, f)
  BY <1>4, <1>6, <1>8, KeepsFurther
<1> QED BY <1>3, <1>4, <1>8, <1>9 DEF a, d, e, f

-----------------------------------------------------------------------------
(* The end of a conversation through the repair.                           *)

(* Dropping the empty messages of the end of a list gives the end of the   *)
(* list without its empty messages.                                        *)
LEMMA TailKept ==
  ASSUME NEW xs \in Seq(Messages), NEW g \in 1 .. Len(xs) + 1
  PROVE  EndsWith(NonEmpty(xs), NonEmpty(SubSeq(xs, g, Len(xs))))
<1> DEFINE n == Len(xs)
           ys == SubSeq(xs, g, n)
           K == {i \in DOMAIN xs : ~Empty(xs[i])}
           J == {i \in DOMAIN ys : ~Empty(ys[i])}
           t == Pick(xs, K)
           C == Cardinality(K)
           q == Cardinality(UpTo(K, g - 1))
           rank(i) == Cardinality(UpTo(K, i))
           L == (q + 1) .. C
           d == [j \in J |-> rank(j + g - 1)]
<1>1. /\ n \in Nat /\ DOMAIN xs = 1 .. n /\ g \in Nat /\ g >= 1
      /\ ys \in Seq(Messages) /\ Len(ys) = n - g + 1 /\ DOMAIN ys = 1 .. n - g + 1
      /\ \A j \in 1 .. n - g + 1 : ys[j] = xs[j + g - 1]
  OBVIOUS
<1>2. K \in SUBSET DOMAIN xs /\ K \in SUBSET (1 .. n) /\ J \in SUBSET DOMAIN ys
  BY <1>1
<1>3. /\ t \in Seq(Messages) /\ Len(t) = C /\ DOMAIN t = 1 .. C /\ C \in Nat
      /\ \A i \in K : rank(i) \in 1 .. C /\ t[rank(i)] = xs[i]
  <2> HIDE DEF K
  <2> QED BY <1>2, PickElements
<1>4. \A l \in 1 .. C : Nth(K, l) \in K /\ rank(Nth(K, l)) = l
  <2> HIDE DEF K
  <2> QED BY <1>1, <1>2, Enumeration
<1>5. \A i, j \in K : i < j => rank(i) < rank(j)
  <2> HIDE DEF K
  <2> QED BY <1>1, <1>2, RankGrows
<1>6. \A j \in J : j \in 1 .. n - g + 1 /\ j + g - 1 \in K /\ ys[j] = xs[j + g - 1]
  <2> SUFFICES ASSUME NEW j \in J
               PROVE  j \in 1 .. n - g + 1 /\ j + g - 1 \in K /\ ys[j] = xs[j + g - 1]
    OBVIOUS
  <2>1. j \in 1 .. n - g + 1 /\ ~Empty(ys[j]) /\ ys[j] = xs[j + g - 1]
    BY <1>1
  <2> HIDE DEF ys
  <2>2. j + g - 1 \in 1 .. n
    BY <1>1, <2>1
  <2> QED BY <1>1, <2>1, <2>2
<1>7. \A i \in K : i >= g => i - g + 1 \in J /\ i - g + 1 + g - 1 = i
  <2> SUFFICES ASSUME NEW i \in K, i >= g
               PROVE  i - g + 1 \in J /\ i - g + 1 + g - 1 = i
    OBVIOUS
  <2>1. i \in 1 .. n /\ ~Empty(xs[i])
    BY <1>1
  <2>2. i - g + 1 \in 1 .. n - g + 1 /\ i - g + 1 + g - 1 = i
    BY <1>1, <2>1
  <2>3. ys[i - g + 1] = xs[i]
    BY <1>1, <2>2
  <2> HIDE DEF ys
  <2> QED BY <1>1, <2>1, <2>2, <2>3
<1>8. q \in 0 .. C
  <2>1. g - 1 \in Nat
    BY <1>1
  <2> HIDE DEF K
  <2> QED BY <1>1, <1>2, <2>1, IndexSet
<1>9. \A i \in K : i >= g <=> rank(i) > q
  <2> SUFFICES ASSUME NEW i \in K PROVE i >= g <=> rank(i) > q
    OBVIOUS
  <2>1. i \in Nat /\ \A x \in K : x \in Nat
    BY <1>1, <1>2
  <2>2. /\ IsFiniteSet(UpTo(K, i)) /\ IsFiniteSet(UpTo(K, g - 1))
        /\ rank(i) \in Nat /\ q \in Nat
    <3>1. g - 1 \in Nat
      BY <1>1
    <3> HIDE DEF K
    <3> QED BY <1>1, <1>2, <2>1, <3>1, IndexSet
  <2>3. ASSUME i >= g PROVE rank(i) > q
    <3>1. UpTo(K, g - 1) \in SUBSET UpTo(K, i) /\ i \in UpTo(K, i) /\ i \notin UpTo(K, g - 1)
      <4> HIDE DEF K
      <4>1. \A x \in UpTo(K, g - 1) : x \in UpTo(K, i)
        BY <1>1, <2>1, <2>3 DEF UpTo
      <4>2. i \in UpTo(K, i) /\ i \notin UpTo(K, g - 1)
        BY <1>1, <2>1, <2>3 DEF UpTo
      <4> QED BY <4>1, <4>2
    <3>2. q <= rank(i) /\ q # rank(i)
      BY <2>2, <3>1, FS_Subset
    <3> QED BY <2>2, <3>2
  <2>4. ASSUME ~ (i >= g) PROVE rank(i) <= q
    <3>1. UpTo(K, i) \in SUBSET UpTo(K, g - 1)
      <4> HIDE DEF K
      <4>1. \A x \in UpTo(K, i) : x \in UpTo(K, g - 1)
        BY <1>1, <2>1, <2>4 DEF UpTo
      <4> QED BY <4>1
    <3> QED BY <2>2, <3>1, FS_Subset
  <2> QED BY <2>2, <2>3, <2>4
<1> HIDE DEF n, K, J, t, C, q, ys, rank
<1>10. \A j \in J : d[j] \in L /\ ys[j] = t[d[j]]
  <2> SUFFICES ASSUME NEW j \in J PROVE d[j] \in L /\ ys[j] = t[d[j]]
    OBVIOUS
  <2>1. j \in 1 .. n - g + 1 /\ j + g - 1 \in K /\ j + g - 1 >= g /\ ys[j] = xs[j + g - 1]
    BY <1>1, <1>6
  <2>2. rank(j + g - 1) \in 1 .. C /\ rank(j + g - 1) > q /\ t[rank(j + g - 1)] = xs[j + g - 1]
    BY <1>3, <1>9, <2>1
  <2> QED BY <1>3, <1>8, <2>1, <2>2
<1>11. \A i, j \in J : i < j => d[i] < d[j]
  <2> SUFFICES ASSUME NEW i \in J, NEW j \in J, i < j PROVE d[i] < d[j]
    OBVIOUS
  <2>1. i + g - 1 \in K /\ j + g - 1 \in K /\ i + g - 1 < j + g - 1
    BY <1>1, <1>6
  <2> QED BY <1>5, <2>1
<1>12. \A l \in L : \E j \in J : d[j] = l
  <2> SUFFICES ASSUME NEW l \in L PROVE \E j \in J : d[j] = l
    OBVIOUS
  <2>1. l \in 1 .. C /\ l > q
    BY <1>3, <1>8
  <2> DEFINE i == Nth(K, l)
  <2>2. i \in K /\ rank(i) = l
    BY <1>4, <2>1
  <2> HIDE DEF i
  <2>3. i >= g
    BY <1>9, <2>1, <2>2
  <2>4. i - g + 1 \in J /\ i - g + 1 + g - 1 = i
    BY <1>7, <2>2, <2>3
  <2> QED BY <2>2, <2>4
<1>13. L \in SUBSET DOMAIN t /\ d \in [J -> L]
  BY <1>3, <1>8, <1>10
<1>14. Pick(t, L) = SubSeq(t, q + 1, C)
  <2>1. q + 1 \in Nat \ {0} /\ C \in 0 .. Len(t) /\ q + 1 <= C + 1
    BY <1>3, <1>8
  <2> QED BY <1>3, <2>1, PickInterval
<1> HIDE DEF L, d
<1>15. Pick(ys, J) = Pick(t, L)
  <2>1. ys \in Seq(Messages) /\ t \in Seq(Messages)
    BY <1>1, <1>3
  <2>2. \A j \in J : ys[j] = t[d[j]]
    BY <1>10
  <2>3. J \in SUBSET DOMAIN ys /\ L \in SUBSET DOMAIN t /\ d \in [J -> L]
    BY <1>2, <1>13
  <2>4. /\ \A i, j \in J : i < j => d[i] < d[j]
        /\ \A l \in L : \E j \in J : d[j] = l
    BY <1>11, <1>12
  <2> QED BY <2>1, <2>2, <2>3, <2>4, PickEqual, SMTT(60)
<1>16. NonEmpty(xs) = t /\ NonEmpty(ys) = SubSeq(t, q + 1, C)
  BY <1>14, <1>15 DEF NonEmpty, K, J, t
<1>17. EndsWith(t, SubSeq(t, q + 1, C))
  <2>1. Len(SubSeq(t, q + 1, C)) = C - q /\ C - (C - q) + 1 = q + 1 /\ C - q <= C
    BY <1>3, <1>8
  <2> QED BY <1>3, <2>1 DEF EndsWith
<1> QED BY <1>16, <1>17 DEF ys, n

(* repair_tool_pairing leaves the end of a conversation alone when the     *)
(* blocks there have their counterparts.                                   *)
LEMMA RepairTail ==
  ASSUME NEW c \in Conversations, Tame(c.msgs), NEW g \in 1 .. Len(c.msgs) + 1,
         \A k \in g .. Len(c.msgs) :
           /\ c.msgs[k].use # 0 => \E l \in DOMAIN c.msgs : c.msgs[l].res = c.msgs[k].use
           /\ c.msgs[k].res # 0 => \E l \in DOMAIN c.msgs : c.msgs[l].use = c.msgs[k].res
  PROVE  EndsWith(RepairPairing(c).msgs, NonEmpty(SubSeq(c.msgs, g, Len(c.msgs))))
<1> DEFINE ms == c.msgs
           n == Len(ms)
           used == {ms[i].use : i \in DOMAIN ms}
           answered == {ms[i].res : i \in DOMAIN ms}
           vs == [i \in DOMAIN ms |->
                    [ms[i] EXCEPT !.use = IF ms[i].use \in answered THEN ms[i].use ELSE 0,
                                  !.res = IF ms[i].res \in used THEN ms[i].res ELSE 0,
                                  !.error = ms[i].error /\ ms[i].res \in used,
                                  !.big = ms[i].big /\ ms[i].res \in used]]
<1>1. ms \in Seq(Messages) /\ n \in Nat /\ DOMAIN ms = 1 .. n
  BY DEF Conversations
<1>2. RepairPairing(c).msgs = NonEmpty(vs)
  BY DEF RepairPairing, Conversations
<1>3. \A k \in DOMAIN ms : ms[k] \in Messages /\ Shaped(ms[k])
  BY <1>1 DEF Tame
<1>4. ASSUME NEW k \in DOMAIN ms PROVE vs[k] \in Messages
  <2> DEFINE m == ms[k]
             use == IF m.use \in answered THEN m.use ELSE 0
             res == IF m.res \in used THEN m.res ELSE 0
             error == m.error /\ m.res \in used
             big == m.big /\ m.res \in used
  <2>1. m \in Messages
    BY <1>3
  <2>2. use \in Nat /\ res \in Nat /\ error \in BOOLEAN /\ big \in BOOLEAN
    BY <2>1 DEF Messages
  <2>3. vs[k] = [m EXCEPT !.use = use, !.res = res, !.error = error, !.big = big]
    OBVIOUS
  <2> HIDE DEF m, vs, use, res, error, big
  <2>4. [m EXCEPT !.use = use, !.res = res, !.error = error, !.big = big] \in Messages
    BY <2>1, <2>2 DEF Messages
  <2> QED BY <2>3, <2>4
<1>5. vs \in Seq(Messages) /\ Len(vs) = n /\ DOMAIN vs = 1 .. n
  <2>1. vs \in [1 .. n -> Messages]
    BY <1>1, <1>4
  <2> HIDE DEF vs
  <2> QED BY <1>1, <2>1
<1>6. \A k \in g .. n : vs[k] = ms[k]
  <2> SUFFICES ASSUME NEW k \in g .. n PROVE vs[k] = ms[k]
    OBVIOUS
  <2>1. k \in DOMAIN ms /\ ms[k] \in Messages /\ Shaped(ms[k])
    BY <1>1, <1>3
  <2>2. ms[k].use # 0 => ms[k].use \in answered
    OBVIOUS
  <2>3. ms[k].res # 0 => ms[k].res \in used
    OBVIOUS
  <2> HIDE DEF used, answered, ms
  <2>4. /\ (IF ms[k].use \in answered THEN ms[k].use ELSE 0) = ms[k].use
        /\ (IF ms[k].res \in used THEN ms[k].res ELSE 0) = ms[k].res
    BY <2>2, <2>3
  <2>5. /\ (ms[k].error /\ ms[k].res \in used) = ms[k].error
        /\ (ms[k].big /\ ms[k].res \in used) = ms[k].big
    BY <2>1, <2>3 DEF Shaped, Messages
  <2>6. vs[k] = [ms[k] EXCEPT !.use = IF ms[k].use \in answered THEN ms[k].use ELSE 0,
                              !.res = IF ms[k].res \in used THEN ms[k].res ELSE 0,
                              !.error = ms[k].error /\ ms[k].res \in used,
                              !.big = ms[k].big /\ ms[k].res \in used]
    BY <2>1
  <2> HIDE DEF vs
  <2>7. vs[k] = [ms[k] EXCEPT !.use = ms[k].use, !.res = ms[k].res,
                              !.error = ms[k].error, !.big = ms[k].big]
    BY <2>4, <2>5, <2>6
  <2> QED BY <2>1, <2>7 DEF Messages
<1> HIDE DEF vs
<1>7. SubSeq(vs, g, n) = SubSeq(ms, g, n)
  <2>1. g \in Nat /\ g >= 1 /\ g <= n + 1
    BY <1>1
  <2> HIDE DEF ms, n
  <2> QED BY <1>1, <1>5, <1>6, <2>1
<1>8. EndsWith(NonEmpty(vs), NonEmpty(SubSeq(vs, g, n)))
  BY <1>5, TailKept
<1> QED BY <1>2, <1>7, <1>8

-----------------------------------------------------------------------------
(* The last turn through a compaction that does not truncate.              *)

(* A non-empty set of indices has a greatest one.                          *)
LEMMA GreatestNumber ==
  ASSUME NEW n \in Nat, NEW T \in SUBSET (1 .. n), T # {}
  PROVE  \E x \in T : \A y \in T : y <= x
<1> DEFINE U == {n - y : y \in T}
<1>1. \A y \in T : y \in Nat /\ y <= n
  <2> TAKE y \in T
  <2>1. y \in 1 .. n
    OBVIOUS
  <2> QED BY <2>1
<1>2. U \in SUBSET Nat /\ U # {}
  <2>1. \A y \in T : n - y \in Nat
    BY <1>1
  <2>2. \A v \in U : v \in Nat
    BY <2>1
  <2>3. U # {}
    OBVIOUS
  <2> QED BY <2>2, <2>3
<1> HIDE DEF U
<1>3. PICK v \in U : \A w \in U : v <= w
  BY <1>2, LeastNumber
<1>4. PICK x \in T : v = n - x
  BY DEF U
<1>5. \A y \in T : n - x <= n - y
  BY <1>3, <1>4 DEF U
<1>6. \A y \in T : y <= x
  BY <1>1, <1>5
<1> QED BY <1>6

(* The last turn is what follows the last user message that begins a turn. *)
LEMMA RecentTurn ==
  ASSUME NEW ms \in Seq(Messages)
  PROVE  \E f \in 1 .. Len(ms) + 1 :
           /\ Recent(ms, 1) = f .. Len(ms)
           /\ UserIndices(ms) = {} => f = 1
           /\ UserIndices(ms) # {} => f \in UserIndices(ms) /\ \A u \in UserIndices(ms) : u <= f
<1> DEFINE U == UserIndices(ms)
           n == Len(ms)
           After(i) == {j \in U : j >= i}
<1>1. n \in Nat /\ DOMAIN ms = 1 .. n /\ U \in SUBSET (1 .. n)
  BY DEF UserIndices
<1>2. Recent(ms, 1) = {i \in 1 .. n : Cardinality(After(i)) < 1
                                      \/ (Cardinality(After(i)) = 1 /\ i \in U)}
  BY <1>1 DEF Recent
<1> HIDE DEF U, n
<1>3. \A i : IsFiniteSet(After(i)) /\ Cardinality(After(i)) \in Nat
  <2> TAKE i
  <2>1. After(i) \in SUBSET (1 .. n)
    <3>1. After(i) \subseteq U
      OBVIOUS
    <3> HIDE DEF After
    <3> QED BY <1>1, <3>1
  <2> HIDE DEF After
  <2>2. IsFiniteSet(After(i))
    BY <1>1, <2>1, IndexSet
  <2> QED BY <2>2, FS_CardinalityType
<1>4. CASE U = {}
  <2>1. \A i : After(i) = {}
    BY <1>4
  <2>2. \A i : Cardinality(After(i)) = 0
    <3> HIDE DEF After
    <3> QED BY <2>1, FS_EmptySet
  <2> HIDE DEF After
  <2>3. Recent(ms, 1) = 1 .. n
    <3>1. \A i \in 1 .. n : Cardinality(After(i)) < 1
      BY <2>2
    <3> QED BY <1>2, <3>1
  <2>4. 1 \in 1 .. n + 1
    BY <1>1
  <2> QED BY <1>4, <2>3, <2>4 DEF U, n
<1>5. CASE U # {}
  <2>1. PICK u \in U : \A v \in U : v <= u
    BY <1>1, <1>5, GreatestNumber
  <2>2. u \in 1 .. n /\ \A v \in U : v \in Nat
    BY <1>1
  <2>3. ASSUME NEW i \in 1 .. n, i > u PROVE Cardinality(After(i)) = 0
    <3>1. After(i) = {}
      <4>1. \A v \in U : ~ (v >= i)
        BY <2>1, <2>2, <2>3
      <4> QED BY <4>1
    <3> HIDE DEF After
    <3> QED BY <3>1, FS_EmptySet
  <2>4. Cardinality(After(u)) = 1
    <3>1. After(u) = {u}
      <4>1. u >= u /\ \A v \in U : v >= u => v = u
        BY <2>1, <2>2
      <4> QED BY <4>1
    <3> HIDE DEF After
    <3> QED BY <3>1, FS_Singleton
  <2>5. ASSUME NEW i \in 1 .. n, i < u
        PROVE  ~ (Cardinality(After(i)) < 1) /\ ~ (Cardinality(After(i)) = 1 /\ i \in U)
    <3>1. u \in After(i) /\ (i \in U => i \in After(i))
      BY <2>2, <2>5
    <3> HIDE DEF After
    <3>2. Cardinality(After(i)) # 0
      BY <1>3, <3>1, FS_EmptySet
    <3>3. ASSUME Cardinality(After(i)) = 1, i \in U PROVE FALSE
      <4>1. \E x : After(i) = {x}
        BY <1>3, <3>3, FS_Singleton
      <4>2. i = u
        BY <3>1, <3>3, <4>1
      <4> QED BY <2>2, <2>5, <4>2
    <3> QED BY <1>3, <3>2, <3>3
  <2> HIDE DEF After
  <2>6. \A i \in 1 .. n : i \in Recent(ms, 1) <=> i >= u
    <3> TAKE i \in 1 .. n
    <3>1. CASE i > u
      BY <1>2, <2>2, <2>3, <3>1
    <3>2. CASE i = u
      BY <1>2, <2>2, <2>4, <3>2
    <3>3. CASE i < u
      BY <1>2, <2>2, <2>5, <3>3
    <3> QED BY <2>2, <3>1, <3>2, <3>3
  <2>7. Recent(ms, 1) \subseteq 1 .. n
    BY <1>2
  <2>8. Recent(ms, 1) = u .. n
    <3>1. \A i \in 1 .. n : i >= u <=> i \in u .. n
      BY <2>2
    <3>2. \A i \in u .. n : i \in 1 .. n
      BY <2>2
    <3> QED BY <2>6, <2>7, <3>1, <3>2
  <2>9. u \in 1 .. n + 1
    BY <1>1, <2>2
  <2> QED BY <1>5, <2>1, <2>8, <2>9 DEF U, n
<1> QED BY <1>4, <1>5

(* The last user message has the highest rank.                             *)
LEMMA UsersAtLast ==
  ASSUME NEW c \in Conversations, NEW u \in UserIndices(c.msgs),
         \A v \in UserIndices(c.msgs) : v <= u
  PROVE  LET U == UserIndices(c.msgs)
         IN  /\ u \in 1 .. Len(c.msgs) /\ Cardinality(U) \in Nat
             /\ Cardinality(UpTo(U, u)) = Cardinality(U)
             /\ Cardinality(UpTo(U, u - 1)) = Cardinality(U) - 1
             /\ Cardinality(UpTo(U, 0)) = 0
<1> DEFINE U == UserIndices(c.msgs)
           n == Len(c.msgs)
<1>1. U \in SUBSET (1 .. n) /\ n \in Nat
  BY UsersBefore, 0 \in Nat
<1>2. u \in U /\ \A v \in U : v <= u
  OBVIOUS
<1> HIDE DEF U, n
<1>3. IsFiniteSet(U) /\ Cardinality(U) \in Nat
  BY <1>1, IndexSet
<1>4. u \in 1 .. n /\ u \in Nat /\ \A v \in U : v \in Nat /\ v >= 1
  BY <1>1, <1>2
<1>5. UpTo(U, u) = U
  BY <1>2 DEF UpTo
<1>6. UpTo(U, u - 1) = U \ {u}
  <2>1. \A v \in U : v <= u - 1 <=> v # u
    BY <1>2, <1>4
  <2> QED BY <2>1 DEF UpTo
<1>7. UpTo(U, 0) = {}
  BY <1>4 DEF UpTo
<1>8. Cardinality(U \ {u}) = Cardinality(U) - 1
  BY <1>2, <1>3, FS_RemoveElement
<1>9. Cardinality(UpTo(U, 0)) = 0
  BY <1>7, FS_EmptySet
<1> QED BY <1>3, <1>4, <1>5, <1>6, <1>8, <1>9 DEF U, n

(* snip_large_tool_results and the repair leave the last turn as it was.   *)
LEMMA ShrinkKeepsLastTurn ==
  ASSUME NEW c \in Conversations, Tame(c.msgs), Paired(c.msgs), ExactTurns(c)
  PROVE  EndsWith(Compacted(Shrink(c)).msgs, NonEmpty(Pick(c.msgs, Recent(c.msgs, 1))))
<1> DEFINE ms == c.msgs
           n == Len(ms)
           U == UserIndices(ms)
           s == Shrink(c)
           vs == s.msgs
<1>1. ms \in Seq(Messages) /\ n \in Nat /\ DOMAIN ms = 1 .. n /\ Len(c.turns) \in Nat
  BY DEF Conversations
<1>2. PICK f \in 1 .. n + 1 :
        /\ Recent(ms, 1) = f .. n
        /\ U = {} => f = 1
        /\ U # {} => f \in U /\ \A u \in U : u <= f
  BY <1>1, RecentTurn
<1>3. /\ s \in Conversations /\ Tame(vs)
      /\ vs = [i \in DOMAIN ms |-> IF i \in Removable(c, PreserveRecent)
                                   THEN [ms[i] EXCEPT !.big = FALSE] ELSE ms[i]]
  BY ShrinkKeeps DEF Keeps, Follows
<1>4. vs \in Seq(Messages) /\ DOMAIN vs = 1 .. n /\ Len(vs) = n
  <2>1. vs \in Seq(Messages)
    BY <1>3 DEF Conversations
  <2>2. DOMAIN vs = 1 .. n
    BY <1>1, <1>3
  <2> HIDE DEF vs, s
  <2> QED BY <1>1, <2>1, <2>2
<1>5. \A i \in DOMAIN ms : /\ ms[i] \in Messages /\ Shaped(ms[i])
                           /\ vs[i].use = ms[i].use /\ vs[i].res = ms[i].res
  <2> TAKE i \in DOMAIN ms
  <2>1. ms[i] \in Messages /\ Shaped(ms[i])
    BY <1>1 DEF Tame
  <2>2. vs[i] = ms[i] \/ vs[i] = [ms[i] EXCEPT !.big = FALSE]
    BY <1>3
  <2> HIDE DEF vs, s
  <2> QED BY <2>1, <2>2 DEF Messages
<1>6. \A i \in f .. n : vs[i] = ms[i]
  <2> SUFFICES ASSUME NEW i \in f .. n PROVE vs[i] = ms[i]
    OBVIOUS
  <2>1. i \in DOMAIN ms /\ i \in 1 .. n /\ i >= f /\ i \in Nat
    BY <1>1
  <2>2. CASE U = {}
    <3>1. ms[i].big = FALSE
      <4>1. ms[i].role # "user"
        BY <2>1, <2>2 DEF UserIndices
      <4> QED BY <1>5, <2>1, <4>1 DEF Shaped, Messages
    <3>2. [ms[i] EXCEPT !.big = FALSE] = ms[i]
      BY <1>5, <2>1, <3>1 DEF Messages
    <3> QED BY <1>3, <2>1, <3>2
  <2>3. CASE U # {}
    <3>1. /\ Cardinality(UpTo(U, f)) = Cardinality(U) /\ Cardinality(U) \in Nat
          /\ f \in 1 .. n
      BY <1>2, <2>3, UsersAtLast
    <3>2. Cardinality(U) # 0
      <4>1. IsFiniteSet(U)
        <5>1. U \in SUBSET (1 .. n)
          BY <1>1 DEF UserIndices
        <5> QED BY <1>1, <5>1, IndexSet
      <4> QED BY <2>3, <4>1, FS_EmptySet
    <3>3. Len(c.turns) = Cardinality(U)
      BY DEF ExactTurns
    <3>4. Boundary(c, PreserveRecent) < Cardinality(U)
      BY <1>1, <3>1, <3>2, <3>3, BoundaryValue DEF PreserveRecent
    <3>5. Cardinality(UpTo(U, f)) <= Cardinality(UpTo(U, i))
      BY <2>1, <3>1, UsersBefore
    <3>6. /\ {j \in U : j <= i} = UpTo(U, i) /\ Cardinality(UpTo(U, i)) \in Nat
      BY <2>1, UsersBefore
    <3>7. Boundary(c, PreserveRecent) \in Nat
      BY <1>1, BoundaryValue DEF PreserveRecent
    <3>8. ~ (Cardinality(UpTo(U, i)) <= Boundary(c, PreserveRecent))
      BY <3>1, <3>4, <3>5, <3>6, <3>7
    <3>9. i \notin Old(c, PreserveRecent)
      BY <3>6, <3>8 DEF Old, OldUpTo
    <3> QED BY <1>3, <2>1, <3>9 DEF Removable
  <2> QED BY <2>2, <2>3
<1> HIDE DEF s, vs, U
<1>7. SubSeq(vs, f, n) = SubSeq(ms, f, n)
  <2>1. f \in Nat /\ f >= 1 /\ f <= n + 1
    BY <1>1
  <2> HIDE DEF ms, n
  <2> QED BY <1>1, <1>4, <1>6, <2>1
<1>8. \A k \in f .. n :
        /\ vs[k].use # 0 => \E l \in DOMAIN vs : vs[l].res = vs[k].use
        /\ vs[k].res # 0 => \E l \in DOMAIN vs : vs[l].use = vs[k].res
  <2> SUFFICES ASSUME NEW k \in f .. n
               PROVE  /\ vs[k].use # 0 => \E l \in DOMAIN vs : vs[l].res = vs[k].use
                      /\ vs[k].res # 0 => \E l \in DOMAIN vs : vs[l].use = vs[k].res
    OBVIOUS
  <2>1. k \in 1 .. n /\ k \in DOMAIN ms /\ UseAnswered(ms, k) /\ ResultAsked(ms, k)
    BY <1>1 DEF Paired
  <2>2. vs[k].use = ms[k].use /\ vs[k].res = ms[k].res
    BY <1>5, <2>1
  <2>3. ASSUME ms[k].use # 0 PROVE k + 1 \in 1 .. n /\ ms[k + 1].res = ms[k].use
    BY <1>1, <2>1, <2>3 DEF UseAnswered
  <2>4. ASSUME ms[k].res # 0 PROVE k - 1 \in 1 .. n /\ ms[k - 1].use = ms[k].res
    BY <1>1, <2>1, <2>4 DEF ResultAsked
  <2> QED BY <1>1, <1>4, <1>5, <2>2, <2>3, <2>4
<1>9. EndsWith(RepairPairing(s).msgs, NonEmpty(SubSeq(s.msgs, f, Len(s.msgs))))
  <2>1. f \in 1 .. Len(s.msgs) + 1
    BY <1>4 DEF vs
  <2>2. \A k \in f .. Len(s.msgs) :
        /\ s.msgs[k].use # 0 => \E l \in DOMAIN s.msgs : s.msgs[l].res = s.msgs[k].use
        /\ s.msgs[k].res # 0 => \E l \in DOMAIN s.msgs : s.msgs[l].use = s.msgs[k].res
    BY <1>4, <1>8 DEF vs
  <2> QED BY <1>3, <2>1, <2>2, RepairTail DEF vs
<1>10. Pick(ms, f .. n) = SubSeq(ms, f, n)
  <2>1. f \in Nat \ {0} /\ n \in 0 .. Len(ms) /\ f <= n + 1
    BY <1>1
  <2> QED BY <1>1, <2>1, PickInterval
<1>11. Compacted(s).msgs = RepairPairing(s).msgs
  BY <1>3, CompactedKeeps DEF vs
<1> QED BY <1>2, <1>4, <1>7, <1>9, <1>10, <1>11 DEF s, vs

(* The summary and the repair leave the last turn as it was, because at    *)
(* least two turns are kept.                                               *)
LEMMA LastTurnAfterSummary ==
  ASSUME NEW c \in Conversations, Tame(c.msgs), Paired(c.msgs), ExactTurns(c),
         NEW keep \in Nat, keep >= 2, NEW summary \in Nat
  PROVE  EndsWith(Compacted(Summarize(c, keep, summary)).msgs,
                  NonEmpty(Pick(c.msgs, Recent(c.msgs, 1))))
<1> DEFINE ms == c.msgs
           n == Len(ms)
           U == UserIndices(ms)
           s == Summarize(c, keep, summary)
           vs == s.msgs
<1>1. ms \in Seq(Messages) /\ n \in Nat /\ DOMAIN ms = 1 .. n /\ Len(c.turns) \in Nat
  BY DEF Conversations
<1>2. PICK f \in 1 .. n + 1 :
        /\ Recent(ms, 1) = f .. n
        /\ U = {} => f = 1
        /\ U # {} => f \in U /\ \A u \in U : u <= f
  BY <1>1, RecentTurn
<1>3. /\ s \in Conversations /\ Tame(vs) /\ vs \in Seq(Messages) /\ DOMAIN vs = 1 .. Len(vs)
      /\ Len(vs) \in Nat
  <2>1. Keeps(c, s)
    BY SummarizeKeeps
  <2> HIDE DEF s
  <2> QED BY <2>1 DEF Keeps, Follows, Conversations
<1>4. Compacted(s).msgs = RepairPairing(s).msgs
  <2> HIDE DEF s
  <2> QED BY <1>3, CompactedKeeps DEF vs
<1>5. Pick(ms, f .. n) = SubSeq(ms, f, n)
  <2>1. f \in Nat \ {0} /\ n \in 0 .. Len(ms) /\ f <= n + 1
    BY <1>1
  <2> QED BY <1>1, <2>1, PickInterval
<1>6. \A k \in f .. n :
        /\ k \in DOMAIN ms
        /\ ms[k].use # 0 => k + 1 \in f .. n /\ ms[k + 1].res = ms[k].use
        /\ ms[k].res # 0 => k - 1 \in DOMAIN ms /\ ms[k - 1].use = ms[k].res
  <2> SUFFICES ASSUME NEW k \in f .. n
               PROVE  /\ k \in DOMAIN ms
                      /\ ms[k].use # 0 => k + 1 \in f .. n /\ ms[k + 1].res = ms[k].use
                      /\ ms[k].res # 0 => k - 1 \in DOMAIN ms /\ ms[k - 1].use = ms[k].res
    OBVIOUS
  <2>1. k \in 1 .. n /\ k \in DOMAIN ms /\ UseAnswered(ms, k) /\ ResultAsked(ms, k)
    BY <1>1 DEF Paired
  <2>2. ASSUME ms[k].use # 0 PROVE k + 1 \in f .. n /\ ms[k + 1].res = ms[k].use
    BY <1>1, <2>1, <2>2 DEF UseAnswered
  <2>3. ASSUME ms[k].res # 0 PROVE k - 1 \in 1 .. n /\ ms[k - 1].use = ms[k].res
    BY <1>1, <2>1, <2>3 DEF ResultAsked
  <2> QED BY <1>1, <2>1, <2>2, <2>3
<1> SUFFICES EndsWith(RepairPairing(s).msgs, NonEmpty(SubSeq(ms, f, n)))
  BY <1>2, <1>4, <1>5
<1>7. CASE s = c
  <2>1. \A k \in f .. n :
          /\ ms[k].use # 0 => \E l \in DOMAIN ms : ms[l].res = ms[k].use
          /\ ms[k].res # 0 => \E l \in DOMAIN ms : ms[l].use = ms[k].res
    BY <1>6
  <2>2. EndsWith(RepairPairing(c).msgs, NonEmpty(SubSeq(ms, f, n)))
    BY <2>1, RepairTail
  <2> HIDE DEF s
  <2> QED BY <1>7, <2>2
<1>8. CASE s # c
  <2>1. /\ Len(c.turns) > keep
        /\ \E b \in 0 .. n : \E I \in SUBSET (1 .. b) :
             Old(c, keep) = 1 .. b /\ vs = SummaryOf(ms, I, b, summary)
    BY <1>8, SummarizeKeeps
  <2>b. PICK b \in 0 .. n : \E I \in SUBSET (1 .. b) :
               Old(c, keep) = 1 .. b /\ vs = SummaryOf(ms, I, b, summary)
    BY <2>1
  <2>2. PICK I \in SUBSET (1 .. b) :
               Old(c, keep) = 1 .. b /\ vs = SummaryOf(ms, I, b, summary)
    BY <2>b
  <2> DEFINE p == Cardinality(I)
             m == n - b + p + 2
             g == f - b + p + 2
  <2>3. /\ Len(vs) = m /\ DOMAIN vs = 1 .. m /\ p \in 0 .. b
        /\ \A k \in p + 3 .. m : vs[k] = ms[k - p - 2 + b]
    <3>1. SummaryShape(SummaryOf(ms, I, b, summary), ms, I, b, summary, p)
      <4>1. ms \in Seq(Messages) /\ b \in 0 .. Len(ms) /\ I \in SUBSET (1 .. b)
        BY <1>1, <2>2
      <4> HIDE DEF ms
      <4> QED BY <4>1, SummaryElements
    <3>2. SummaryShape(vs, ms, I, b, summary, p)
      BY <2>2, <3>1
    <3> HIDE DEF vs, p
    <3> QED BY <3>2 DEF SummaryShape
  <2>4. Len(c.turns) = Cardinality(U)
    BY DEF ExactTurns
  <2>5. IsFiniteSet(U) /\ Cardinality(U) \in Nat
    <3>1. U \in SUBSET (1 .. n)
      BY <1>1 DEF UserIndices
    <3> QED BY <1>1, <3>1, IndexSet, FS_CardinalityType
  <2>6. U # {}
    BY <2>1, <2>4, <2>5, FS_EmptySet
  <2>7. /\ f \in 1 .. n /\ Cardinality(UpTo(U, f)) = Cardinality(U)
        /\ Cardinality(UpTo(U, f - 1)) = Cardinality(U) - 1 /\ Cardinality(UpTo(U, 0)) = 0
    BY <1>2, <2>6, UsersAtLast
  <2>8. Boundary(c, keep) = Cardinality(U) - keep
    BY <2>1, <2>4, BoundaryValue
  <2>9. f - 1 \in 1 .. n
    <3>1. f - 1 # 0
      BY <2>1, <2>4, <2>5, <2>7
    <3> QED BY <1>1, <2>7, <3>1
  <2>10. f - 1 \notin Old(c, keep)
    <3>1. {j \in U : j <= f - 1} = UpTo(U, f - 1)
      BY DEF UpTo
    <3>2. ~ (Cardinality(UpTo(U, f - 1)) <= Boundary(c, keep))
      BY <2>5, <2>7, <2>8
    <3> QED BY <3>1, <3>2 DEF Old, OldUpTo
  <2>11. b < f - 1
    BY <1>1, <2>2, <2>9, <2>10
  <2> HIDE DEF vs, s, U, p
  <2>12. /\ g \in p + 3 .. m + 1 /\ g \in 1 .. Len(vs) + 1 /\ p \in Nat /\ b \in Nat /\ m \in Nat
         /\ f \in 1 .. n /\ m - g = n - f
    BY <1>1, <2>3, <2>7, <2>11
  <2>a. /\ n \in Nat /\ f \in Nat /\ b \in Nat /\ p \in Nat /\ g \in Nat /\ m \in Nat
        /\ g = f - b + p + 2 /\ m = n - b + p + 2 /\ f >= 1 /\ f <= n /\ b < f - 1
    <3>1. g = f - b + p + 2 /\ m = n - b + p + 2
      OBVIOUS
    <3>2. f \in 1 .. n /\ p \in Nat /\ b \in Nat /\ m \in Nat /\ n \in Nat /\ b < f - 1
      BY <1>1, <2>11, <2>12
    <3> HIDE DEF g, m, n, p, ms
    <3> QED BY <3>1, <3>2
  <2>13. \A k \in f - 1 .. n : /\ k - b + p + 2 \in 1 .. m
                               /\ vs[k - b + p + 2] = ms[k]
    <3> TAKE k \in f - 1 .. n
    <3>1. k - b + p + 2 \in p + 3 .. m /\ k - b + p + 2 \in 1 .. m
      <4>1. k \in Nat /\ k > b /\ k <= n
        BY <1>1, <2>11, <2>12
      <4> HIDE DEF ms, n
      <4> QED BY <1>1, <2>12, <4>1
    <3>2. (k - b + p + 2) - p - 2 + b = k
      BY <2>12
    <3> QED BY <2>3, <3>1, <3>2
  <2>14. \A k \in g .. m : k + b - p - 2 \in f .. n /\ vs[k] = ms[k + b - p - 2]
    <3> TAKE k \in g .. m
    <3>1. k \in p + 3 .. m /\ k - p - 2 + b = k + b - p - 2 /\ k + b - p - 2 \in f .. n
      <4> HIDE DEF m, g, ms, n
      <4> QED BY <2>a
    <3> QED BY <2>3, <3>1
  <2>15. SubSeq(vs, g, m) = SubSeq(ms, f, n)
    <3>1. /\ vs \in Seq(Messages) /\ ms \in Seq(Messages) /\ Len(vs) = m /\ Len(ms) = n
          /\ g \in Nat /\ g >= 1 /\ f >= 1 /\ f \in Nat
      BY <1>1, <1>3, <2>3, <2>12
    <3>2. \A i \in 1 .. n - f + 1 : vs[g + i - 1] = ms[f + i - 1]
      <4> TAKE i \in 1 .. n - f + 1
      <4>1. g + i - 1 \in g .. m /\ (g + i - 1) + b - p - 2 = f + i - 1
        <5> HIDE DEF m, g, ms, n
        <5> QED BY <2>a
      <4> QED BY <2>14, <4>1
    <3> HIDE DEF ms, n, m, g
    <3>3. m - g + 1 = n - f + 1
      BY <2>a
    <3>4. /\ SubSeq(vs, g, m) = [i \in 1 .. n - f + 1 |-> vs[g + i - 1]]
          /\ SubSeq(ms, f, n) = [i \in 1 .. n - f + 1 |-> ms[f + i - 1]]
      BY <2>a, <3>1, <3>3
    <3> QED BY <3>2, <3>4
  <2>16. \A k \in g .. m :
          /\ vs[k].use # 0 => \E l \in DOMAIN vs : vs[l].res = vs[k].use
          /\ vs[k].res # 0 => \E l \in DOMAIN vs : vs[l].use = vs[k].res
    <3> SUFFICES ASSUME NEW k \in g .. m
                 PROVE  /\ vs[k].use # 0 => \E l \in DOMAIN vs : vs[l].res = vs[k].use
                        /\ vs[k].res # 0 => \E l \in DOMAIN vs : vs[l].use = vs[k].res
      OBVIOUS
    <3> DEFINE i == k + b - p - 2
    <3>1. i \in f .. n /\ vs[k] = ms[i]
      BY <2>14
    <3> HIDE DEF i, g, m, ms, n
    <3>2. i - 1 \in f - 1 .. n
      BY <2>a, <3>1
    <3>3. ASSUME ms[i].use # 0 PROVE \E l \in DOMAIN vs : vs[l].res = ms[i].use
      <4>1. i + 1 \in f .. n /\ ms[i + 1].res = ms[i].use
        BY <1>6, <3>1, <3>3
      <4>2. i + 1 \in f - 1 .. n
        BY <1>1, <2>12, <4>1
      <4> QED BY <2>3, <2>13, <4>1, <4>2
    <3>4. ASSUME ms[i].res # 0 PROVE \E l \in DOMAIN vs : vs[l].use = ms[i].res
      <4>1. ms[i - 1].use = ms[i].res
        BY <1>6, <3>1, <3>4
      <4> QED BY <2>3, <2>13, <3>2, <4>1
    <3> QED BY <3>1, <3>3, <3>4
  <2>17. EndsWith(RepairPairing(s).msgs, NonEmpty(SubSeq(vs, g, m)))
    BY <1>3, <2>3, <2>12, <2>16, RepairTail DEF vs
  <2> QED BY <2>15, <2>17
<1> QED BY <1>7, <1>8

(* Below 95 percent no strategy touches the last turn.                     *)
LEMMA LastTurnSurvives ==
  ASSUME NEW c \in Conversations, Tame(c.msgs), Paired(c.msgs), ExactTurns(c),
         NEW summary \in Nat, Percent(c) < 95
  PROVE  EndsWith(Compacted(AutoStrategy(c, summary)).msgs,
                  NonEmpty(Pick(c.msgs, Recent(c.msgs, 1))))
<1>1. EndsWith(Compacted(Shrink(c)).msgs, NonEmpty(Pick(c.msgs, Recent(c.msgs, 1))))
  BY ShrinkKeepsLastTurn
<1>2. \A keep \in {2, 3} : EndsWith(Compacted(Summarize(c, keep, summary)).msgs,
                                    NonEmpty(Pick(c.msgs, Recent(c.msgs, 1))))
  BY LastTurnAfterSummary
<1> QED BY <1>1, <1>2 DEF AutoStrategy, PreserveRecent

-----------------------------------------------------------------------------
(* The ranges of the turns of a session without a client.                  *)

(* The ranges follow one another, the last one ends with the messages, and *)
(* every user message of U begins a range.                                 *)
Tiles(t, n, U) ==
  /\ t # << >> => t[Len(t)].last = n
  /\ \A k \in DOMAIN t :
       /\ t[k].first <= t[k].last
       /\ k > 1 => t[k].first = t[k - 1].last + 1 /\ t[k].first \in U
  /\ \A i \in U : \E k \in DOMAIN t : t[k].first = i

(* TurnRangesTile, strengthened: every user message begins a range. Without*)
(* it a range could begin in the middle of a turn after pop_last_turn.     *)
Tiled(c) == Tiles(c.turns, Len(c.msgs), UserIndices(c.msgs))

(* The ranges of a conversation are pairs of positive numbers.             *)
LEMMA RangeNumbers ==
  ASSUME NEW c \in Conversations
  PROVE  /\ DOMAIN c.turns = 1 .. Len(c.turns) /\ Len(c.turns) \in Nat
         /\ c.turns \in Seq(Ranges)
         /\ \A k \in DOMAIN c.turns : /\ c.turns[k] \in Ranges
                                      /\ c.turns[k].first \in Nat \ {0}
                                      /\ c.turns[k].last \in Nat \ {0}
<1>1. c.turns \in Seq(Ranges)
  BY DEF Conversations
<1>2. \A k \in DOMAIN c.turns : c.turns[k] \in Ranges
  BY <1>1
<1> QED BY <1>1, <1>2 DEF Ranges

(* Ranges that tile the messages are in order and do not overlap.          *)
LEMMA TurnsOrdered ==
  ASSUME NEW c \in Conversations, Tiled(c)
  PROVE  \A k, l \in DOMAIN c.turns : k < l => c.turns[k].last < c.turns[l].first
<1> DEFINE t == c.turns
           n == Len(t)
<1>1. /\ DOMAIN t = 1 .. n /\ n \in Nat
      /\ \A k \in 1 .. n : t[k].first \in Nat /\ t[k].last \in Nat
  BY RangeNumbers
<1>2. \A k \in 1 .. n : /\ t[k].first <= t[k].last
                        /\ k > 1 => t[k].first = t[k - 1].last + 1
  BY <1>1 DEF Tiled, Tiles
<1> HIDE DEF t, n
<1>3. ASSUME NEW k \in 1 .. n, NEW l \in 1 .. n, k < l PROVE t[k].last < t[l].first
  <2> DEFINE T == {d \in 0 .. l - k - 1 : t[k].last < t[k + 1 + d].first}
  <2>1. k \in Nat /\ l \in Nat /\ l - k - 1 \in Nat /\ t[k].last \in Nat
    BY <1>1, <1>3
  <2>2. 0 \in T
    <3>1. k + 1 + 0 \in 1 .. n /\ k + 1 + 0 > 1 /\ k + 1 + 0 - 1 = k
      BY <1>1, <1>3
    <3>2. t[k + 1 + 0].first = t[k].last + 1
      BY <1>2, <3>1
    <3> QED BY <2>1, <3>2
  <2>3. ASSUME NEW d \in 0 .. l - k - 1 - 1, d \in T PROVE d + 1 \in T
    <3> DEFINE i == k + 1 + d
    <3>1. /\ i \in 1 .. n /\ i + 1 \in 1 .. n /\ i + 1 > 1 /\ i + 1 - 1 = i
          /\ k + 1 + (d + 1) = i + 1 /\ d + 1 \in 0 .. l - k - 1
      BY <1>1, <1>3
    <3>2. t[k].last < t[i].first
      BY <2>3
    <3> HIDE DEF i
    <3>3. t[i].first <= t[i].last /\ t[i + 1].first = t[i].last + 1
      BY <1>2, <3>1
    <3>4. t[i].first \in Nat /\ t[i].last \in Nat /\ t[i + 1].first \in Nat
      BY <1>1, <3>1
    <3>5. t[k].last < t[i + 1].first
      BY <2>1, <3>2, <3>3, <3>4
    <3> QED BY <3>1, <3>5
  <2> HIDE DEF T
  <2>4. l - k - 1 \in T
    <3>1. \A d \in 0 .. l - k - 1 : d \in T
      BY <2>1, <2>2, <2>3, CountUp
    <3> QED BY <2>1, <3>1
  <2> QED BY <2>1, <2>4 DEF T
<1> QED BY <1>1, <1>3 DEF t

(* The user messages after a push.                                         *)
LEMMA PushUsers ==
  ASSUME NEW c \in Conversations, NEW m \in Messages
  PROVE  UserIndices(Append(c.msgs, m)) =
           UserIndices(c.msgs) \cup (IF m.role = "user" THEN {Len(c.msgs) + 1} ELSE {})
<1> DEFINE ms == c.msgs
           ns == Append(ms, m)
           n == Len(ms)
<1>1. ms \in Seq(Messages) /\ n \in Nat /\ DOMAIN ms = 1 .. n
  BY DEF Conversations
<1> HIDE DEF ms
<1>2. /\ DOMAIN ns = 1 .. n + 1 /\ ns[n + 1] = m
      /\ \A i \in 1 .. n : ns[i] = ms[i]
  BY <1>1
<1> HIDE DEF n, ns
<1>3. \A i : i \in 1 .. n + 1 <=> i \in 1 .. n \/ i = n + 1
  BY <1>1
<1>4. n + 1 \notin 1 .. n
  BY <1>1
<1>5. \A i : i \in UserIndices(ns) <=> i \in UserIndices(ms) \/ (i = n + 1 /\ m.role = "user")
  BY <1>1, <1>2, <1>3, <1>4 DEF UserIndices
<1> QED BY <1>5 DEF ns, n, ms

(* push opens a range with a user message and extends the last one         *)
(* otherwise.                                                              *)
LEMMA PushTiles ==
  ASSUME NEW c \in Conversations, Tiled(c), NEW m \in Messages
  PROVE  Tiled(Push(c, m))
<1> DEFINE d == Push(c, m)
           t == c.turns
           n == Len(c.msgs)
           U == UserIndices(c.msgs)
<1>1. /\ DOMAIN t = 1 .. Len(t) /\ Len(t) \in Nat /\ t \in Seq(Ranges)
      /\ \A k \in 1 .. Len(t) : /\ t[k] \in Ranges
                                /\ t[k].first \in Nat \ {0} /\ t[k].last \in Nat \ {0}
  BY RangeNumbers
<1>2. n \in Nat /\ c.msgs \in Seq(Messages) /\ U \in SUBSET (1 .. n)
  BY DEF Conversations, UserIndices
<1>3. /\ t # << >> => t[Len(t)].last = n
      /\ \A k \in 1 .. Len(t) :
           /\ t[k].first <= t[k].last
           /\ k > 1 => t[k].first = t[k - 1].last + 1 /\ t[k].first \in U
      /\ \A i \in U : \E k \in 1 .. Len(t) : t[k].first = i
  BY <1>1 DEF Tiled, Tiles
<1>4. /\ d.msgs = Append(c.msgs, m) /\ Len(d.msgs) = n + 1
      /\ UserIndices(d.msgs) = U \cup (IF m.role = "user" THEN {n + 1} ELSE {})
  <2>1. d.msgs = Append(c.msgs, m)
    BY PushResult
  <2>2. UserIndices(Append(c.msgs, m)) = U \cup (IF m.role = "user" THEN {n + 1} ELSE {})
    BY PushUsers
  <2> HIDE DEF d, U
  <2> QED BY <1>2, <2>1, <2>2
<1>5. d.turns = IF m.role = "user" THEN Append(t, [first |-> n + 1, last |-> n + 1])
                ELSE IF t = << >> THEN t ELSE [t EXCEPT ![Len(t)].last = n + 1]
  BY DEF Push, NextIndex, ExtendTurn, Conversations
<1> SUFFICES Tiled(d)
  OBVIOUS
<1> HIDE DEF d, n, U, t
<1>6. CASE m.role = "user"
  <2> DEFINE u == d.turns
  <2>1. /\ DOMAIN u = 1 .. Len(t) + 1 /\ Len(u) = Len(t) + 1
        /\ u[Len(t) + 1] = [first |-> n + 1, last |-> n + 1]
        /\ \A k \in 1 .. Len(t) : u[k] = t[k]
    BY <1>1, <1>5, <1>6
  <2>2. UserIndices(d.msgs) = U \cup {n + 1}
    BY <1>4, <1>6
  <2> HIDE DEF u
  <2>3. u[Len(u)].last = Len(d.msgs)
    BY <1>4, <2>1
  <2>4. ASSUME NEW k \in DOMAIN u
        PROVE  /\ u[k].first <= u[k].last
               /\ k > 1 => u[k].first = u[k - 1].last + 1 /\ u[k].first \in UserIndices(d.msgs)
    <3>1. CASE k \in 1 .. Len(t)
      <4>1. k > 1 => k - 1 \in 1 .. Len(t)
        BY <1>1, <3>1
      <4> QED BY <1>3, <2>1, <2>2, <3>1, <4>1
    <3>2. CASE k = Len(t) + 1
      <4>1. k > 1 => Len(t) \in 1 .. Len(t) /\ t # << >> /\ k - 1 = Len(t)
        BY <1>1, <3>2
      <4>2. u[k].first = n + 1 /\ u[k].last = n + 1
        BY <2>1, <3>2
      <4>3. k > 1 => u[k - 1].last = n
        BY <1>3, <2>1, <4>1
      <4> QED BY <1>2, <2>2, <4>2, <4>3
    <3> QED BY <1>1, <2>1, <3>1, <3>2
  <2>5. \A i \in UserIndices(d.msgs) : \E k \in DOMAIN u : u[k].first = i
    <3> SUFFICES ASSUME NEW i \in UserIndices(d.msgs) PROVE \E k \in DOMAIN u : u[k].first = i
      OBVIOUS
    <3>1. CASE i \in U
      <4>1. PICK k \in 1 .. Len(t) : t[k].first = i
        BY <1>3, <3>1
      <4>2. k \in DOMAIN u /\ u[k].first = i
        BY <1>1, <2>1, <4>1
      <4> QED BY <4>2
    <3>2. CASE i = n + 1
      <4>1. Len(t) + 1 \in DOMAIN u /\ u[Len(t) + 1].first = i
        BY <1>1, <2>1, <3>2
      <4> QED BY <4>1
    <3> QED BY <2>2, <3>1, <3>2
  <2>6. Tiles(u, Len(d.msgs), UserIndices(d.msgs))
    BY <2>3, <2>4, <2>5 DEF Tiles
  <2> QED BY <2>6 DEF Tiled, u
<1>7. CASE m.role # "user" /\ t = << >>
  <2>1. d.turns = << >> /\ UserIndices(d.msgs) = U /\ U = {}
    BY <1>1, <1>3, <1>4, <1>5, <1>7
  <2> QED BY <2>1 DEF Tiled, Tiles
<1>8. CASE m.role # "user" /\ t # << >>
  <2> DEFINE u == d.turns
             l == Len(t)
  <2>1. l \in 1 .. l /\ l \in Nat
    BY <1>1, <1>8
  <2>2. /\ DOMAIN u = 1 .. l /\ Len(u) = l
        /\ u[l] = [t[l] EXCEPT !.last = n + 1]
        /\ \A k \in 1 .. l : k # l => u[k] = t[k]
    <3>1. u = [t EXCEPT ![l] = [t[l] EXCEPT !.last = n + 1]]
      BY <1>5, <1>8
    <3>2. [t[l] EXCEPT !.last = n + 1] \in Ranges
      <4>1. t[l] \in Ranges
        BY <1>1, <2>1
      <4>2. n + 1 \in Nat \ {0}
        BY <1>2
      <4> HIDE DEF l
      <4> QED BY <4>1, <4>2 DEF Ranges
    <3> DEFINE r == [t[l] EXCEPT !.last = n + 1]
    <3> HIDE DEF u, r
    <3>3. u = [t EXCEPT ![l] = r]
      BY <3>1 DEF r
    <3>4. DOMAIN u = DOMAIN t /\ u[l] = r /\ \A k \in DOMAIN t : k # l => u[k] = t[k]
      BY <1>1, <2>1, <3>3
    <3>5. Len(u) = l
      BY <1>1, <3>2, <3>3 DEF r
    <3> QED BY <1>1, <3>4, <3>5 DEF r
  <2>3. u[l].last = n + 1 /\ u[l].first = t[l].first
    BY <1>1, <2>1, <2>2 DEF Ranges
  <2>4. UserIndices(d.msgs) = U
    BY <1>4, <1>8
  <2> HIDE DEF u, l
  <2>5. u[Len(u)].last = Len(d.msgs)
    BY <1>4, <2>2, <2>3
  <2>6. ASSUME NEW k \in DOMAIN u
        PROVE  /\ u[k].first <= u[k].last
               /\ k > 1 => u[k].first = u[k - 1].last + 1 /\ u[k].first \in UserIndices(d.msgs)
    <3>1. /\ t[k].first <= t[k].last
          /\ k > 1 => t[k].first = t[k - 1].last + 1 /\ t[k].first \in U
      BY <1>3, <2>2 DEF l
    <3>2. u[k].first = t[k].first
      BY <2>2, <2>3
    <3>3. k > 1 => u[k - 1] = t[k - 1]
      <4>1. k > 1 => k - 1 \in 1 .. l /\ k - 1 # l
        BY <2>1, <2>2
      <4> QED BY <2>2, <4>1
    <3>4. u[k].first <= u[k].last
      <4>1. CASE k = l
        <5>1. t[l].last = n /\ t[l].first <= t[l].last /\ t[l].first \in Nat
          BY <1>1, <1>3, <1>8, <2>1 DEF l
        <5> QED BY <1>2, <2>3, <4>1, <5>1
      <4>2. CASE k # l
        BY <2>2, <3>1, <4>2
      <4> QED BY <4>1, <4>2
    <3> QED BY <2>4, <3>1, <3>2, <3>3, <3>4
  <2>7. \A i \in UserIndices(d.msgs) : \E k \in DOMAIN u : u[k].first = i
    <3> SUFFICES ASSUME NEW i \in U PROVE \E k \in DOMAIN u : u[k].first = i
      BY <2>4
    <3>1. PICK k \in 1 .. l : t[k].first = i
      BY <1>3 DEF l
    <3>2. k \in DOMAIN u /\ u[k].first = i
      BY <2>2, <2>3, <3>1
    <3> QED BY <3>2
  <2>8. Tiles(u, Len(d.msgs), UserIndices(d.msgs))
    BY <2>5, <2>6, <2>7 DEF Tiles
  <2> QED BY <2>8 DEF Tiled, u
<1> QED BY <1>6, <1>7, <1>8 DEF d

(* pop_last_turn cuts the messages at the last user message and drops the  *)
(* ranges from there on.                                                   *)
LEMMA PopResult ==
  ASSUME NEW c \in Conversations, UserIndices(c.msgs) # {}
  PROVE  \E u \in UserIndices(c.msgs) :
           LET left == {k \in DOMAIN c.turns : c.turns[k].first < u}
               d == PopLastTurn(c)
           IN  /\ u \in 1 .. Len(c.msgs) /\ \A v \in UserIndices(c.msgs) : v <= u
               /\ d \in Conversations
               /\ d.msgs = SubSeq(c.msgs, 1, u - 1) /\ d.turns = Pick(c.turns, left)
<1> DEFINE U == UserIndices(c.msgs)
           n == Len(c.msgs)
           u == Max(U)
           left == {k \in DOMAIN c.turns : c.turns[k].first < u}
<1>1. n \in Nat /\ U \in SUBSET (1 .. n) /\ c.msgs \in Seq(Messages)
  BY DEF Conversations, UserIndices
<1>2. u \in U /\ \A v \in U : v <= u
  <2>1. U # {}
    OBVIOUS
  <2> HIDE DEF U, n
  <2>2. \E x \in U : \A y \in U : y <= x
    BY <1>1, <2>1, GreatestNumber
  <2>3. \E x \in U : \A y \in U : x >= y
    <3>1. \A x, y \in U : y <= x <=> x >= y
      BY <1>1
    <3> QED BY <2>2, <3>1
  <2>4. u \in U /\ \A y \in U : u >= y
    BY <2>3 DEF Max
  <2>5. \A y \in U : u >= y <=> y <= u
    <3>1. \A x, y \in U : x >= y <=> y <= x
      BY <1>1
    <3> QED BY <2>4, <3>1
  <2> QED BY <2>4, <2>5
<1>3. PopLastTurn(c) = [c EXCEPT !.msgs = SubSeq(c.msgs, 1, u - 1), !.turns = Pick(c.turns, left)]
  BY DEF PopLastTurn
<1>4. u \in 1 .. n
  BY <1>1, <1>2
<1> HIDE DEF u
<1>5. SubSeq(c.msgs, 1, u - 1) \in Seq(Messages)
  BY <1>1, <1>4
<1>6. Pick(c.turns, left) \in Seq(Ranges)
  <2>1. left \in SUBSET DOMAIN c.turns /\ c.turns \in Seq(Ranges)
    BY RangeNumbers
  <2> HIDE DEF left
  <2> QED BY <2>1, PickElements
<1>7. /\ PopLastTurn(c) \in Conversations
      /\ PopLastTurn(c).msgs = SubSeq(c.msgs, 1, u - 1)
      /\ PopLastTurn(c).turns = Pick(c.turns, left)
  <2> HIDE DEF left
  <2> QED BY <1>3, <1>5, <1>6 DEF Conversations
<1> QED BY <1>2, <1>4, <1>7

(* After pop_last_turn the ranges tile the messages that are left.         *)
LEMMA PopTiles ==
  ASSUME NEW c \in Conversations, Tiled(c)
  PROVE  Tiled(PopLastTurn(c))
<1> DEFINE U == UserIndices(c.msgs)
           n == Len(c.msgs)
           t == c.turns
           d == PopLastTurn(c)
<1>1. CASE U = {}
  BY <1>1 DEF PopLastTurn
<1>2. CASE U # {}
  <2>1. PICK u \in U :
          LET left == {k \in DOMAIN c.turns : c.turns[k].first < u}
          IN  /\ u \in 1 .. Len(c.msgs) /\ \A v \in U : v <= u
              /\ d \in Conversations
              /\ d.msgs = SubSeq(c.msgs, 1, u - 1) /\ d.turns = Pick(c.turns, left)
    BY <1>2, PopResult
  <2> DEFINE left == {k \in DOMAIN t : t[k].first < u}
  <2>2. /\ DOMAIN t = 1 .. Len(t) /\ Len(t) \in Nat /\ t \in Seq(Ranges)
        /\ \A k \in 1 .. Len(t) : t[k].first \in Nat /\ t[k].last \in Nat
    BY RangeNumbers
  <2>3. /\ \A k \in 1 .. Len(t) :
             /\ t[k].first <= t[k].last
             /\ k > 1 => t[k].first = t[k - 1].last + 1 /\ t[k].first \in U
        /\ \A i \in U : \E k \in 1 .. Len(t) : t[k].first = i
    BY <2>2 DEF Tiled, Tiles
  <2>4. \A k, l \in 1 .. Len(t) : k < l => t[k].last < t[l].first
    BY <2>2, TurnsOrdered
  <2>5. n \in Nat /\ c.msgs \in Seq(Messages) /\ DOMAIN c.msgs = 1 .. n /\ u \in 1 .. n
    BY <2>1 DEF Conversations
  <2>6. PICK q \in 1 .. Len(t) : t[q].first = u
    BY <2>1, <2>3
  <2>7. \A k \in 1 .. Len(t) : t[k].first < u <=> k < q
    <3> TAKE k \in 1 .. Len(t)
    <3>1. k < q => t[k].first <= t[k].last /\ t[k].last < u
      BY <2>3, <2>4, <2>6
    <3>2. q < k => t[q].first <= t[q].last /\ t[q].last < t[k].first
      BY <2>3, <2>4
    <3>3. /\ t[k].first \in Nat /\ t[k].last \in Nat /\ t[q].first \in Nat /\ t[q].last \in Nat
          /\ u \in Nat /\ k \in Nat /\ q \in Nat
      BY <2>2, <2>5, <2>6
    <3>4. CASE k < q
      BY <3>1, <3>3, <3>4
    <3>5. CASE k = q
      BY <2>6, <3>3, <3>5
    <3>6. CASE q < k
      BY <2>6, <3>2, <3>3, <3>6
    <3> QED BY <3>3, <3>4, <3>5, <3>6
  <2>8. left = 1 .. q - 1
    <3>1. left = {k \in 1 .. Len(t) : t[k].first < u}
      BY <2>2
    <3> HIDE DEF t, left
    <3>2. \A k : k \in left <=> k \in 1 .. Len(t) /\ k < q
      BY <2>7, <3>1
    <3>3. \A k : k \in 1 .. Len(t) /\ k < q <=> k \in 1 .. q - 1
      BY <2>2
    <3> QED BY <3>2, <3>3
  <2>9. d.turns = SubSeq(t, 1, q - 1)
    <3>1. Pick(t, 1 .. q - 1) = SubSeq(t, 1, q - 1)
      <4>1. 1 \in Nat \ {0} /\ q - 1 \in 0 .. Len(t) /\ 1 <= q - 1 + 1
        BY <2>2
      <4> QED BY <2>2, <4>1, PickInterval
    <3>2. d.turns = Pick(t, left)
      BY <2>1
    <3> HIDE DEF d, left, t
    <3> QED BY <2>8, <3>1, <3>2
  <2>10. d.msgs = SubSeq(c.msgs, 1, u - 1)
    BY <2>1
  <2> DEFINE s == SubSeq(t, 1, q - 1)
             ns == SubSeq(c.msgs, 1, u - 1)
  <2>11. /\ Len(s) = q - 1 /\ DOMAIN s = 1 .. q - 1
         /\ \A k \in 1 .. q - 1 : s[k] = t[k]
    <3> HIDE DEF t
    <3> QED BY <2>2
  <2>12. /\ Len(ns) = u - 1 /\ DOMAIN ns = 1 .. u - 1 /\ \A i \in 1 .. u - 1 : ns[i] = c.msgs[i]
    BY <2>5
  <2> HIDE DEF s, ns, t, n
  <2>13. \A i : i \in UserIndices(ns) <=> i \in U /\ i < u
    <3>1. \A i : i \in UserIndices(ns) <=> i \in 1 .. u - 1 /\ ns[i].role = "user"
      BY <2>12 DEF UserIndices
    <3>2. \A i : i \in U <=> i \in 1 .. n /\ c.msgs[i].role = "user"
      BY <2>5 DEF UserIndices
    <3>3. \A i : i \in 1 .. u - 1 <=> i \in 1 .. n /\ i < u
      BY <2>5
    <3> QED BY <2>12, <3>1, <3>2, <3>3
  <2> HIDE DEF U
  <2>14. Tiles(s, Len(ns), UserIndices(ns))
    <3>1. s # << >> => s[Len(s)].last = Len(ns)
      <4> SUFFICES ASSUME s # << >> PROVE s[Len(s)].last = Len(ns)
        OBVIOUS
      <4>1. q - 1 \in 1 .. q - 1 /\ q > 1
        <5>1. q # 1
          <6>1. q = 1 => Len(s) = 0
            BY <2>11
          <6>2. s \in Seq(Ranges)
            BY <2>2 DEF s
          <6> QED BY <6>1, <6>2
        <5> QED BY <2>2, <5>1
      <4>2. s[q - 1] = t[q - 1] /\ t[q].first = t[q - 1].last + 1
        BY <2>3, <2>11, <4>1
      <4>3. t[q - 1].last \in Nat
        BY <2>2, <4>1
      <4> QED BY <2>5, <2>6, <2>11, <2>12, <4>2, <4>3
    <3>2. ASSUME NEW k \in DOMAIN s
          PROVE  /\ s[k].first <= s[k].last
                 /\ k > 1 => s[k].first = s[k - 1].last + 1 /\ s[k].first \in UserIndices(ns)
      <4>1. k \in 1 .. q - 1 /\ k \in 1 .. Len(t) /\ s[k] = t[k] /\ k < q
        BY <2>2, <2>11
      <4>2. k > 1 => k - 1 \in 1 .. q - 1
        BY <4>1
      <4>3. k > 1 => s[k - 1] = t[k - 1]
        BY <2>11, <4>2
      <4>4. t[k].first < u
        BY <2>7, <4>1
      <4> QED BY <2>3, <2>13, <4>1, <4>3, <4>4
    <3>3. \A i \in UserIndices(ns) : \E k \in DOMAIN s : s[k].first = i
      <4> SUFFICES ASSUME NEW i \in UserIndices(ns) PROVE \E k \in DOMAIN s : s[k].first = i
        OBVIOUS
      <4>1. i \in U /\ i < u
        BY <2>13
      <4>2. PICK k \in 1 .. Len(t) : t[k].first = i
        BY <2>3, <4>1
      <4>3. k < q
        BY <2>7, <4>1, <4>2
      <4>4. k \in 1 .. q - 1
        BY <4>3
      <4> QED BY <2>11, <4>2, <4>4
    <3> QED BY <3>1, <3>2, <3>3 DEF Tiles
  <2> QED BY <2>9, <2>10, <2>14 DEF Tiled, s, ns
<1> QED BY <1>1, <1>2

(* Nothing costs nothing.                                                  *)
LEMMA NoCost ==
  ASSUME NEW ms
  PROVE  CostOf(ms, {}) = 0
BY DEF CostOf, MapThenSumSet, MapThenFoldSet

(* truncate_to_budget keeps the end of the messages and shifts the ranges. *)
LEMMA TruncateToBudgetResult ==
  ASSUME NEW c \in Conversations, NEW budget \in Nat
  PROVE  \E r \in 0 .. Len(c.msgs) :
           LET left == Pick(c.turns, {k \in DOMAIN c.turns : c.turns[k].last > r})
               d == TruncateToBudget(c, budget)
           IN  /\ d \in Conversations
               /\ d.msgs = SubSeq(c.msgs, r + 1, Len(c.msgs))
               /\ d.turns = [k \in DOMAIN left |-> ShiftedBy(left[k], r)]
<1> DEFINE n == Len(c.msgs)
           F == {k \in 1 .. n + 1 : CostOf(c.msgs, k .. n) <= budget}
           r == Min(F) - 1
           later == {k \in DOMAIN c.turns : c.turns[k].last > r}
           left == Pick(c.turns, later)
           moved == [k \in DOMAIN left |-> ShiftedBy(left[k], r)]
           d == TruncateToBudget(c, budget)
<1>1. n \in Nat /\ c.msgs \in Seq(Messages)
  BY DEF Conversations
<1>2. n + 1 \in F
  <2>1. (n + 1) .. n = {}
    BY <1>1
  <2>2. CostOf(c.msgs, (n + 1) .. n) = 0
    BY <2>1, NoCost
  <2>3. n + 1 \in 1 .. n + 1
    BY <1>1
  <2> QED BY <2>2, <2>3
<1>3. F \in SUBSET Nat
  BY <1>1
<1>4. d = [c EXCEPT !.msgs = SubSeq(c.msgs, r + 1, n), !.turns = moved]
  BY DEF TruncateToBudget, WithoutStart
<1>5. r \in 0 .. n
  <2>1. \A x \in F : x \in 1 .. n + 1
    OBVIOUS
  <2> HIDE DEF F, n
  <2>2. \E x \in F : \A y \in F : x <= y
    BY <1>2, <1>3, LeastNumber
  <2>3. Min(F) \in F
    BY <2>2 DEF Min
  <2>4. Min(F) \in 1 .. n + 1
    BY <2>1, <2>3
  <2> QED BY <1>1, <2>4
<1> HIDE DEF r, F
<1>6. /\ left \in Seq(Ranges) /\ DOMAIN left = 1 .. Len(left) /\ Len(left) \in Nat
      /\ \A k \in DOMAIN left : left[k] \in Ranges /\ left[k].last > r
  <2>1. later \in SUBSET DOMAIN c.turns /\ c.turns \in Seq(Ranges)
    BY RangeNumbers
  <2>2. \A k \in later : c.turns[k].last > r
    OBVIOUS
  <2> HIDE DEF later
  <2>3. left \in Seq(Ranges)
    BY <2>1, PickElements
  <2>4. \A k \in DOMAIN left : \E i \in later : left[k] = c.turns[i]
    BY <2>1, PickMembers
  <2> HIDE DEF left
  <2> QED BY <2>2, <2>3, <2>4
<1> HIDE DEF left
<1>7. moved \in Seq(Ranges)
  <2>1. ASSUME NEW k \in DOMAIN left PROVE moved[k] \in Ranges
    <3>1. left[k] \in Ranges /\ left[k].last > r /\ moved[k] = ShiftedBy(left[k], r)
      BY <1>6, <2>1
    <3>2. r \in Nat /\ left[k].first \in Nat \ {0} /\ left[k].last \in Nat \ {0}
      BY <1>1, <1>5, <3>1 DEF Ranges
    <3>3. left[k].last - r \in Nat \ {0}
      BY <3>1, <3>2
    <3>4. (IF left[k].first > r THEN left[k].first - r ELSE 1) \in Nat \ {0}
      BY <3>2
    <3> QED BY <3>1, <3>3, <3>4 DEF ShiftedBy, Ranges
  <2> HIDE DEF moved
  <2>2. moved = [k \in 1 .. Len(left) |-> ShiftedBy(left[k], r)]
    BY <1>6 DEF moved
  <2>3. moved \in [1 .. Len(left) -> Ranges]
    BY <1>6, <2>1, <2>2
  <2> QED BY <1>6, <2>3
<1>8. SubSeq(c.msgs, r + 1, n) \in Seq(Messages)
  BY <1>1, <1>5
<1> HIDE DEF moved
<1>9. d \in Conversations /\ d.msgs = SubSeq(c.msgs, r + 1, n) /\ d.turns = moved
  <2> HIDE DEF d
  <2> QED BY <1>4, <1>7, <1>8 DEF Conversations
<1> QED BY <1>5, <1>9 DEF moved, left

(* truncate_to_budget keeps the ranges tiled, cut ones included.           *)
LEMMA TruncateTiles ==
  ASSUME NEW c \in Conversations, Tiled(c), NEW budget \in Nat
  PROVE  Tiled(TruncateToBudget(c, budget))
<1> DEFINE U == UserIndices(c.msgs)
           n == Len(c.msgs)
           t == c.turns
           l == Len(t)
           d == TruncateToBudget(c, budget)
<1>1. PICK r \in 0 .. n :
        LET left == Pick(c.turns, {k \in DOMAIN c.turns : c.turns[k].last > r})
        IN  /\ d \in Conversations
            /\ d.msgs = SubSeq(c.msgs, r + 1, Len(c.msgs))
            /\ d.turns = [k \in DOMAIN left |-> ShiftedBy(left[k], r)]
  BY TruncateToBudgetResult
<1> DEFINE later == {k \in DOMAIN t : t[k].last > r}
<1>2. /\ DOMAIN t = 1 .. l /\ l \in Nat /\ t \in Seq(Ranges)
      /\ \A k \in 1 .. l : t[k].first \in Nat \ {0} /\ t[k].last \in Nat \ {0}
  BY RangeNumbers
<1>3. /\ l # 0 => t[l].last = n
      /\ \A k \in 1 .. l :
           /\ t[k].first <= t[k].last
           /\ k > 1 => t[k].first = t[k - 1].last + 1 /\ t[k].first \in U
      /\ \A i \in U : \E k \in 1 .. l : t[k].first = i
  BY <1>2 DEF Tiled, Tiles
<1>4. \A k, j \in 1 .. l : k < j => t[k].last < t[j].first
  BY <1>2, TurnsOrdered
<1>5. n \in Nat /\ c.msgs \in Seq(Messages) /\ DOMAIN c.msgs = 1 .. n /\ r \in Nat /\ r <= n
  <2>1. n \in Nat /\ c.msgs \in Seq(Messages) /\ DOMAIN c.msgs = 1 .. n
    BY DEF Conversations
  <2> QED BY <2>1
<1> SUFFICES Tiled(d)
  OBVIOUS
<1>a. d.turns = [k \in DOMAIN Pick(t, later) |-> ShiftedBy(Pick(t, later)[k], r)]
  BY <1>1
<1>b. d.msgs = SubSeq(c.msgs, r + 1, n)
  BY <1>1
<1>c. later = {k \in 1 .. l : t[k].last > r}
  BY <1>2
<1> HIDE DEF t, l, d, n, later
<1>6. \E a \in 1 .. l + 1 : later = a .. l
  <2> DEFINE D == {k \in 1 .. l : ~ (t[k].last > r)}
  <2>1. \A i \in D, j \in 1 .. l : j <= i => j \in D
    <3> SUFFICES ASSUME NEW i \in D, NEW j \in 1 .. l, j <= i PROVE j \in D
      OBVIOUS
    <3>1. i \in 1 .. l /\ ~ (t[i].last > r) /\ i \in Nat /\ j \in Nat
      BY <1>2
    <3>2. /\ t[i].last \in Nat /\ t[j].last \in Nat /\ t[i].first \in Nat
          /\ t[i].first <= t[i].last
      BY <1>2, <1>3, <3>1
    <3>3. j < i => t[j].last < t[i].first
      BY <1>4, <3>1
    <3>4. ~ (t[j].last > r)
      BY <1>5, <3>1, <3>2, <3>3
    <3> QED BY <3>4
  <2>2. D \in SUBSET (1 .. l)
    OBVIOUS
  <2>3. \A k : k \in later <=> k \in 1 .. l /\ k \notin D
    BY <1>c
  <2> HIDE DEF D
  <2>4. PICK b \in 0 .. l : D = 1 .. b
    BY <1>2, <2>1, <2>2, PrefixSet
  <2>5. later = (b + 1) .. l
    <3>1. \A k : k \in 1 .. l /\ k \notin 1 .. b <=> k \in (b + 1) .. l
      BY <1>2
    <3> QED BY <2>3, <2>4, <3>1
  <2>6. b + 1 \in 1 .. l + 1
    BY <1>2
  <2> QED BY <2>5, <2>6
<1>7. PICK a \in 1 .. l + 1 : later = a .. l
  BY <1>6
<1> DEFINE s == SubSeq(t, a, l)
           m == l - a + 1
           ns == SubSeq(c.msgs, r + 1, n)
           w == d.turns
<1>8. /\ a \in Nat /\ a >= 1 /\ m \in Nat /\ a <= l + 1
      /\ Len(s) = m /\ DOMAIN s = 1 .. m
      /\ \A k \in 1 .. m : s[k] = t[a + k - 1] /\ a + k - 1 \in 1 .. l /\ a + k - 1 \in later
  <2>1. a \in Nat /\ a >= 1 /\ m \in Nat /\ a <= l + 1
    BY <1>2
  <2>2. Len(s) = m /\ DOMAIN s = 1 .. m /\ \A k \in 1 .. m : s[k] = t[a + k - 1]
    <3>1. l = Len(t)
      BY DEF l
    <3> QED BY <1>2, <2>1, <3>1, SMTT(30)
  <2>3. \A k \in 1 .. m : a + k - 1 \in 1 .. l /\ a + k - 1 \in a .. l
    BY <1>2, <2>1
  <2> QED BY <1>7, <2>1, <2>2, <2>3
<1>9. Pick(t, later) = s
  <2>1. a \in Nat \ {0} /\ l \in 0 .. Len(t) /\ a <= l + 1
    BY <1>2, <1>8 DEF l
  <2> QED BY <1>2, <1>7, <2>1, PickInterval
<1> HIDE DEF s, m, w
<1>10. /\ DOMAIN w = 1 .. m /\ Len(w) = m
       /\ \A k \in 1 .. m : w[k] = ShiftedBy(s[k], r)
  <2>1. w = [k \in 1 .. m |-> ShiftedBy(s[k], r)]
    BY <1>a, <1>8, <1>9 DEF w
  <2> QED BY <1>8, <2>1
<1>11. \A k \in 1 .. m :
         /\ t[a + k - 1].last > r /\ w[k].last = t[a + k - 1].last - r
         /\ w[k].first = IF t[a + k - 1].first > r THEN t[a + k - 1].first - r ELSE 1
  BY <1>8, <1>10, <1>c DEF ShiftedBy
<1>12. /\ Len(ns) = n - r /\ DOMAIN ns = 1 .. n - r
       /\ \A i \in 1 .. n - r : ns[i] = c.msgs[r + i]
  <2>1. n = Len(c.msgs)
    BY DEF n
  <2>2. /\ Len(ns) = n - r /\ DOMAIN ns = 1 .. n - r
        /\ \A i \in 1 .. n - r : ns[i] = c.msgs[r + 1 + i - 1]
    BY <1>5, <2>1, SMTT(30)
  <2>3. \A i \in 1 .. n - r : r + 1 + i - 1 = r + i
    BY <1>5
  <2> QED BY <2>2, <2>3
<1> HIDE DEF ns
<1>13. /\ \A i \in UserIndices(ns) : r + i \in U /\ i \in Nat /\ i >= 1
       /\ \A j \in U : j > r => j - r \in UserIndices(ns)
  <2>1. \A i \in 1 .. n - r : r + i \in 1 .. n
    BY <1>5
  <2>2. \A j \in 1 .. n : j > r => j - r \in 1 .. n - r /\ r + (j - r) = j
    BY <1>5
  <2>3. \A i \in UserIndices(ns) : r + i \in U /\ i \in 1 .. n - r
    BY <1>5, <1>12, <2>1 DEF UserIndices
  <2>4. \A j \in U : j \in 1 .. n /\ c.msgs[j].role = "user"
    BY <1>5 DEF UserIndices
  <2> HIDE DEF U
  <2>5. \A j \in U : j > r => j - r \in UserIndices(ns)
    <3> SUFFICES ASSUME NEW j \in U, j > r PROVE j - r \in UserIndices(ns)
      OBVIOUS
    <3>1. j - r \in 1 .. n - r /\ r + (j - r) = j
      BY <2>2, <2>4
    <3>2. ns[j - r] = c.msgs[j]
      BY <1>12, <3>1
    <3> QED BY <1>12, <2>4, <3>1, <3>2 DEF UserIndices
  <2>6. \A i \in UserIndices(ns) : i \in Nat /\ i >= 1
    <3> SUFFICES ASSUME NEW i \in UserIndices(ns) PROVE i \in Nat /\ i >= 1
      OBVIOUS
    <3>1. i \in 1 .. n - r
      BY <2>3
    <3> QED BY <1>5, <3>1
  <2> QED BY <2>3, <2>5, <2>6
<1> HIDE DEF U
<1>14. \A k \in 1 .. m :
         LET i == a + k - 1
         IN  /\ i \in 1 .. l /\ t[i].first \in Nat \ {0} /\ t[i].last \in Nat /\ t[i].first <= t[i].last
             /\ k > 1 => /\ i - 1 \in 1 .. l /\ t[i].first = t[i - 1].last + 1 /\ t[i].first \in U
                         /\ k - 1 \in 1 .. m /\ a + (k - 1) - 1 = i - 1 /\ t[i - 1].last \in Nat
  <2> TAKE k \in 1 .. m
  <2> DEFINE i == a + k - 1
  <2>a. k \in Nat /\ k >= 1 /\ k <= m
    BY <1>8
  <2>1. i \in 1 .. l
    BY <1>8
  <2>2. k > 1 => i > 1 /\ i - 1 \in 1 .. l /\ k - 1 \in 1 .. m /\ a + (k - 1) - 1 = i - 1
    <3>1. a \in Nat /\ a >= 1 /\ m \in Nat /\ l \in Nat /\ m = l - a + 1
      BY <1>2, <1>8 DEF m
    <3> QED BY <2>a, <3>1
  <2> HIDE DEF i
  <2>3. /\ t[i].first \in Nat \ {0} /\ t[i].last \in Nat /\ t[i].first <= t[i].last
        /\ i > 1 => t[i].first = t[i - 1].last + 1 /\ t[i].first \in U
    BY <1>2, <1>3, <2>1
  <2>4. k > 1 => t[i - 1].last \in Nat
    BY <1>2, <2>2
  <2> QED BY <2>1, <2>2, <2>3, <2>4 DEF i
<1>15. Tiles(w, Len(ns), UserIndices(ns))
  <2>1. w # << >> => w[Len(w)].last = Len(ns)
    <3> SUFFICES ASSUME w # << >> PROVE w[Len(w)].last = Len(ns)
      OBVIOUS
    <3>1. m # 0
      <4>1. w \in Seq(Ranges)
        BY <1>1 DEF Conversations, d, w
      <4> QED BY <1>10, <4>1
    <3>2. m \in 1 .. m /\ a + m - 1 = l /\ l # 0
      BY <1>2, <1>8, <3>1 DEF m
    <3>3. w[m].last = t[l].last - r
      BY <1>11, <3>2
    <3> QED BY <1>3, <1>10, <1>12, <3>2, <3>3
  <2>2. ASSUME NEW k \in DOMAIN w
        PROVE  /\ w[k].first <= w[k].last
               /\ k > 1 => w[k].first = w[k - 1].last + 1 /\ w[k].first \in UserIndices(ns)
    <3> DEFINE i == a + k - 1
    <3>1. k \in 1 .. m
      BY <1>10
    <3>2. /\ t[i].last > r /\ w[k].last = t[i].last - r
          /\ w[k].first = IF t[i].first > r THEN t[i].first - r ELSE 1
          /\ t[i].first \in Nat \ {0} /\ t[i].last \in Nat /\ t[i].first <= t[i].last
      BY <1>11, <1>14, <3>1
    <3>3. k > 1 => /\ t[i].first = t[i - 1].last + 1 /\ t[i].first \in U
                   /\ t[i - 1].last > r /\ w[k - 1].last = t[i - 1].last - r
                   /\ t[i - 1].last \in Nat
      <4> SUFFICES ASSUME k > 1
                   PROVE  /\ t[i].first = t[i - 1].last + 1 /\ t[i].first \in U
                          /\ t[i - 1].last > r /\ w[k - 1].last = t[i - 1].last - r
                          /\ t[i - 1].last \in Nat
        OBVIOUS
      <4>1. /\ t[i].first = t[i - 1].last + 1 /\ t[i].first \in U
            /\ k - 1 \in 1 .. m /\ a + (k - 1) - 1 = i - 1 /\ t[i - 1].last \in Nat
        BY <1>14, <3>1
      <4>2. /\ t[a + (k - 1) - 1].last > r
            /\ w[k - 1].last = t[a + (k - 1) - 1].last - r
        BY <1>11, <4>1
      <4> HIDE DEF i
      <4> QED BY <4>1, <4>2
    <3> HIDE DEF i
    <3>4. w[k].first <= w[k].last
      <4>1. CASE t[i].first > r
        BY <1>5, <3>2, <4>1
      <4>2. CASE ~ (t[i].first > r)
        BY <1>5, <3>2, <4>2
      <4> QED BY <4>1, <4>2
    <3>5. ASSUME k > 1 PROVE w[k].first = w[k - 1].last + 1 /\ w[k].first \in UserIndices(ns)
      <4>1. t[i].first > r /\ w[k].first = t[i].first - r
        BY <1>5, <3>2, <3>3, <3>5
      <4>2. w[k].first \in UserIndices(ns)
        BY <1>13, <3>3, <3>5, <4>1
      <4>3. w[k].first = w[k - 1].last + 1
        <5>1. /\ t[i].first = t[i - 1].last + 1 /\ w[k - 1].last = t[i - 1].last - r
              /\ t[i - 1].last \in Nat
          BY <3>3, <3>5
        <5> DEFINE x == t[i - 1].last
        <5>2. w[k].first = x + 1 - r /\ w[k - 1].last = x - r /\ x \in Nat
          BY <4>1, <5>1
        <5> HIDE DEF x
        <5> QED BY <1>5, <5>2
      <4> QED BY <4>2, <4>3
    <3> QED BY <3>4, <3>5
  <2>3. \A i \in UserIndices(ns) : \E k \in DOMAIN w : w[k].first = i
    <3> SUFFICES ASSUME NEW i \in UserIndices(ns) PROVE \E k \in DOMAIN w : w[k].first = i
      OBVIOUS
    <3>1. r + i \in U /\ i \in Nat /\ i >= 1
      BY <1>13
    <3>2. PICK j \in 1 .. l : t[j].first = r + i
      BY <1>3, <3>1
    <3>3. t[j].first \in Nat /\ t[j].last \in Nat /\ t[j].first <= t[j].last
      BY <1>2, <1>3, <3>2
    <3>4. t[j].last > r
      BY <1>5, <3>1, <3>2, <3>3
    <3>5. j \in a .. l
      BY <1>7, <1>c, <3>4
    <3> DEFINE k == j - a + 1
    <3>6. k \in 1 .. m /\ a + k - 1 = j
      BY <1>2, <1>8, <3>5 DEF m
    <3> HIDE DEF k
    <3>7. w[k].first = i
      BY <1>5, <1>11, <3>1, <3>2, <3>6
    <3> QED BY <1>10, <3>6, <3>7
  <2> QED BY <2>1, <2>2, <2>3 DEF Tiles
<1> QED BY <1>b, <1>15 DEF Tiled, w, ns

-----------------------------------------------------------------------------
(* One message more, or a part of the messages.                            *)

(* OnlyUndoOrphans, for any messages: only the calls of gone lack a result.*)
Whole(ms, gone) ==
  \A i \in DOMAIN ms :
    ResultAsked(ms, i) /\ (ms[i].use \notin gone => UseAnswered(ms, i))

(* The handled results and the calls that an undo left open have ids that  *)
(* were given out, and no result of the latter comes back.                 *)
Known(ms, done, gone, top) ==
  /\ done \subseteq 1 .. top /\ gone \subseteq 1 .. top
  /\ \A i \in DOMAIN ms : ms[i].use <= top /\ ms[i].res <= top /\ ms[i].res \notin gone

(* A part of the messages follows the messages.                            *)
LEMMA SubSeqFollows ==
  ASSUME NEW ms \in Seq(Messages), Tame(ms),
         NEW a \in Nat \ {0}, NEW b \in 0 .. Len(ms), a <= b + 1
  PROVE  Follows(ms, SubSeq(ms, a, b))
<1> DEFINE K == a .. b
<1>1. K \in SUBSET DOMAIN ms
  OBVIOUS
<1>2. Pick(ms, K) = SubSeq(ms, a, b)
  BY PickInterval
<1> HIDE DEF K
<1>3. Variant(ms, ms, K)
  BY <1>1 DEF Variant, Tame
<1>4. Follows(ms, Pick(ms, K))
  BY <1>1, <1>3, SelectFollows
<1> QED BY <1>2, <1>4

(* The elements of a list with one message more.                           *)
LEMMA AppendElements ==
  ASSUME NEW ms \in Seq(Messages), NEW m \in Messages
  PROVE  LET n == Len(ms)
             ns == Append(ms, m)
         IN  /\ n \in Nat /\ DOMAIN ms = 1 .. n
             /\ ns \in Seq(Messages) /\ Len(ns) = n + 1 /\ DOMAIN ns = 1 .. n + 1
             /\ ns[n + 1] = m /\ \A i \in 1 .. n : ns[i] = ms[i]
             /\ \A i : i \in 1 .. n + 1 <=> i \in 1 .. n \/ i = n + 1
             /\ n + 1 \notin 1 .. n
<1> DEFINE n == Len(ms)
<1>1. n \in Nat /\ DOMAIN ms = 1 .. n
  OBVIOUS
<1>2. /\ Append(ms, m) \in Seq(Messages) /\ Len(Append(ms, m)) = n + 1
      /\ DOMAIN Append(ms, m) = 1 .. n + 1
      /\ Append(ms, m)[n + 1] = m /\ \A i \in 1 .. n : Append(ms, m)[i] = ms[i]
  OBVIOUS
<1> HIDE DEF n
<1>3. (\A i : i \in 1 .. n + 1 <=> i \in 1 .. n \/ i = n + 1) /\ n + 1 \notin 1 .. n
  BY <1>1
<1> QED BY <1>1, <1>2, <1>3 DEF n

(* A message with new ids, or the result of the last message, keeps the    *)
(* list tame.                                                              *)
LEMMA AppendTame ==
  ASSUME NEW ms \in Seq(Messages), Tame(ms), NEW m \in Messages, Shaped(m),
         m.use # 0 => \A i \in DOMAIN ms : ms[i].use # m.use /\ ms[i].res # m.use,
         m.res # 0 => \A i \in DOMAIN ms : /\ ms[i].res # m.res
                                           /\ ms[i].use = m.res => i = Len(ms)
  PROVE  Tame(Append(ms, m))
<1> DEFINE n == Len(ms)
           ns == Append(ms, m)
<1>1. /\ n \in Nat /\ DOMAIN ms = 1 .. n /\ DOMAIN ns = 1 .. n + 1
      /\ ns[n + 1] = m /\ \A i \in 1 .. n : ns[i] = ms[i]
      /\ \A i : i \in 1 .. n + 1 <=> i \in 1 .. n \/ i = n + 1
  BY AppendElements
<1>2. m.use # 0 => m.res = 0
  BY DEF Shaped
<1> HIDE DEF ns
<1>3. \A i \in DOMAIN ns : Shaped(ns[i])
  BY <1>1 DEF Tame
<1>4. Single(ns)
  <2> SUFFICES ASSUME NEW i \in 1 .. n + 1, NEW j \in 1 .. n + 1
               PROVE  /\ ns[i].use = ns[j].use /\ ns[i].use # 0 => i = j
                      /\ ns[i].res = ns[j].res /\ ns[i].res # 0 => i = j
    BY <1>1 DEF Single
  <2>1. CASE i \in 1 .. n /\ j \in 1 .. n
    BY <1>1, <2>1 DEF Tame, Single
  <2>2. CASE i = n + 1 \/ j = n + 1
    BY <1>1, <2>2
  <2> QED BY <1>1, <2>1, <2>2
<1>5. Adjacent(ns)
  <2> SUFFICES ASSUME NEW i \in 1 .. n + 1, NEW j \in 1 .. n + 1,
                      ns[i].use # 0, ns[j].res = ns[i].use
               PROVE  j = i + 1
    BY <1>1 DEF Adjacent
  <2>1. CASE i \in 1 .. n /\ j \in 1 .. n
    BY <1>1, <2>1 DEF Tame, Adjacent
  <2>2. CASE i = n + 1
    BY <1>1, <1>2, <2>2
  <2>3. CASE i \in 1 .. n /\ j = n + 1
    BY <1>1, <2>3
  <2> QED BY <1>1, <2>1, <2>2, <2>3
<1> QED BY <1>3, <1>4, <1>5 DEF Tame, ns

(* A result that is not handled yet disturbs no handled one.               *)
LEMMA AppendInPlace ==
  ASSUME NEW ms \in Seq(Messages), NEW m \in Messages, NEW H, NEW s, InPlace(ms, H, s), m.res \notin H
  PROVE  InPlace(Append(ms, m), H, s)
<1> DEFINE n == Len(ms)
           ns == Append(ms, m)
<1>1. /\ n \in Nat /\ DOMAIN ms = 1 .. n /\ DOMAIN ns = 1 .. n + 1
      /\ ns[n + 1] = m /\ \A i \in 1 .. n : ns[i] = ms[i]
      /\ \A i : i \in 1 .. n + 1 <=> i \in 1 .. n \/ i = n + 1
  BY AppendElements
<1> HIDE DEF ns, n
<1>2. \A x : Early(ms, H, x) => Early(ns, H, x)
  BY <1>1 DEF Early
<1>3. ASSUME Led(ms, s) PROVE Led(ns, s)
  <2>1. PICK k \in 1 .. n :
          /\ k + 1 < s /\ k + 1 \in 1 .. n
          /\ ~Important(ms[k]) /\ ~Important(ms[k + 1]) /\ ms[k + 1].role # "user"
          /\ \A j \in 1 .. k - 1 : Important(ms[j])
    BY <1>1, <1>3 DEF Led
  <2>2. \A j \in 1 .. k - 1 : j \in 1 .. n
    BY <1>1, <2>1
  <2>3. /\ k \in DOMAIN ns /\ k + 1 < s /\ k + 1 \in DOMAIN ns
        /\ ~Important(ns[k]) /\ ~Important(ns[k + 1]) /\ ns[k + 1].role # "user"
        /\ \A j \in 1 .. k - 1 : Important(ns[j])
    BY <1>1, <2>1, <2>2
  <2> QED BY <2>3 DEF Led
<1> QED BY <1>2, <1>3 DEF InPlace, ns

(* A text leaves the pairs whole.                                          *)
LEMMA AppendWhole ==
  ASSUME NEW ms \in Seq(Messages), NEW gone, Whole(ms, gone),
         NEW m \in Messages, m.use = 0, m.res = 0
  PROVE  Whole(Append(ms, m), gone)
<1> DEFINE n == Len(ms)
           ns == Append(ms, m)
<1>1. /\ n \in Nat /\ DOMAIN ms = 1 .. n /\ DOMAIN ns = 1 .. n + 1 /\ Len(ns) = n + 1
      /\ ns[n + 1] = m /\ \A i \in 1 .. n : ns[i] = ms[i]
      /\ \A i : i \in 1 .. n + 1 <=> i \in 1 .. n \/ i = n + 1
  BY AppendElements
<1> HIDE DEF ns
<1> SUFFICES ASSUME NEW i \in 1 .. n + 1
             PROVE  ResultAsked(ns, i) /\ (ns[i].use \notin gone => UseAnswered(ns, i))
  BY <1>1 DEF Whole, ns
<1>2. CASE i = n + 1
  BY <1>1, <1>2 DEF ResultAsked, UseAnswered
<1>3. CASE i \in 1 .. n
  <2>1. ResultAsked(ms, i) /\ (ms[i].use \notin gone => UseAnswered(ms, i))
    BY <1>1, <1>3 DEF Whole
  <2>2. /\ ms[i].res # 0 => i > 1 /\ ms[i - 1].use = ms[i].res
        /\ ms[i].use \notin gone /\ ms[i].use # 0 => i < n /\ ms[i + 1].res = ms[i].use
    BY <2>1 DEF ResultAsked, UseAnswered
  <2>3. (i > 1 => i - 1 \in 1 .. n) /\ (i < n => i + 1 \in 1 .. n) /\ (i < n => i < n + 1)
    BY <1>1, <1>3
  <2> HIDE DEF n
  <2> QED BY <1>1, <1>3, <2>2, <2>3 DEF ResultAsked, UseAnswered
<1> QED BY <1>1, <1>2, <1>3

(* A call and its result are whole together.                               *)
LEMMA AppendTurnWhole ==
  ASSUME NEW ms \in Seq(Messages), NEW gone, Whole(ms, gone),
         NEW m \in Messages, NEW r \in Messages, m.res = 0, r.use = 0, r.res = m.use, m.use # 0
  PROVE  Whole(Append(Append(ms, m), r), gone)
<1> DEFINE n == Len(ms)
           ns == Append(Append(ms, m), r)
<1>1. /\ n \in Nat /\ DOMAIN ms = 1 .. n /\ DOMAIN ns = 1 .. n + 2 /\ Len(ns) = n + 2
      /\ ns[n + 1] = m /\ ns[n + 2] = r /\ \A i \in 1 .. n : ns[i] = ms[i]
      /\ \A i : i \in 1 .. n + 2 <=> i \in 1 .. n \/ i = n + 1 \/ i = n + 2
  OBVIOUS
<1> HIDE DEF ns
<1> SUFFICES ASSUME NEW i \in 1 .. n + 2
             PROVE  ResultAsked(ns, i) /\ (ns[i].use \notin gone => UseAnswered(ns, i))
  BY <1>1 DEF Whole, ns
<1>2. CASE i = n + 1
  <2>1. n + 1 < n + 2 /\ n + 1 + 1 = n + 2
    BY <1>1
  <2> QED BY <1>1, <1>2, <2>1 DEF ResultAsked, UseAnswered
<1>3. CASE i = n + 2
  <2>1. n + 2 > 1 /\ n + 2 - 1 = n + 1
    BY <1>1
  <2> QED BY <1>1, <1>3, <2>1 DEF ResultAsked, UseAnswered
<1>4. CASE i \in 1 .. n
  <2>1. ResultAsked(ms, i) /\ (ms[i].use \notin gone => UseAnswered(ms, i))
    BY <1>1, <1>4 DEF Whole
  <2>2. /\ ms[i].res # 0 => i > 1 /\ ms[i - 1].use = ms[i].res
        /\ ms[i].use \notin gone /\ ms[i].use # 0 => i < n /\ ms[i + 1].res = ms[i].use
    BY <2>1 DEF ResultAsked, UseAnswered
  <2>3. (i > 1 => i - 1 \in 1 .. n) /\ (i < n => i + 1 \in 1 .. n) /\ (i < n => i < n + 2)
    BY <1>1, <1>4
  <2> HIDE DEF n
  <2> QED BY <1>1, <1>4, <2>2, <2>3 DEF ResultAsked, UseAnswered
<1> QED BY <1>1, <1>2, <1>3, <1>4

(* A message with known ids.                                               *)
LEMMA AppendKnown ==
  ASSUME NEW ms \in Seq(Messages), NEW done, NEW gone, NEW top, Known(ms, done, gone, top),
         NEW m \in Messages, m.use <= top, m.res <= top, m.res \notin gone
  PROVE  Known(Append(ms, m), done, gone, top)
<1> DEFINE n == Len(ms)
           ns == Append(ms, m)
<1>1. /\ DOMAIN ms = 1 .. n /\ DOMAIN ns = 1 .. n + 1
      /\ ns[n + 1] = m /\ \A i \in 1 .. n : ns[i] = ms[i]
      /\ \A i : i \in 1 .. n + 1 <=> i \in 1 .. n \/ i = n + 1
  BY AppendElements
<1> HIDE DEF ns, n
<1>2. \A i \in DOMAIN ns : ns[i].use <= top /\ ns[i].res <= top /\ ns[i].res \notin gone
  BY <1>1 DEF Known
<1> QED BY <1>2 DEF Known, ns

(* A compaction makes up no id.                                            *)
LEMMA FollowsKnown ==
  ASSUME NEW ms, NEW ns, IdsFrom(ms, ns), NEW done, NEW gone, NEW top \in Nat,
         Known(ms, done, gone, top)
  PROVE  Known(ns, done, gone, top)
<1>1. 0 <= top /\ 0 \notin gone
  BY DEF Known
<1>2. ASSUME NEW k \in DOMAIN ns
      PROVE  ns[k].use <= top /\ ns[k].res <= top /\ ns[k].res \notin gone
  BY <1>1 DEF Known, IdsFrom
<1> QED BY <1>2 DEF Known

(* A message that only carries text.                                       *)
Plain(m) == m \in Messages /\ Shaped(m) /\ m.use = 0 /\ m.res = 0

(* Texts are plain.                                                        *)
LEMMA PlainTexts ==
  /\ \A r \in {"user", "assistant"}, cost \in Nat : Plain(Text(r, cost))
  /\ Plain(Text("system", 1))
<1>1. /\ \A r \in {"user", "assistant"}, cost \in Nat : Text(r, cost) \in Messages
      /\ Text("system", 1) \in Messages
  BY MessageTypes
<1> QED BY <1>1 DEF Plain, Shaped, Text

(* push of a text keeps every part of the invariant.                       *)
LEMMA PushPlain ==
  ASSUME NEW c \in Conversations, Tame(c.msgs), NEW m, Plain(m),
         NEW done, NEW gone, NEW top \in Nat, Known(c.msgs, done, gone, top)
  PROVE  /\ Push(c, m) \in Conversations /\ Tame(Push(c, m).msgs)
         /\ Push(c, m).msgs = Append(c.msgs, m) /\ Len(Push(c, m).msgs) = Len(c.msgs) + 1
         /\ Known(Push(c, m).msgs, done, gone, top)
         /\ Whole(c.msgs, gone) => Whole(Push(c, m).msgs, gone)
         /\ Tiled(c) => Tiled(Push(c, m))
         /\ \A s : InPlace(c.msgs, done, s) => InPlace(Push(c, m).msgs, done, s)
<1>1. m \in Messages /\ Shaped(m) /\ m.use = 0 /\ m.res = 0
  BY DEF Plain
<1>2. c.msgs \in Seq(Messages)
  BY DEF Conversations
<1>3. Push(c, m) \in Conversations /\ Push(c, m).msgs = Append(c.msgs, m)
  BY <1>1, PushResult
<1>4. Tame(Append(c.msgs, m))
  BY <1>1, <1>2, AppendTame
<1>5. 0 \notin done /\ 0 \notin gone /\ 0 <= top
  BY DEF Known
<1>6. Known(Append(c.msgs, m), done, gone, top)
  BY <1>1, <1>2, <1>5, AppendKnown
<1>7. Whole(c.msgs, gone) => Whole(Append(c.msgs, m), gone)
  BY <1>1, <1>2, AppendWhole
<1>8. Tiled(c) => Tiled(Push(c, m))
  BY <1>1, PushTiles
<1>9. \A s : InPlace(c.msgs, done, s) => InPlace(Append(c.msgs, m), done, s)
  BY <1>1, <1>2, <1>5, AppendInPlace
<1>10. Len(Append(c.msgs, m)) = Len(c.msgs) + 1
  BY <1>2
<1> QED BY <1>3, <1>4, <1>6, <1>7, <1>8, <1>9, <1>10

(* record_usage only moves the anchor.                                     *)
LEMMA RecordUsageKeeps ==
  ASSUME NEW c \in Conversations
  PROVE  /\ RecordUsage(c) \in Conversations
         /\ RecordUsage(c).msgs = c.msgs /\ RecordUsage(c).turns = c.turns
         /\ Tiled(c) => Tiled(RecordUsage(c))
<1>1. Len(c.msgs) \in Nat
  BY DEF Conversations
<1>2. /\ RecordUsage(c) \in Conversations
      /\ RecordUsage(c).msgs = c.msgs /\ RecordUsage(c).turns = c.turns
  BY <1>1 DEF RecordUsage, Conversations
<1> QED BY <1>2 DEF Tiled

-----------------------------------------------------------------------------
(* The invariant and its steps.                                            *)

(* The inductive invariant.                                                *)
IInv ==
  /\ conv \in Conversations /\ client \in BOOLEAN
  /\ status \in {"idle", "head", "ended"}
  /\ start \in 0 .. MaxMessages /\ ids \in 0 .. MaxIds
  /\ Tame(conv.msgs)
  /\ Known(conv.msgs, handled, undone, ids)
  /\ client => Whole(conv.msgs, undone)
  /\ ~client => Tiled(conv)
  /\ status # "idle" => InPlace(conv.msgs, handled, start)

(* The types that the other lemmas use.                                    *)
LEMMA Bounds ==
  ASSUME IInv
  PROVE  /\ conv.msgs \in Seq(Messages) /\ Len(conv.msgs) \in Nat
         /\ DOMAIN conv.msgs = 1 .. Len(conv.msgs)
         /\ MaxMessages \in Nat /\ MaxIds \in Nat /\ start \in Nat /\ ids \in Nat
         /\ handled \in SUBSET (Nat \ {0}) /\ undone \in SUBSET (Nat \ {0})
<1>1. conv \in Conversations /\ start \in 0 .. MaxMessages /\ ids \in 0 .. MaxIds
  BY DEF IInv
<1>2. handled \subseteq 1 .. ids /\ undone \subseteq 1 .. ids
  BY DEF IInv, Known
<1>3. MaxMessages \in Nat /\ MaxIds \in Nat
  BY SessionAssumption
<1>4. conv.msgs \in Seq(Messages)
  BY <1>1 DEF Conversations
<1>5. ids \in Nat
  BY <1>1, <1>3
<1>6. handled \in SUBSET (Nat \ {0}) /\ undone \in SUBSET (Nat \ {0})
  BY <1>2, <1>5
<1> QED BY <1>1, <1>3, <1>4, <1>5, <1>6

(* A new session satisfies the invariant.                                  *)
LEMMA InitIInv ==
  ASSUME Init
  PROVE  IInv
<1> DEFINE c == NewConversation
<1>1. c \in Conversations /\ c.msgs = << >> /\ c.turns = << >>
  <2>1. << >> \in Seq(Messages) /\ << >> \in Seq(Ranges)
    OBVIOUS
  <2> QED BY <2>1 DEF NewConversation, Conversations
<1>2. DOMAIN << >> = {}
  OBVIOUS
<1>3. Tame(<< >>) /\ Whole(<< >>, {}) /\ Known(<< >>, {}, {}, 0)
  BY <1>2 DEF Tame, Single, Adjacent, Whole, Known
<1>4. Tiles(<< >>, Len(<< >>), UserIndices(<< >>))
  BY <1>2 DEF Tiles, UserIndices
<1>5. Tiled(c)
  BY <1>1, <1>4 DEF Tiled
<1>6. 0 \in 0 .. MaxMessages /\ 0 \in 0 .. MaxIds
  BY SessionAssumption
<1> HIDE DEF c
<1>7. /\ conv = c /\ client \in BOOLEAN /\ status = "idle" /\ start = 0 /\ ids = 0
      /\ handled = {} /\ undone = {}
  BY DEF Init, c
<1> QED BY <1>1, <1>3, <1>5, <1>6, <1>7 DEF IInv

(* A prompt begins a turn, and no handled result is beyond it.             *)
LEMMA SubmitKeepsIInv ==
  ASSUME IInv, Submit
  PROVE  IInv'
<1>1. /\ status = "idle" /\ Len(conv.msgs) + 1 <= MaxMessages /\ start' = Len(conv'.msgs)
      /\ status' = "head" /\ UNCHANGED <<client, ids, handled, undone>>
  BY DEF Submit, Room
<1>2. PICK cost \in PromptCosts : conv' = Push(conv, Text("user", cost))
  BY DEF Submit
<1> DEFINE m == Text("user", cost)
<1>3. Plain(m)
  BY SessionAssumption, PlainTexts
<1> HIDE DEF m
<1>4. /\ conv \in Conversations /\ Tame(conv.msgs) /\ Known(conv.msgs, handled, undone, ids)
      /\ client => Whole(conv.msgs, undone)
      /\ ~client => Tiled(conv)
      /\ client \in BOOLEAN /\ ids \in 0 .. MaxIds
  BY DEF IInv
<1>5. /\ conv.msgs \in Seq(Messages) /\ Len(conv.msgs) \in Nat
      /\ DOMAIN conv.msgs = 1 .. Len(conv.msgs) /\ MaxMessages \in Nat /\ ids \in Nat
      /\ handled \in SUBSET (Nat \ {0})
  BY Bounds
<1>6. /\ Push(conv, m) \in Conversations /\ Tame(Push(conv, m).msgs)
      /\ Push(conv, m).msgs = Append(conv.msgs, m)
      /\ Len(Push(conv, m).msgs) = Len(conv.msgs) + 1
      /\ Known(Push(conv, m).msgs, handled, undone, ids)
      /\ Whole(conv.msgs, undone) => Whole(Push(conv, m).msgs, undone)
      /\ Tiled(conv) => Tiled(Push(conv, m))
  BY <1>3, <1>4, <1>5, PushPlain
<1>7. conv' = Push(conv, m)
  BY <1>2 DEF m
<1>8. start' = Len(conv.msgs) + 1 /\ start' \in 0 .. MaxMessages
  <2>1. start' = Len(conv.msgs) + 1
    BY <1>1, <1>6, <1>7
  <2> QED BY <1>1, <1>5, <2>1
<1>9. InPlace(conv'.msgs, handled, start')
  <2> DEFINE n == Len(conv.msgs)
             ns == Append(conv.msgs, m)
  <2>1. /\ DOMAIN ns = 1 .. n + 1 /\ ns[n + 1] = m
        /\ \A i : i \in 1 .. n + 1 <=> i \in 1 .. n \/ i = n + 1
    BY <1>3, <1>5, AppendElements DEF Plain
  <2>2. m.res = 0 /\ 0 \notin handled
    BY <1>3, <1>5 DEF Plain
  <2>3. \A i \in 1 .. n : i < n + 1
    BY <1>5
  <2> HIDE DEF ns, n
  <2>4. Early(ns, handled, n + 1)
    BY <2>1, <2>2, <2>3 DEF Early
  <2> QED BY <1>6, <1>7, <1>8, <2>4 DEF InPlace, ns, n
<1> QED BY <1>1, <1>4, <1>6, <1>7, <1>8, <1>9 DEF IInv

(* A message that is no block keeps what pushing it may disturb, while a   *)
(* query runs.                                                             *)
LEMMA PlainPushed ==
  ASSUME IInv, status = "head", NEW c \in Conversations, NEW m, Plain(m), Tame(c.msgs),
         Known(c.msgs, handled, undone, ids), client => Whole(c.msgs, undone),
         ~client => Tiled(c), InPlace(c.msgs, handled, start)
  PROVE  /\ Push(c, m) \in Conversations /\ Tame(Push(c, m).msgs)
         /\ Known(Push(c, m).msgs, handled, undone, ids)
         /\ client => Whole(Push(c, m).msgs, undone)
         /\ ~client => Tiled(Push(c, m))
         /\ InPlace(Push(c, m).msgs, handled, start)
<1>1. ids \in Nat
  BY Bounds DEF IInv
<1> QED BY <1>1, PushPlain

(* A query that goes on pushes plain messages, or none.                    *)
LEMMA GoOnKeepsIInv ==
  ASSUME IInv, GoOn
  PROVE  IInv'
<1>1. status = "head" /\ UNCHANGED <<client, status, start, ids, handled, undone>>
  BY DEF GoOn
<1> DEFINE c == RecordUsage(conv)
           m == Text("assistant", 1)
           n == Text("user", 1)
           Good(d) == /\ d \in Conversations /\ Tame(d.msgs)
                      /\ Known(d.msgs, handled, undone, ids)
                      /\ client => Whole(d.msgs, undone)
                      /\ ~client => Tiled(d)
                      /\ InPlace(d.msgs, handled, start)
<1>2. Plain(m) /\ Plain(n)
  BY PlainTexts
<1>3. Good(c)
  BY <1>1, RecordUsageKeeps DEF IInv
<1>4. conv' = c \/ conv' = Push(c, m) \/ conv' = Push(Push(c, m), n)
  BY DEF GoOn
<1> HIDE DEF c, m, n
<1>5. Good(Push(c, m))
  BY <1>1, <1>2, <1>3, PlainPushed
<1>6. Good(Push(Push(c, m), n))
  BY <1>1, <1>2, <1>5, PlainPushed
<1>7. Good(conv')
  BY <1>3, <1>4, <1>5, <1>6
<1> QED BY <1>1, <1>7 DEF IInv

(* An answer without calls ends the query.                                 *)
LEMMA ReplyKeepsIInv ==
  ASSUME IInv, Reply
  PROVE  IInv'
<1>1. /\ status = "head" /\ status' = "ended"
      /\ UNCHANGED <<client, start, ids, handled, undone>>
  BY DEF Reply
<1>2. PICK cost \in {0, 1} : conv' = Push(RecordUsage(conv), Text("assistant", cost))
  BY DEF Reply
<1> DEFINE m == Text("assistant", cost)
           c == RecordUsage(conv)
<1>3. Plain(m)
  BY PlainTexts
<1>4. /\ conv \in Conversations /\ Tame(conv.msgs) /\ Known(conv.msgs, handled, undone, ids)
      /\ client => Whole(conv.msgs, undone)
      /\ ~client => Tiled(conv)
      /\ InPlace(conv.msgs, handled, start)
      /\ client \in BOOLEAN /\ start \in 0 .. MaxMessages /\ ids \in 0 .. MaxIds
  BY <1>1 DEF IInv
<1>5. c \in Conversations /\ c.msgs = conv.msgs /\ (Tiled(conv) => Tiled(c)) /\ ids \in Nat
  BY <1>4, RecordUsageKeeps, Bounds
<1> HIDE DEF m, c
<1>6. /\ Push(c, m) \in Conversations /\ Tame(Push(c, m).msgs)
      /\ Known(Push(c, m).msgs, handled, undone, ids)
      /\ Whole(c.msgs, undone) => Whole(Push(c, m).msgs, undone)
      /\ Tiled(c) => Tiled(Push(c, m))
      /\ InPlace(c.msgs, handled, start) => InPlace(Push(c, m).msgs, handled, start)
  BY <1>3, <1>4, <1>5, PushPlain
<1>7. conv' = Push(c, m)
  BY <1>2 DEF c, m
<1> QED BY <1>1, <1>4, <1>5, <1>6, <1>7 DEF IInv

(* The messages of a tool turn: the calls, their results, perhaps a note.  *)
LEMMA TurnPushed ==
  ASSUME NEW c \in Conversations, Tame(c.msgs), NEW done, NEW gone, NEW top \in Nat,
         Known(c.msgs, done, gone, top), NEW error \in BOOLEAN, NEW big \in BOOLEAN
  PROVE  LET called == Push(c, ToolUse(top + 1, 0))
             d == Push(called, ToolResult(top + 1, error, big))
         IN  /\ d \in Conversations /\ Tame(d.msgs)
             /\ Known(d.msgs, done, gone, top + 1)
             /\ Whole(c.msgs, gone) => Whole(d.msgs, gone)
             /\ Tiled(c) => Tiled(d)
             /\ \A s : InPlace(c.msgs, done, s) => InPlace(d.msgs, done, s)
<1> DEFINE id == top + 1
           m == ToolUse(id, 0)
           r == ToolResult(id, error, big)
           ms == c.msgs
           ns == Append(ms, m)
           os == Append(ns, r)
           called == Push(c, m)
           d == Push(called, r)
<1>1. id \in Nat \ {0} /\ id \notin 1 .. top /\ id <= id /\ 0 <= id /\ top <= id
      /\ ~ (id <= top)
  OBVIOUS
<1> HIDE DEF id
<1>2. /\ m \in Messages /\ Shaped(m) /\ m.use = id /\ m.res = 0
      /\ r \in Messages /\ Shaped(r) /\ r.use = 0 /\ r.res = id
  <2>1. m \in Messages /\ r \in Messages
    BY <1>1, MessageTypes
  <2>2. m.use = id /\ m.res = 0 /\ m.role = "assistant" /\ m.error = FALSE /\ m.big = FALSE
    BY DEF ToolUse, Text
  <2>3. r.use = 0 /\ r.res = id /\ r.role = "user" /\ r.text = 0
    BY DEF ToolResult, Text
  <2> QED BY <2>1, <2>2, <2>3, <1>1 DEF Shaped
<1>3. ms \in Seq(Messages)
  BY DEF Conversations
<1>4. /\ done \subseteq 1 .. top /\ gone \subseteq 1 .. top
      /\ \A i \in DOMAIN ms : ms[i].use <= top /\ ms[i].res <= top /\ ms[i].res \notin gone
  BY DEF Known
<1>5. \A i \in DOMAIN ms : ms[i].use # id /\ ms[i].res # id /\ ms[i].use \in Nat /\ ms[i].res \in Nat
  <2> TAKE i \in DOMAIN ms
  <2>1. ms[i] \in Messages
    BY <1>3
  <2>2. ms[i].use \in Nat /\ ms[i].res \in Nat
    BY <2>1 DEF Messages
  <2> QED BY <1>1, <1>4, <2>2
<1>6. id \notin done /\ id \notin gone /\ 0 \notin done /\ 0 \notin gone
  BY <1>1, <1>4
<1>7. /\ called \in Conversations /\ called.msgs = ns /\ d \in Conversations /\ d.msgs = os
      /\ Tiled(c) => Tiled(d)
  <2> HIDE DEF m, r
  <2>1. called \in Conversations /\ called.msgs = ns /\ (Tiled(c) => Tiled(called))
    BY <1>2, PushResult, PushTiles
  <2> HIDE DEF called
  <2> QED BY <1>2, <2>1, PushResult, PushTiles
<1> HIDE DEF m, r, called, d
<1>8. /\ ns \in Seq(Messages) /\ Len(ns) = Len(ms) + 1 /\ DOMAIN ns = 1 .. Len(ms) + 1
      /\ ns[Len(ms) + 1] = m /\ \A i \in 1 .. Len(ms) : ns[i] = ms[i]
      /\ \A i : i \in 1 .. Len(ms) + 1 <=> i \in 1 .. Len(ms) \/ i = Len(ms) + 1
      /\ DOMAIN ms = 1 .. Len(ms)
  BY <1>2, <1>3, AppendElements
<1>9. Tame(ns)
  BY <1>2, <1>3, <1>5, AppendTame
<1>10. Known(ms, done, gone, id)
  <2>1. 1 .. top \subseteq 1 .. id
    BY <1>1
  <2>2. \A i \in DOMAIN ms : ms[i].use <= id /\ ms[i].res <= id
    BY <1>1, <1>4, <1>5
  <2> QED BY <1>4, <2>1, <2>2 DEF Known
<1>11. Known(ns, done, gone, id)
  BY <1>1, <1>2, <1>3, <1>6, <1>10, AppendKnown
<1>12. Whole(ms, gone) => Whole(os, gone)
  BY <1>1, <1>2, <1>3, AppendTurnWhole
<1>13. \A s : InPlace(ms, done, s) => InPlace(ns, done, s)
  BY <1>2, <1>3, <1>6, AppendInPlace
<1>14. \A i \in DOMAIN ns : ns[i].res # id /\ (ns[i].use = id => i = Len(ns))
  <2> SUFFICES ASSUME NEW i \in DOMAIN ns
               PROVE  ns[i].res # id /\ (ns[i].use = id => i = Len(ns))
    OBVIOUS
  <2>1. CASE i = Len(ms) + 1
    BY <1>1, <1>2, <1>8, <2>1
  <2>2. CASE i \in 1 .. Len(ms)
    BY <1>5, <1>8, <2>2
  <2> HIDE DEF ns
  <2> QED BY <1>8, <2>1, <2>2
<1> HIDE DEF ns
<1>15. Tame(os)
  BY <1>2, <1>8, <1>9, <1>14, AppendTame
<1>16. Known(os, done, gone, id)
  BY <1>1, <1>2, <1>6, <1>8, <1>11, AppendKnown
<1>17. \A s : InPlace(ns, done, s) => InPlace(os, done, s)
  BY <1>2, <1>6, <1>8, AppendInPlace
<1> QED BY <1>7, <1>12, <1>13, <1>15, <1>16, <1>17 DEF called, d, m, r, id

(* A tool turn gives its call a new id and answers it at once.             *)
LEMMA ToolTurnKeepsIInv ==
  ASSUME IInv, ToolTurn
  PROVE  IInv'
<1>1. /\ status = "head" /\ ids' = ids + 1 /\ ids < MaxIds
      /\ UNCHANGED <<client, status, start, handled, undone>>
  BY DEF ToolTurn
<1>2. /\ conv \in Conversations /\ Tame(conv.msgs) /\ Known(conv.msgs, handled, undone, ids)
      /\ client => Whole(conv.msgs, undone)
      /\ ~client => Tiled(conv)
      /\ InPlace(conv.msgs, handled, start)
      /\ client \in BOOLEAN /\ start \in 0 .. MaxMessages /\ ids \in 0 .. MaxIds
  BY <1>1 DEF IInv
<1> DEFINE c == RecordUsage(conv)
<1>3. /\ c \in Conversations /\ c.msgs = conv.msgs /\ (Tiled(conv) => Tiled(c))
      /\ ids \in Nat /\ MaxIds \in Nat
  BY <1>2, RecordUsageKeeps, Bounds
<1>4. PICK error \in BOOLEAN, big \in BOOLEAN, note \in BOOLEAN :
        LET answered == Push(Push(c, ToolUse(ids', 0)), ToolResult(ids', error, big))
        IN  \/ note /\ conv' = Push(answered, Text("system", 1))
            \/ ~note /\ conv' = answered
  BY DEF ToolTurn
<1> DEFINE d == Push(Push(c, ToolUse(ids + 1, 0)), ToolResult(ids + 1, error, big))
           m == Text("system", 1)
<1>5. conv' = Push(d, m) \/ conv' = d
  BY <1>1, <1>4
<1> HIDE DEF c
<1>6. /\ d \in Conversations /\ Tame(d.msgs)
      /\ Known(d.msgs, handled, undone, ids + 1)
      /\ Whole(c.msgs, undone) => Whole(d.msgs, undone)
      /\ Tiled(c) => Tiled(d)
      /\ InPlace(c.msgs, handled, start) => InPlace(d.msgs, handled, start)
  BY <1>2, <1>3, TurnPushed
<1>7. Plain(m) /\ ids + 1 \in Nat /\ ids + 1 \in 0 .. MaxIds
  BY <1>1, <1>3, PlainTexts
<1> HIDE DEF d, m
<1>8. /\ Push(d, m) \in Conversations /\ Tame(Push(d, m).msgs)
      /\ Known(Push(d, m).msgs, handled, undone, ids + 1)
      /\ Whole(d.msgs, undone) => Whole(Push(d, m).msgs, undone)
      /\ Tiled(d) => Tiled(Push(d, m))
      /\ InPlace(d.msgs, handled, start) => InPlace(Push(d, m).msgs, handled, start)
  BY <1>6, <1>7, PushPlain
<1>9. /\ conv' \in Conversations /\ Tame(conv'.msgs)
      /\ Known(conv'.msgs, handled, undone, ids + 1)
      /\ client => Whole(conv'.msgs, undone)
      /\ ~client => Tiled(conv')
      /\ InPlace(conv'.msgs, handled, start)
  BY <1>2, <1>3, <1>5, <1>6, <1>8
<1> QED BY <1>1, <1>2, <1>7, <1>9 DEF IInv

(* A query that is cancelled at the head of its loop changes no message.   *)
LEMMA EndAtHeadKeepsIInv ==
  ASSUME IInv, EndAtHead
  PROVE  IInv'
BY DEF IInv, EndAtHead

(* A compaction with a client keeps the invariant, by what the strategies  *)
(* keep and the repair.                                                    *)
LEMMA CompactionKeepsIInv ==
  ASSUME IInv, client, Keeps(conv, conv'), Paired(conv'.msgs),
         UNCHANGED <<client, status, start, ids, handled, undone>>
  PROVE  IInv'
<1>1. /\ Known(conv.msgs, handled, undone, ids) /\ ids \in Nat /\ start \in Nat
      /\ handled \in SUBSET (Nat \ {0})
  BY Bounds DEF IInv
<1>2. /\ conv' \in Conversations /\ Tame(conv'.msgs)
      /\ IdsFrom(conv.msgs, conv'.msgs) /\ StaysInPlace(conv.msgs, conv'.msgs)
  BY DEF Keeps, Follows
<1>3. Known(conv'.msgs, handled, undone, ids)
  BY <1>1, <1>2, FollowsKnown
<1>4. Whole(conv'.msgs, undone)
  BY DEF Paired, Whole
<1>5. InPlace(conv.msgs, handled, start) => InPlace(conv'.msgs, handled, start)
  BY <1>1, <1>2 DEF StaysInPlace
<1> QED BY <1>2, <1>3, <1>4, <1>5 DEF IInv

(* The automatic compaction of the engine.                                 *)
LEMMA CompactAutoKeeps ==
  ASSUME IInv, CompactAuto
  PROVE  Keeps(conv, conv') /\ Paired(conv'.msgs)
<1>1. PICK cost \in SummaryCosts : conv' = Compacted(AutoStrategy(conv, cost))
  BY DEF CompactAuto
<1>2. cost \in Nat /\ conv \in Conversations /\ Tame(conv.msgs)
  BY SessionAssumption DEF IInv
<1> QED BY <1>1, <1>2, AutoCompactionKeeps

(* The compaction after the provider found the prompt too long.            *)
LEMMA CompactForcedKeeps ==
  ASSUME IInv, CompactForced
  PROVE  Keeps(conv, conv') /\ Paired(conv'.msgs)
<1>1. PICK cost \in SummaryCosts :
        LET d == Compacted(Summarize(conv, PreserveRecent, cost))
        IN  conv' = d \/ conv' = Compacted(Truncate(d, Window \div 2))
  BY DEF CompactForced
<1>2. cost \in Nat /\ conv \in Conversations /\ Tame(conv.msgs)
  BY SessionAssumption DEF IInv
<1> QED BY <1>1, <1>2, ForcedCompactionKeeps

(* /compact with a client, which does not run the repair.                  *)
LEMMA CompactRawKeepsIInv ==
  ASSUME IInv, CompactRaw
  PROVE  IInv'
<1>1. /\ status = "head" /\ ~client /\ UNCHANGED <<client, status, start, ids, handled, undone>>
  BY DEF CompactRaw
<1>2. PICK budget \in {(Window * 60) \div 100, (Window * 50) \div 100} :
        conv' = TruncateToBudget(conv, budget)
  BY DEF CompactRaw
<1>3. budget \in Nat
  BY ConversationAssumption
<1>4. /\ conv \in Conversations /\ Tame(conv.msgs) /\ Known(conv.msgs, handled, undone, ids)
      /\ Tiled(conv) /\ InPlace(conv.msgs, handled, start)
      /\ client \in BOOLEAN /\ start \in 0 .. MaxMessages /\ ids \in 0 .. MaxIds
  BY <1>1 DEF IInv
<1>5. /\ conv.msgs \in Seq(Messages) /\ ids \in Nat /\ start \in Nat
      /\ handled \in SUBSET (Nat \ {0}) /\ Len(conv.msgs) \in Nat
  BY Bounds
<1>6. PICK r \in 0 .. Len(conv.msgs) :
        conv' \in Conversations /\ conv'.msgs = SubSeq(conv.msgs, r + 1, Len(conv.msgs))
  BY <1>2, <1>3, <1>4, TruncateToBudgetResult
<1>7. Follows(conv.msgs, conv'.msgs)
  <2>1. /\ r + 1 \in Nat \ {0} /\ Len(conv.msgs) \in 0 .. Len(conv.msgs)
        /\ r + 1 <= Len(conv.msgs) + 1
    BY <1>5
  <2> QED BY <1>4, <1>5, <1>6, <2>1, SubSeqFollows
<1>8. Tiled(conv')
  BY <1>2, <1>3, <1>4, TruncateTiles
<1>9. Known(conv'.msgs, handled, undone, ids)
  BY <1>4, <1>5, <1>7, FollowsKnown DEF Follows
<1>10. InPlace(conv'.msgs, handled, start) /\ Tame(conv'.msgs)
  BY <1>4, <1>5, <1>7 DEF Follows, StaysInPlace
<1> QED BY <1>1, <1>4, <1>6, <1>8, <1>9, <1>10 DEF IInv

(* /compact without a client: truncate_to_budget.                          *)
LEMMA CompactHeuristicKeepsIInv ==
  ASSUME IInv, CompactHeuristic
  PROVE  IInv'
<1>1. /\ status = "idle" /\ ~client /\ UNCHANGED <<client, status, start, ids, handled, undone>>
  BY DEF CompactHeuristic
<1>2. PICK cost \in SummaryCosts : conv' = Push(NewConversation, Text("user", cost))
  BY DEF CompactHeuristic
<1> DEFINE c == NewConversation
           m == Text("user", cost)
<1>3. Plain(m)
  BY SessionAssumption, PlainTexts
<1>4. /\ Known(conv.msgs, handled, undone, ids) /\ ids \in Nat
      /\ client \in BOOLEAN /\ start \in 0 .. MaxMessages /\ ids \in 0 .. MaxIds
  BY Bounds DEF IInv
<1>5. c \in Conversations /\ c.msgs = << >> /\ c.turns = << >>
  <2>1. << >> \in Seq(Messages) /\ << >> \in Seq(Ranges)
    OBVIOUS
  <2> QED BY <2>1 DEF NewConversation, Conversations
<1>6. DOMAIN << >> = {}
  OBVIOUS
<1>7. Tame(<< >>) /\ Known(<< >>, handled, undone, ids)
  BY <1>4, <1>6 DEF Tame, Single, Adjacent, Known
<1>8. Tiles(<< >>, Len(<< >>), UserIndices(<< >>))
  BY <1>6 DEF Tiles, UserIndices
<1>9. Tiled(c)
  BY <1>5, <1>8 DEF Tiled
<1> HIDE DEF c, m
<1>10. /\ Push(c, m) \in Conversations /\ Tame(Push(c, m).msgs)
       /\ Known(Push(c, m).msgs, handled, undone, ids) /\ Tiled(Push(c, m))
  BY <1>3, <1>4, <1>5, <1>7, <1>9, PushPlain
<1>11. conv' = Push(c, m)
  BY <1>2 DEF c, m
<1> QED BY <1>1, <1>4, <1>10, <1>11 DEF IInv

(* /undo drops the last turn and leaves calls whose results were in it.    *)
LEMMA UndoKeeps ==
  ASSUME NEW c \in Conversations, Tame(c.msgs), NEW done, NEW gone, NEW top \in Nat,
         Known(c.msgs, done, gone, top)
  PROVE  LET d == PopLastTurn(c)
             g == gone \cup (Markers(c, 0) \ Markers(d, 0))
         IN  /\ d \in Conversations /\ Tame(d.msgs)
             /\ Known(d.msgs, done, g, top)
             /\ Whole(c.msgs, gone) => Whole(d.msgs, g)
             /\ Tiled(c) => Tiled(d)
<1> DEFINE ms == c.msgs
           n == Len(ms)
           d == PopLastTurn(c)
           g == gone \cup (Markers(c, 0) \ Markers(d, 0))
<1>1. /\ ms \in Seq(Messages) /\ n \in Nat /\ DOMAIN ms = 1 .. n
      /\ \A i \in DOMAIN ms : ms[i].res \in Nat
  <2>1. ms \in Seq(Messages) /\ n \in Nat /\ DOMAIN ms = 1 .. n
    BY DEF Conversations
  <2>2. \A i \in DOMAIN ms : ms[i] \in Messages
    BY <2>1
  <2> QED BY <2>1, <2>2 DEF Messages
<1>2. /\ done \subseteq 1 .. top /\ gone \subseteq 1 .. top
      /\ \A i \in DOMAIN ms : ms[i].use <= top /\ ms[i].res <= top /\ ms[i].res \notin gone
  BY DEF Known
<1>3. Tiled(c) => Tiled(d)
  BY PopTiles
<1>4. Markers(c, 0) = {ms[i].res : i \in DOMAIN ms} \ {0}
  <2>1. {j \in DOMAIN ms : j > 0} = DOMAIN ms
    BY <1>1
  <2> QED BY <2>1 DEF Markers
<1>5. CASE UserIndices(ms) = {}
  <2>1. d = c
    BY <1>5 DEF PopLastTurn
  <2>2. g = gone
    BY <2>1
  <2> HIDE DEF d, g
  <2> QED BY <1>3, <2>1, <2>2 DEF d, g
<1>6. CASE UserIndices(ms) # {}
  <2>1. PICK u \in 1 .. n : d \in Conversations /\ d.msgs = SubSeq(ms, 1, u - 1)
    BY <1>6, PopResult
  <2> DEFINE ns == SubSeq(ms, 1, u - 1)
  <2>2. /\ Len(ns) = u - 1 /\ DOMAIN ns = 1 .. u - 1 /\ \A i \in 1 .. u - 1 : ns[i] = ms[i]
        /\ u \in Nat /\ u >= 1 /\ u <= n
    BY <1>1
  <2>3. Follows(ms, ns)
    <3>1. 1 \in Nat \ {0} /\ u - 1 \in 0 .. Len(ms) /\ 1 <= u - 1 + 1
      BY <1>1
    <3> QED BY <1>1, <3>1, SubSeqFollows
  <2> HIDE DEF ns, d
  <2>4. Markers(d, 0) = {ns[i].res : i \in 1 .. u - 1} \ {0}
    <3>1. {j \in DOMAIN ns : j > 0} = 1 .. u - 1
      BY <2>2
    <3>2. d.msgs = ns
      BY <2>1 DEF ns
    <3> QED BY <3>1, <3>2 DEF Markers
  <2>5. g \subseteq 1 .. top
    <3>1. Markers(c, 0) \subseteq 1 .. top
      <4> SUFFICES ASSUME NEW x \in Markers(c, 0) PROVE x \in 1 .. top
        OBVIOUS
      <4>1. PICK i \in DOMAIN ms : x = ms[i].res /\ x # 0
        BY <1>4
      <4>2. x \in Nat /\ x <= top
        BY <1>1, <1>2, <4>1
      <4> QED BY <4>1, <4>2
    <3> QED BY <1>2, <3>1
  <2>6. \A i \in 1 .. u - 1 : i \in DOMAIN ms /\ ns[i] = ms[i] /\ ns[i].res \notin g
    <3> TAKE i \in 1 .. u - 1
    <3>1. i \in DOMAIN ms /\ ns[i] = ms[i]
      BY <1>1, <2>2
    <3>2. ms[i].res \notin gone
      BY <1>2, <3>1
    <3>3. ns[i].res \in Markers(d, 0) \/ ns[i].res = 0
      BY <2>4
    <3>4. 0 \notin Markers(c, 0)
      BY <1>4
    <3> QED BY <3>1, <3>2, <3>3, <3>4
  <2>7. Known(ns, done, g, top)
    <3>1. \A i \in DOMAIN ns : ns[i].use <= top /\ ns[i].res <= top /\ ns[i].res \notin g
      BY <1>2, <2>2, <2>6
    <3> QED BY <1>2, <2>5, <3>1 DEF Known
  <2>8. ASSUME Whole(ms, gone) PROVE Whole(ns, g)
    <3> SUFFICES ASSUME NEW i \in 1 .. u - 1
                 PROVE  ResultAsked(ns, i) /\ (ns[i].use \notin g => UseAnswered(ns, i))
      BY <2>2 DEF Whole
    <3>1. /\ i \in DOMAIN ms /\ ns[i] = ms[i] /\ i \in 1 .. n /\ i <= u - 1
          /\ i > 1 => i - 1 \in 1 .. u - 1
      BY <1>1, <2>2, <2>6
    <3>2. ResultAsked(ms, i) /\ (ms[i].use \notin gone => UseAnswered(ms, i))
      BY <2>8, <3>1 DEF Whole
    <3>3. ResultAsked(ns, i)
      BY <2>2, <3>1, <3>2 DEF ResultAsked
    <3>4. ASSUME ns[i].use \notin g, ns[i].use # 0
          PROVE  i < Len(ns) /\ ns[i + 1].res = ns[i].use
      <4>1. i < n /\ ms[i + 1].res = ms[i].use
        BY <3>1, <3>2, <3>4 DEF UseAnswered
      <4>2. i + 1 \in DOMAIN ms /\ i + 1 <= u /\ i + 1 \in Nat
        BY <1>1, <2>2, <3>1, <4>1
      <4>3. ms[i + 1].res \in Markers(c, 0)
        BY <1>4, <3>1, <3>4, <4>1, <4>2
      <4>4. ms[i + 1].res \in Markers(d, 0)
        BY <3>1, <3>4, <4>1, <4>3
      <4>5. PICK j \in 1 .. u - 1 : ns[j].res = ms[i + 1].res
        BY <2>4, <4>4
      <4>6. j \in DOMAIN ms /\ ms[j].res = ms[i + 1].res
        BY <2>6, <4>5
      <4>7. j = i + 1
        BY <3>1, <3>4, <4>1, <4>2, <4>6 DEF Tame, Single
      <4>8. i + 1 \in 1 .. u - 1 /\ i < u - 1
        BY <2>2, <3>1, <4>5, <4>7
      <4> QED BY <2>2, <3>1, <4>1, <4>8
    <3> QED BY <3>3, <3>4 DEF UseAnswered
  <2> QED BY <1>3, <2>1, <2>3, <2>7, <2>8 DEF Follows, ns, d
<1> QED BY <1>5, <1>6

(* The end of a query: its new results are handled.                        *)
LEMMA QueryReturnedKeepsIInv ==
  ASSUME IInv, QueryReturned
  PROVE  IInv'
<1>1. status' = "idle" /\ start' = 0 /\ UNCHANGED <<client, ids>>
  BY DEF QueryReturned
<1>2. PICK undo \in BOOLEAN, folded \in BOOLEAN :
        LET kept == IF undo THEN PopLastTurn(conv) ELSE conv
        IN  /\ conv' = IF folded THEN Push(kept, Text("user", 1)) ELSE kept
            /\ handled' = handled \cup Markers(kept, start)
            /\ undone' = undone \cup (Markers(conv, 0) \ Markers(kept, 0))
  BY DEF QueryReturned
<1> DEFINE kept == IF undo THEN PopLastTurn(conv) ELSE conv
           g == undone \cup (Markers(conv, 0) \ Markers(kept, 0))
           h == handled \cup Markers(kept, start)
           m == Text("user", 1)
<1>3. /\ conv \in Conversations /\ Tame(conv.msgs) /\ Known(conv.msgs, handled, undone, ids)
      /\ client => Whole(conv.msgs, undone)
      /\ ~client => Tiled(conv)
      /\ client \in BOOLEAN /\ ids \in 0 .. MaxIds /\ ids \in Nat
  BY Bounds DEF IInv
<1>4. /\ kept \in Conversations /\ Tame(kept.msgs)
      /\ Known(kept.msgs, handled, g, ids)
      /\ Whole(conv.msgs, undone) => Whole(kept.msgs, g)
      /\ Tiled(conv) => Tiled(kept)
  <2>1. CASE undo
    <3>1. kept = PopLastTurn(conv)
      BY <2>1
    <3> HIDE DEF kept
    <3> QED BY <1>3, <3>1, UndoKeeps
  <2>2. CASE ~undo
    <3>1. kept = conv /\ g = undone
      BY <2>2
    <3> HIDE DEF kept, g
    <3> QED BY <1>3, <3>1
  <2> QED BY <2>1, <2>2
<1>5. conv' = (IF folded THEN Push(kept, m) ELSE kept) /\ handled' = h /\ undone' = g
  BY <1>2
<1> HIDE DEF kept, g, m
<1>6. Known(kept.msgs, h, g, ids)
  <2>1. \A i \in DOMAIN kept.msgs : kept.msgs[i].res \in Nat /\ kept.msgs[i].res <= ids
    <3>1. kept.msgs \in Seq(Messages)
      BY <1>4 DEF Conversations
    <3>2. \A i \in DOMAIN kept.msgs : kept.msgs[i] \in Messages
      BY <3>1
    <3> QED BY <1>4, <3>2 DEF Messages, Known
  <2>2. Markers(kept, start) \subseteq 1 .. ids
    <3> SUFFICES ASSUME NEW x \in Markers(kept, start) PROVE x \in 1 .. ids
      OBVIOUS
    <3>1. PICK i \in DOMAIN kept.msgs : x = kept.msgs[i].res /\ x # 0
      BY DEF Markers
    <3>2. x \in Nat /\ x <= ids
      BY <2>1, <3>1
    <3> QED BY <1>3, <3>1, <3>2
  <2> QED BY <1>4, <2>2 DEF Known
<1>7. Plain(m)
  BY PlainTexts DEF m
<1> HIDE DEF h
<1>8. /\ Push(kept, m) \in Conversations /\ Tame(Push(kept, m).msgs)
      /\ Known(Push(kept, m).msgs, h, g, ids)
      /\ Whole(kept.msgs, g) => Whole(Push(kept, m).msgs, g)
      /\ Tiled(kept) => Tiled(Push(kept, m))
  BY <1>3, <1>4, <1>6, <1>7, PushPlain
<1>9. /\ conv' \in Conversations /\ Tame(conv'.msgs)
      /\ Known(conv'.msgs, handled', undone', ids)
      /\ client => Whole(conv'.msgs, undone')
      /\ ~client => Tiled(conv')
  BY <1>3, <1>4, <1>5, <1>6, <1>8
<1>10. start' \in 0 .. MaxMessages
  BY <1>1, SessionAssumption
<1> QED BY <1>1, <1>3, <1>9, <1>10 DEF IInv

(* Every step keeps the invariant.                                         *)
LEMMA StepKeepsIInv ==
  ASSUME IInv, [Next]_vars
  PROVE  IInv'
<1>1. CASE Submit
  BY <1>1, SubmitKeepsIInv
<1>2. CASE Reply
  BY <1>2, ReplyKeepsIInv
<1>3. CASE ToolTurn
  BY <1>3, ToolTurnKeepsIInv
<1>4. CASE EndAtHead
  BY <1>4, EndAtHeadKeepsIInv
<1>5. CASE CompactAuto
  <2>1. client /\ UNCHANGED <<client, status, start, ids, handled, undone>>
    BY <1>5 DEF CompactAuto
  <2> QED BY <1>5, <2>1, CompactAutoKeeps, CompactionKeepsIInv
<1>6. CASE CompactForced
  <2>1. client /\ UNCHANGED <<client, status, start, ids, handled, undone>>
    BY <1>6 DEF CompactForced
  <2> QED BY <1>6, <2>1, CompactForcedKeeps, CompactionKeepsIInv
<1>7. CASE CompactRaw
  BY <1>7, CompactRawKeepsIInv
<1>8. CASE CompactHeuristic
  BY <1>8, CompactHeuristicKeepsIInv
<1>9. CASE QueryReturned
  BY <1>9, QueryReturnedKeepsIInv
<1>10. CASE GoOn
  BY <1>10, GoOnKeepsIInv
<1>11. CASE UNCHANGED vars
  BY <1>11 DEF IInv, vars
<1> QED BY <1>1, <1>2, <1>3, <1>4, <1>5, <1>6, <1>7, <1>8, <1>9, <1>10, <1>11 DEF Next

(* Every state of a session satisfies the invariant.                       *)
THEOREM Invariant == Spec => []IInv
<1>1. Init => IInv
  BY InitIInv
<1>2. IInv /\ [Next]_vars => IInv'
  BY StepKeepsIInv
<1> QED BY <1>1, <1>2, PTL DEF Spec

(* The messages, the ranges, the anchor and the ids of a session keep their*)
(* types and bounds.                                                       *)
THEOREM TypesHold == Spec => []TypeOK
<1>1. IInv => TypeOK
  <2> SUFFICES ASSUME IInv PROVE TypeOK
    OBVIOUS
  <2> DEFINE M == [role : {"user", "assistant", "system"},
                   text : Nat, use : 0 .. MaxIds, res : 0 .. MaxIds,
                   error : BOOLEAN, big : BOOLEAN]
             ms == conv.msgs
  <2>1. /\ ms \in Seq(Messages) /\ ids \in Nat /\ MaxIds \in Nat /\ ids \in 0 .. MaxIds
        /\ conv \in Conversations
        /\ client \in BOOLEAN /\ status \in {"idle", "head", "ended"} /\ start \in 0 .. MaxMessages
    BY Bounds DEF IInv
  <2>2. /\ handled \subseteq 1 .. ids /\ undone \subseteq 1 .. ids
        /\ \A i \in DOMAIN ms : ms[i].use <= ids /\ ms[i].res <= ids
    BY DEF IInv, Known
  <2>3. handled \subseteq 1 .. MaxIds /\ undone \subseteq 1 .. MaxIds
    BY <2>1, <2>2
  <2>4. \A i \in DOMAIN ms : ms[i] \in M
    <3> TAKE i \in DOMAIN ms
    <3>1. ms[i] \in Messages
      BY <2>1
    <3>2. ms[i].use \in 0 .. MaxIds /\ ms[i].res \in 0 .. MaxIds
      BY <2>1, <2>2, <3>1, SMTT(60) DEF Messages
    <3> HIDE DEF ms
    <3> QED BY <3>1, <3>2 DEF Messages
  <2> HIDE DEF M
  <2>5. ms \in Seq(M)
    BY <2>1, <2>4
  <2>6. conv.turns \in Seq([first : Nat \ {0}, last : Nat \ {0}]) /\ conv.anchor \in Nat
    BY <2>1 DEF Conversations, Ranges
  <2> QED BY <2>1, <2>3, <2>5, <2>6 DEF TypeOK, M
<1> QED BY <1>1, Invariant, PTL

(* In a session with a client every tool_result in the history has its     *)
(* tool_use, and only the calls of a turn that an undo cut open lack a     *)
(* result: no compaction, retry or cancelled query leaves an orphan.       *)
THEOREM OnlyUndoOrphansHolds == Spec => []OnlyUndoOrphans
<1>1. IInv => OnlyUndoOrphans
  BY DEF IInv, OnlyUndoOrphans, Whole
<1> QED BY <1>1, Invariant, PTL

(* In a session without a client the ranges of user_turn_ranges cover the  *)
(* end of the messages without gap or overlap after every push, undo and   *)
(* truncation.                                                             *)
THEOREM TurnRangesTileHolds == Spec => []TurnRangesTile
<1>1. IInv => TurnRangesTile
  BY DEF IInv, TurnRangesTile, Tiled, Tiles
<1> QED BY <1>1, Invariant, PTL

(* handle_query_complete never acts twice on the same tool result, although*)
(* the index it scans from was taken before compactions that moved the     *)
(* messages.                                                               *)
THEOREM MarkersHandledOnceHolds == Spec => MarkersHandledOnce
<1>1. IInv /\ [Next]_vars => [QueryReturned => Markers(conv, start) \cap handled = {}]_vars
  <2> SUFFICES ASSUME IInv, QueryReturned, NEW x \in Markers(conv, start), x \in handled
               PROVE  FALSE
    OBVIOUS
  <2>1. InPlace(conv.msgs, handled, start) /\ start \in Nat /\ Len(conv.msgs) \in Nat
        /\ DOMAIN conv.msgs = 1 .. Len(conv.msgs)
    BY Bounds DEF IInv, QueryReturned
  <2>2. PICK i \in DOMAIN conv.msgs : i > start /\ conv.msgs[i].res = x
    BY DEF Markers
  <2>3. i < start \/ i < start + 1
    BY <2>1, <2>2 DEF InPlace, Early
  <2> QED BY <2>1, <2>2, <2>3
<1> QED BY <1>1, Invariant, PTL DEF Spec, MarkersHandledOnce

(* A compaction of the engine leaves no unpaired block, drops no system    *)
(* message, leaves the last turn alone while it only summarises, and where *)
(* it truncates it drops a prefix.                                         *)
THEOREM CompactionSoundHolds == Spec => CompactionSound
<1> DEFINE A == /\ CompactionRepairs
                /\ SystemMessagesKept
                /\ SummaryKeepsLastTurn
                /\ TruncationDropsPrefix
<1>1. ASSUME IInv PROVE A
  <2>1. CompactionRepairs
    BY <1>1, CompactAutoKeeps, CompactForcedKeeps DEF CompactionRepairs
  <2>2. SystemMessagesKept
    BY <1>1, CompactAutoKeeps, CompactForcedKeeps DEF SystemMessagesKept, Keeps
  <2>3. SummaryKeepsLastTurn
    <3> SUFFICES ASSUME CompactAuto, Percent(conv) < 95, ExactTurns(conv), Paired(conv.msgs)
                 PROVE  EndsWith(conv'.msgs, NonEmpty(Pick(conv.msgs, Recent(conv.msgs, 1))))
      BY DEF SummaryKeepsLastTurn
    <3>1. PICK cost \in SummaryCosts : conv' = Compacted(AutoStrategy(conv, cost))
      BY DEF CompactAuto
    <3>2. cost \in Nat /\ conv \in Conversations /\ Tame(conv.msgs)
      BY <1>1, SessionAssumption DEF IInv
    <3> QED BY <3>1, <3>2, LastTurnSurvives
  <2>4. TruncationDropsPrefix
    <3> SUFFICES ASSUME CompactRaw PROVE EndsWith(conv.msgs, conv'.msgs)
      BY DEF TruncationDropsPrefix
    <3>1. PICK budget \in {(Window * 60) \div 100, (Window * 50) \div 100} :
            conv' = TruncateToBudget(conv, budget)
      BY DEF CompactRaw
    <3>2. budget \in Nat /\ conv \in Conversations
      BY <1>1, ConversationAssumption DEF IInv
    <3> DEFINE n == Len(conv.msgs)
    <3>3. PICK r \in 0 .. n : conv'.msgs = SubSeq(conv.msgs, r + 1, n)
      BY <3>1, <3>2, TruncateToBudgetResult
    <3>4. conv.msgs \in Seq(Messages) /\ n \in Nat
      BY <1>1, Bounds
    <3>5. Len(SubSeq(conv.msgs, r + 1, n)) = n - r /\ n - (n - r) + 1 = r + 1 /\ n - r <= n
      BY <3>4
    <3> QED BY <3>3, <3>5 DEF EndsWith
  <2> QED BY <2>1, <2>2, <2>3, <2>4
<1>2. IInv /\ [Next]_vars => [A]_vars
  BY <1>1
<1> QED BY <1>2, Invariant, PTL DEF Spec, CompactionSound

-----------------------------------------------------------------------------
(* The loop that works on the conversation: the safety of QueryLoop for    *)
(* every set of fill levels and every choice of fallback and plan model.   *)
(* LoopInv is inductive: the requests since the last complete answer are   *)
(* paid for by the two retry counters and by the place of the loop, so     *)
(* they stay bounded although the counters are reset.                      *)

USE DEF MaxPtlRetries, MaxOutputTokenRetries, Places, Kinds, Targets

(* query_loop starts in a state of the invariant.                          *)
LEMMA LoopBegins == LoopInit => LoopInv
<1> SUFFICES ASSUME LoopInit PROVE LoopInv
  OBVIOUS
<1>1. /\ cancelled \in BOOLEAN /\ escalated \in BOOLEAN
      /\ planMode \in BOOLEAN /\ images \in BOOLEAN
  BY Zenon DEF LoopInit
<1>2. LoopTypeOK
  BY <1>1 DEF LoopInit, LoopTypeOK
<1>3. OutcomeReported /\ CallsAnswered /\ RequestsSpent /\ TargetInv
  BY DEF LoopInit, OutcomeReported, CallsAnswered, RequestsSpent, TargetInv
<1> QED
  BY <1>2, <1>3 DEF LoopInv

(* The cancellation token may be set at any time.                          *)
LEMMA LoopCancel == LoopInv /\ Cancel => LoopInv'
BY DEF Cancel, history, retries,
       LoopInv, LoopTypeOK, OutcomeReported, CallsAnswered, RequestsSpent, TargetInv

(* The ends of query_loop at its head and after the Stop hooks.            *)
LEMMA LoopEnd == LoopInv /\ (HeadCancelled \/ Accept) => LoopInv'
BY DEF HeadCancelled, SeesCancel, Accept, EndOk, history, retries,
       LoopInv, LoopTypeOK, OutcomeReported, CallsAnswered, RequestsSpent, TargetInv

(* The request of a round never goes to the fallback model.                *)
LEMMA LoopStartRound == LoopInv /\ StartRound => LoopInv'
<1> SUFFICES ASSUME LoopInv, StartRound PROVE LoopInv'
  OBVIOUS
<1>1. model' \in {"primary", "larger"} /\ window' \in {"ok", "warn", "upgraded", "compact"}
  BY DEF StartRound
<1>2. target' \in {"primary", "larger", "plan"}
  BY <1>1 DEF StartRound, EffectiveModel
<1> QED
  BY <1>1, <1>2 DEF StartRound, history, retries,
       LoopInv, LoopTypeOK, OutcomeReported, CallsAnswered, RequestsSpent, TargetInv

(* A failed request ends the query or costs one retry.                     *)
LEMMA LoopFailure ==
  LoopInv /\ (PromptTooLong \/ Overloaded \/ FailRequest \/ FailFallback) => LoopInv'
<1> SUFFICES ASSUME LoopInv, PromptTooLong \/ Overloaded \/ FailRequest \/ FailFallback
             PROVE  LoopInv'
  OBVIOUS
<1> USE DEF LoopInv, LoopTypeOK, OutcomeReported, CallsAnswered, RequestsSpent, TargetInv,
            history, retries
<1>1. CASE PromptTooLong
  <2>1. images' \in BOOLEAN /\ window' \in {"none", "ok", "warn", "upgraded", "compact"}
    BY <1>1 DEF PromptTooLong
  <2> QED
    BY <1>1, <2>1 DEF PromptTooLong, PtlLeft
<1>2. CASE Overloaded
  BY <1>2 DEF Overloaded
<1>3. CASE FailRequest
  BY <1>3 DEF FailRequest
<1>4. CASE FailFallback
  BY <1>4 DEF FailFallback
<1> QED
  BY <1>1, <1>2, <1>3, <1>4

(* A cut answer resets the prompt's retries and costs one of its own.      *)
LEMMA LoopCut == LoopInv /\ (Escalate \/ Continue) => LoopInv'
<1> SUFFICES ASSUME LoopInv, Escalate \/ Continue PROVE LoopInv'
  OBVIOUS
<1> USE DEF LoopInv, LoopTypeOK, OutcomeReported, CallsAnswered, RequestsSpent, TargetInv,
            history, Answered
<1>1. CASE Escalate
  BY <1>1 DEF Escalate
<1>2. CASE Continue
  BY <1>2 DEF Continue, OutputLeft
<1> QED
  BY <1>1, <1>2

(* A complete answer resets the counters.                                  *)
LEMMA LoopComplete == LoopInv /\ (FinalAnswer \/ ToolCalls) => LoopInv'
<1> SUFFICES ASSUME LoopInv, FinalAnswer \/ ToolCalls PROVE LoopInv'
  OBVIOUS
<1> USE DEF LoopInv, LoopTypeOK, OutcomeReported, CallsAnswered, RequestsSpent, TargetInv,
            Answered, Complete
<1>1. CASE FinalAnswer
  BY <1>1 DEF FinalAnswer
<1>2. CASE ToolCalls
  BY <1>2 DEF ToolCalls
<1> QED
  BY <1>1, <1>2

(* A Stop hook or a tool turn leads to the next round.                     *)
LEMMA LoopAgain == LoopInv /\ (StopHookRetry \/ ToolsDone) => LoopInv'
BY DEF StopHookRetry, ToolsDone, Persist, history, retries,
       LoopInv, LoopTypeOK, OutcomeReported, CallsAnswered, RequestsSpent, TargetInv

(* Every state of a query satisfies the invariant.                         *)
THEOREM LoopInvariant == LoopSpec => []LoopInv
<1>1. LoopInv /\ [LoopNext]_loopVars => LoopInv'
  <2> SUFFICES ASSUME LoopInv, [LoopNext]_loopVars PROVE LoopInv'
    OBVIOUS
  <2>1. CASE Cancel
    BY <2>1, LoopCancel
  <2>2. CASE Step
    BY <2>2, LoopEnd, LoopStartRound, LoopFailure, LoopCut, LoopComplete, LoopAgain
       DEF Step, Request
  <2>3. CASE UNCHANGED loopVars
    BY <2>3 DEF loopVars, LoopInv, LoopTypeOK, OutcomeReported, CallsAnswered, RequestsSpent,
                TargetInv
  <2> QED
    BY <2>1, <2>2, <2>3 DEF LoopNext
<1> QED
  BY LoopBegins, <1>1, PTL DEF LoopSpec

(* query_loop makes at most twenty requests between two complete answers,  *)
(* whatever errors the provider returns and in whatever order.             *)
THEOREM RequestsBoundedHolds == LoopSpec => []RequestsBounded
<1>1. LoopInv => RequestsBounded
  BY DEF LoopInv, LoopTypeOK, RequestsSpent, RequestsBounded
<1> QED
  BY LoopInvariant, <1>1, PTL

(* MessageEnd is sent exactly once for a query that returns Ok and never   *)
(* otherwise; the StopFailure hook runs for the primary request's errors.  *)
THEOREM OutcomeReportedHolds == LoopSpec => []OutcomeReported
<1>1. LoopInv => OutcomeReported
  BY DEF LoopInv
<1> QED
  BY LoopInvariant, <1>1, PTL

(* Outside a tool turn neither the history nor the crash log ends with an  *)
(* unanswered tool_use.                                                    *)
THEOREM CallsAnsweredHolds == LoopSpec => []CallsAnswered
<1>1. LoopInv => CallsAnswered
  BY DEF LoopInv
<1> QED
  BY LoopInvariant, <1>1, PTL

==============================================================================
