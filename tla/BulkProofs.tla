----------------------------- MODULE BulkProofs -----------------------------
(***************************************************************************)
(* The order of a bulk request is right for every number of operations and *)
(* whatever they reference: the stack of the walk is a path of references  *)
(* between operations that have no place in the order yet.                 *)
(*                                                                         *)
(* A bulk request resolves its references to the resources it created,     *)
(* answers those of a cycle with a conflict and counts its errors right,   *)
(* for every request, every limit and any number of writes of others.      *)
(***************************************************************************)
EXTENDS BulkRequest, SequenceTheorems, FiniteSetTheorems, TLAPS

Place(i) == \E n \in DOMAIN steps : steps[n] = i

\* The walk starts from each operation in turn, and what it is in the middle of
\* began at the operation it started from.
Rooted ==
    /\ PlanTypeOK
    /\ \A i \in 1 .. root - 1 : i \in visited
    /\ stack # <<>> => root \in Indexes /\ stack[1].index = root

\* The operations visited are those that have a place, each one its own, and no
\* operation on the path is visited, or met twice.
PlacedOnce ==
    /\ \A i \in Indexes : i \in visited <=> Place(i)
    /\ \A m, n \in DOMAIN steps : steps[m] = steps[n] => m = n
    /\ \A n \in DOMAIN stack : stack[n].index \notin visited
    /\ \A m, n \in DOMAIN stack : stack[m].index = stack[n].index => m = n

\* An operation on the path references those above it.
PathOfReferences ==
    \A m, n \in DOMAIN stack : m < n => Reaches(stack[m].index, stack[n].index)

\* The references an iterator yielded have their place, unless the creation they
\* lead to is just above on the path, or references the operation in turn.
Yielded ==
    \A n \in DOMAIN stack : \A k \in 1 .. stack[n].next - 1 :
        \A d \in Indexes : IsCreation(d, operations[stack[n].index].refs[k]) =>
            \/ d \in visited
            \/ Reaches(d, stack[n].index)
            \/ n < Len(stack) /\ d = stack[n + 1].index

\* What has its place came after what it references.
PlacedInOrder ==
    \A n \in DOMAIN steps : \A d \in DependsOn(steps[n]) :
        Before(d, steps[n]) \/ Reaches(d, steps[n])

\* What has its place was met from an operation of the request, once all the
\* operations before that one had theirs.
PlacedFromRoots ==
    \A n \in DOMAIN steps : \E i \in 1 .. root :
        /\ i \in Indexes /\ (steps[n] = i \/ Reaches(i, steps[n]))
        /\ \A j \in 1 .. i - 1 : \E m \in 1 .. n - 1 : steps[m] = j

PlanInv == Rooted /\ PlacedOnce /\ PathOfReferences /\ Yielded /\ PlacedInOrder /\ PlacedFromRoots

-----------------------------------------------------------------------------
(***************************************************************************)
(* References.                                                             *)
(***************************************************************************)

\* A request is a list of operations with lists of references.
LEMMA OperationsAreAList ==
    ASSUME PlanTypeOK
    PROVE  /\ Len(operations) \in Nat
           /\ \A i \in Indexes : operations[i].refs \in Seq(BulkIds)
BY BulkRequestsAssumption DEF PlanTypeOK, Indexes

\* A bulkId references one creation.
LEMMA OneCreation ==
    ASSUME PlanTypeOK, NEW b, NEW i, NEW j, IsCreation(i, b), IsCreation(j, b)
    PROVE  i = j
BY OperationsAreAList DEF IsCreation, Creating, Indexes

\* What an operation references it reaches.
LEMMA ReachesDependency ==
    ASSUME NEW i, NEW d, d \in DependsOn(i)
    PROVE  Reaches(i, d)
BY DEF Reaches

\* What is referenced by what an operation reaches, it reaches.
LEMMA ReachesFurther ==
    ASSUME NEW i, NEW j \in Indexes, NEW d, Reaches(i, j), d \in DependsOn(j)
    PROVE  Reaches(i, d)
BY DEF Reaches

-----------------------------------------------------------------------------
(***************************************************************************)
(* The steps of the walk.                                                  *)
(***************************************************************************)

\* The walk starts with nothing placed.
LEMMA PlanAtStart == PlanInit => PlanInv
<1> SUFFICES ASSUME PlanInit PROVE PlanInv
    OBVIOUS
<1>1. PlanTypeOK
    BY BulkRequestsAssumption, EmptySeq DEF PlanInit, PlanTypeOK, Indexes
<1> QED
    BY <1>1, OperationsAreAList, EmptySeq
       DEF PlanInit, PlanInv, Rooted, PlacedOnce, Place, PathOfReferences, Yielded,
           PlacedInOrder, PlacedFromRoots, Before

\* A root that has its place is passed.
LEMMA NextRootKeeps == PlanInv /\ NextRoot => PlanInv'
<1> SUFFICES ASSUME PlanInv, NextRoot PROVE PlanInv'
    OBVIOUS
<1>1. root \in Nat \ {0} /\ root \in visited
    BY OperationsAreAList DEF NextRoot, Indexes, PlanInv, Rooted
<1>2. Rooted'
    BY <1>1, OperationsAreAList DEF PlanInv, Rooted, NextRoot, PlanTypeOK, Indexes
<1>3. /\ UNCHANGED <<operations, stack, visited, steps>>
      /\ \A i, j : Reaches(i, j)' <=> Reaches(i, j)
    BY DEF NextRoot, Reaches, DependsOn, IsCreation, Creating, Indexes
<1>4. (PlacedOnce /\ PathOfReferences /\ Yielded /\ PlacedInOrder)'
    BY <1>3 DEF PlanInv, PlacedOnce, Place, PathOfReferences, Yielded, PlacedInOrder,
       Indexes, DependsOn, IsCreation, Creating, Before
<1>5. PlacedFromRoots'
  <2>1. root \in Nat /\ root' = root + 1 /\ Indexes' = Indexes /\ PlacedFromRoots
      BY <1>1, <1>3 DEF NextRoot, PlanInv, Indexes
  <2>2. 1 .. root \subseteq 1 .. root'
      BY <2>1
  <2> QED BY <1>3, <2>1, <2>2 DEF PlacedFromRoots
<1> QED BY <1>2, <1>4, <1>5 DEF PlanInv


\* The references of the operations of a request stay what they are.
LEMMA SameReferences ==
    ASSUME UNCHANGED operations
    PROVE  /\ Indexes' = Indexes
           /\ \A i, b : IsCreation(i, b)' <=> IsCreation(i, b)
           /\ \A i : DependsOn(i)' = DependsOn(i)
           /\ \A i, j : Reaches(i, j)' <=> Reaches(i, j)
BY DEF Reaches, DependsOn, IsCreation, Creating, Indexes

\* The frames of a stack.
Frames == [index : Indexes, next : Nat \ {0}]

\* A sequence with one more element.
LEMMA Appended ==
    ASSUME NEW S, NEW s \in Seq(S), NEW x \in S
    PROVE  /\ Append(s, x) \in Seq(S)
           /\ Len(Append(s, x)) = Len(s) + 1 /\ DOMAIN Append(s, x) = 1 .. Len(s) + 1
           /\ \A n \in 1 .. Len(s) : Append(s, x)[n] = s[n]
           /\ Append(s, x)[Len(s) + 1] = x
BY LenProperties

\* The operations of a stack, with their iterators, and those that have a place.
LEMMA Stacked ==
    ASSUME PlanTypeOK
    PROVE  /\ stack \in Seq(Frames) /\ steps \in Seq(Indexes)
           /\ Len(stack) \in Nat /\ DOMAIN stack = 1 .. Len(stack)
           /\ stack # <<>> <=> Len(stack) > 0
           /\ \A n \in 1 .. Len(stack) :
                 /\ stack[n] \in Frames
                 /\ stack[n].index \in Indexes /\ stack[n].next \in Nat \ {0}
           /\ Len(steps) \in Nat /\ DOMAIN steps = 1 .. Len(steps)
           /\ \A n \in 1 .. Len(steps) : steps[n] \in Indexes
<1>1. stack \in Seq(Frames) /\ steps \in Seq(Indexes)
    BY DEF PlanTypeOK, Frames
<1>2. /\ Len(stack) \in Nat /\ DOMAIN stack = 1 .. Len(stack)
      /\ Len(steps) \in Nat /\ DOMAIN steps = 1 .. Len(steps)
      /\ \A n \in 1 .. Len(stack) : stack[n] \in Frames
      /\ \A n \in 1 .. Len(steps) : steps[n] \in Indexes
    BY <1>1, LenProperties, ElementOfSeq
<1>3. stack # <<>> <=> Len(stack) > 0
    BY <1>1, <1>2, EmptySeq
<1>4. \A f \in Frames : f.index \in Indexes /\ f.next \in Nat \ {0}
    BY DEF Frames
<1> QED BY <1>1, <1>2, <1>3, <1>4

\* An iterator that yields a reference is one further.
LEMMA AdvancedOnce ==
    ASSUME PlanTypeOK, stack # <<>>
    PROVE  /\ Advanced \in Seq(Frames)
           /\ Len(Advanced) = Len(stack) /\ DOMAIN Advanced = 1 .. Len(stack)
           /\ \A n \in 1 .. Len(stack) :
                 /\ Advanced[n].index = stack[n].index
                 /\ Advanced[n].next = IF n = Len(stack) THEN stack[n].next + 1 ELSE stack[n].next
<1> DEFINE top == [stack[Len(stack)] EXCEPT !.next = @ + 1]
<1>1. /\ Len(stack) \in 1 .. Len(stack)
      /\ top \in Frames
      /\ top.index = stack[Len(stack)].index /\ top.next = stack[Len(stack)].next + 1
  <2>1. Len(stack) \in Nat \ {0} /\ stack[Len(stack)] \in Frames
      BY Stacked
  <2> QED BY <2>1 DEF Frames
<1>2. Advanced = [stack EXCEPT ![Len(stack)] = top]
    BY DEF Advanced
<1> HIDE DEF top
<1>3. /\ Advanced \in Seq(Frames)
      /\ Len(Advanced) = Len(stack)
      /\ \A n \in 1 .. Len(stack) : Advanced[n] = IF n = Len(stack) THEN top ELSE stack[n]
    BY <1>1, <1>2, ExceptSeq, Stacked
<1>4. DOMAIN Advanced = 1 .. Len(stack)
    BY <1>3, LenProperties
<1> QED BY <1>1, <1>3, <1>4

\* A reference that is followed puts its creation on the path.
LEMMA Pushed ==
    ASSUME PlanTypeOK, stack # <<>>, NEW d \in Indexes
    PROVE  LET s == Append(Advanced, Frame(d))
           IN  /\ s \in Seq(Frames)
               /\ Len(s) = Len(stack) + 1 /\ DOMAIN s = 1 .. Len(stack) + 1
               /\ \A n \in 1 .. Len(stack) :
                     /\ s[n].index = stack[n].index
                     /\ s[n].next = IF n = Len(stack) THEN stack[n].next + 1 ELSE stack[n].next
               /\ s[Len(stack) + 1].index = d /\ s[Len(stack) + 1].next = 1
<1>1. Frame(d) \in Frames /\ Frame(d).index = d /\ Frame(d).next = 1
    BY DEF Frame, Frames
<1>2. /\ Advanced \in Seq(Frames) /\ Len(Advanced) = Len(stack)
      /\ \A n \in 1 .. Len(stack) :
            /\ Advanced[n].index = stack[n].index
            /\ Advanced[n].next = IF n = Len(stack) THEN stack[n].next + 1 ELSE stack[n].next
    BY AdvancedOnce
<1> DEFINE s == Append(Advanced, Frame(d))
<1>3. /\ s \in Seq(Frames)
      /\ Len(s) = Len(Advanced) + 1 /\ DOMAIN s = 1 .. Len(Advanced) + 1
      /\ \A n \in 1 .. Len(Advanced) : s[n] = Advanced[n]
      /\ s[Len(Advanced) + 1] = Frame(d)
  <2> HIDE DEF Advanced, Frame
  <2> QED BY <1>1, <1>2, Appended
<1> HIDE DEF Advanced, Frame, s
<1>4. /\ s \in Seq(Frames)
      /\ Len(s) = Len(stack) + 1 /\ DOMAIN s = 1 .. Len(stack) + 1
      /\ \A n \in 1 .. Len(stack) :
            /\ s[n].index = stack[n].index
            /\ s[n].next = IF n = Len(stack) THEN stack[n].next + 1 ELSE stack[n].next
      /\ s[Len(stack) + 1].index = d /\ s[Len(stack) + 1].next = 1
    BY <1>1, <1>2, <1>3
<1> QED BY <1>4 DEF s

\* The walk goes on from the next operation that has no place.
LEMMA StartRootKeeps == PlanInv /\ StartRoot => PlanInv'
<1> SUFFICES ASSUME PlanInv, StartRoot PROVE PlanInv'
    OBVIOUS
<1> DEFINE one == <<Frame(root)>>
<1>1. /\ one \in Seq(Frames)
      /\ Len(one) = 1 /\ DOMAIN one = 1 .. 1
      /\ one[1].index = root /\ one[1].next = 1
    BY DEF StartRoot, Frame, Frames
<1>2. stack' = one /\ UNCHANGED <<operations, root, visited, steps>> /\ stack = <<>>
      /\ root \in Indexes /\ root \notin visited
    BY DEF StartRoot
<1> HIDE DEF one
<1>3. /\ Indexes' = Indexes
      /\ \A i, b : IsCreation(i, b)' <=> IsCreation(i, b)
      /\ \A i : DependsOn(i)' = DependsOn(i)
      /\ \A i, j : Reaches(i, j)' <=> Reaches(i, j)
    BY <1>2, SameReferences
<1>4. Rooted'
    BY <1>1, <1>2, <1>3 DEF PlanInv, Rooted, PlanTypeOK, Frames
<1>5. PlacedOnce'
    BY <1>1, <1>2, <1>3 DEF PlanInv, PlacedOnce, Place
<1>6. (PathOfReferences /\ Yielded)'
    BY <1>1, <1>2 DEF PathOfReferences, Yielded
<1>7. (PlacedInOrder /\ PlacedFromRoots)'
    BY <1>2, <1>3 DEF PlanInv, PlacedInOrder, PlacedFromRoots, Before
<1> QED BY <1>4, <1>5, <1>6, <1>7 DEF PlanInv

\* A reference that leads nowhere, or back, is left.
LEMMA SkipKeeps == PlanInv /\ Skip => PlanInv'
<1> SUFFICES ASSUME PlanInv, Skip PROVE PlanInv'
    OBVIOUS
<1>1. PlanTypeOK /\ stack # <<>>
    BY DEF Skip, PlanInv, Rooted
<1>2. stack' = Advanced /\ UNCHANGED <<operations, root, visited, steps>>
    BY DEF Skip
<1> HIDE DEF Advanced
<1>3. /\ Indexes' = Indexes
      /\ \A i, b : IsCreation(i, b)' <=> IsCreation(i, b)
      /\ \A i : DependsOn(i)' = DependsOn(i)
      /\ \A i, j : Reaches(i, j)' <=> Reaches(i, j)
    BY <1>2, SameReferences
<1>4. /\ stack' \in Seq(Frames)
      /\ Len(stack') = Len(stack) /\ DOMAIN stack' = DOMAIN stack
      /\ DOMAIN stack = 1 .. Len(stack) /\ Len(stack) \in Nat \ {0}
      /\ \A n \in DOMAIN stack :
            /\ stack'[n].index = stack[n].index
            /\ stack'[n].next = IF n = Len(stack) THEN stack[n].next + 1 ELSE stack[n].next
  <2>1. /\ stack' \in Seq(Frames)
        /\ Len(stack') = Len(stack) /\ DOMAIN stack' = 1 .. Len(stack)
        /\ \A n \in 1 .. Len(stack) :
              /\ stack'[n].index = stack[n].index
              /\ stack'[n].next = IF n = Len(stack) THEN stack[n].next + 1 ELSE stack[n].next
      BY <1>1, <1>2, AdvancedOnce
  <2>2. DOMAIN stack = 1 .. Len(stack) /\ Len(stack) \in Nat \ {0}
      BY <1>1, Stacked
  <2> QED BY <2>1, <2>2
<1>5. Rooted'
  <2>1. PlanTypeOK'
      BY <1>2, <1>3, <1>4 DEF PlanInv, Rooted, PlanTypeOK, Frames
  <2> QED BY <1>1, <1>2, <1>3, <1>4, <2>1 DEF PlanInv, Rooted
<1>6. PlacedOnce'
    BY <1>2, <1>3, <1>4 DEF PlanInv, PlacedOnce, Place
<1>7. PathOfReferences'
    BY <1>1, <1>3, <1>4, Stacked DEF PlanInv, PathOfReferences
<1>8. \A d \in Indexes : IsCreation(d, operations[Top.index].refs[Top.next]) =>
          d \in visited \/ Reaches(d, Top.index)
  <2> SUFFICES ASSUME NEW d \in Indexes, IsCreation(d, operations[Top.index].refs[Top.next]),
                      d \notin visited
               PROVE  Reaches(d, Top.index)
      OBVIOUS
  <2>1. PICK n \in DOMAIN stack : stack[n].index = d
      BY DEF Skip, Follows, OnPath, Reference
  <2>2. CASE n = Len(stack)
    <3>1. Top.next \in DOMAIN operations[Top.index].refs
        BY <1>1, Stacked, OperationsAreAList, LenProperties DEF Skip, HasReference, Top
    <3>2. Top.index = d /\ d \in DependsOn(d)
        BY <2>1, <2>2, <3>1 DEF DependsOn, Top
    <3> QED BY <3>2, ReachesDependency
  <2>3. CASE n < Len(stack)
      BY <2>1, <2>3, <1>1, Stacked DEF PlanInv, PathOfReferences, Top
  <2> QED BY <2>1, <2>2, <2>3, <1>1, Stacked
<1>9. Yielded'
  <2> SUFFICES ASSUME NEW n \in DOMAIN stack, NEW k \in 1 .. stack'[n].next - 1,
                      NEW d \in Indexes, IsCreation(d, operations[stack[n].index].refs[k])
               PROVE  \/ d \in visited
                      \/ Reaches(d, stack[n].index)
                      \/ n < Len(stack) /\ d = stack[n + 1].index
      BY <1>2, <1>3, <1>4 DEF Yielded
  <2>1. CASE k = stack[n].next /\ n = Len(stack)
      BY <2>1, <1>8 DEF Top
  <2>2. CASE k \in 1 .. stack[n].next - 1
      BY <2>2 DEF PlanInv, Yielded
  <2>3. stack[n].next \in Nat
      BY <1>1, <1>4, Stacked
  <2>4. k \in 1 .. stack[n].next - 1 \/ (k = stack[n].next /\ n = Len(stack))
      BY <2>3, <1>4
  <2> QED BY <2>1, <2>2, <2>4
<1>10. (PlacedInOrder /\ PlacedFromRoots)'
    BY <1>2, <1>3 DEF PlanInv, PlacedInOrder, PlacedFromRoots, Before
<1> QED BY <1>5, <1>6, <1>7, <1>9, <1>10 DEF PlanInv


\* A reference to a creation the walk has not met is followed.
LEMMA FollowKeeps == PlanInv /\ Follow => PlanInv'
<1> SUFFICES ASSUME PlanInv, Follow PROVE PlanInv'
    OBVIOUS
<1>1. PlanTypeOK /\ stack # <<>>
    BY DEF Follow, PlanInv, Rooted
<1>2. PICK d \in Indexes : Follows(d) /\ stack' = Append(Advanced, Frame(d))
    BY DEF Follow
<1>3. UNCHANGED <<operations, root, visited, steps>>
    BY DEF Follow
<1> HIDE DEF Advanced, Frame
<1>4. /\ Indexes' = Indexes
      /\ \A i, b : IsCreation(i, b)' <=> IsCreation(i, b)
      /\ \A i : DependsOn(i)' = DependsOn(i)
      /\ \A i, j : Reaches(i, j)' <=> Reaches(i, j)
    BY <1>3, SameReferences
<1> DEFINE N == Len(stack)
<1>5. /\ stack' \in Seq(Frames) /\ Len(stack') = N + 1 /\ DOMAIN stack' = 1 .. N + 1
      /\ \A n \in 1 .. N :
            /\ stack'[n].index = stack[n].index
            /\ stack'[n].next = IF n = N THEN stack[n].next + 1 ELSE stack[n].next
      /\ stack'[N + 1].index = d /\ stack'[N + 1].next = 1
    BY <1>1, <1>2, Pushed
<1>6. /\ N \in Nat \ {0} /\ DOMAIN stack = 1 .. N
      /\ \A n \in 1 .. N : stack[n].index \in Indexes /\ stack[n].next \in Nat \ {0}
    BY <1>1, Stacked
<1> HIDE DEF N
<1>7. IsCreation(d, operations[stack[N].index].refs[stack[N].next])
    BY <1>2 DEF Follows, Reference, Top, N
<1>8. d \notin visited /\ \A n \in 1 .. N : stack[n].index # d
    BY <1>2, <1>6 DEF Follows, OnPath
<1>9. d \in DependsOn(stack[N].index)
  <2>1. stack[N].next \in DOMAIN operations[stack[N].index].refs
      BY <1>1, <1>6, OperationsAreAList, LenProperties DEF Follow, HasReference, Top, N
  <2> QED BY <1>2, <1>7, <2>1 DEF DependsOn
<1>10. Rooted'
  <2>1. PlanTypeOK'
      BY <1>3, <1>4, <1>5 DEF PlanInv, Rooted, PlanTypeOK, Frames
  <2> QED BY <1>1, <1>3, <1>4, <1>5, <1>6, <2>1 DEF PlanInv, Rooted
<1>11. PlacedOnce'
  <2>1. \A n \in 1 .. N + 1 : stack'[n].index \notin visited
      BY <1>5, <1>6, <1>8 DEF PlanInv, PlacedOnce
  <2>2. \A m, n \in 1 .. N + 1 : stack'[m].index = stack'[n].index => m = n
    <3>1. \A m, n \in 1 .. N : stack'[m].index = stack'[n].index => m = n
        BY <1>5, <1>6 DEF PlanInv, PlacedOnce
    <3>2. \A m \in 1 .. N : stack'[m].index # d
        BY <1>5, <1>8
    <3>3. \A m \in 1 .. N + 1 : m \in 1 .. N \/ m = N + 1
        BY <1>6
    <3> QED BY <3>1, <3>2, <3>3, <1>5
  <2> QED BY <1>3, <1>4, <1>5, <2>1, <2>2 DEF PlanInv, PlacedOnce, Place
<1>12. PathOfReferences'
  <2>1. \A m \in 1 .. N : Reaches(stack[m].index, d)
      BY <1>6, <1>9, ReachesDependency, ReachesFurther DEF PlanInv, PathOfReferences
  <2>2. \A m, n \in 1 .. N + 1 : m < n => Reaches(stack'[m].index, stack'[n].index)
    <3>1. \A m, n \in 1 .. N : m < n => Reaches(stack'[m].index, stack'[n].index)
        BY <1>5, <1>6 DEF PlanInv, PathOfReferences
    <3>2. \A m \in 1 .. N : Reaches(stack'[m].index, stack'[N + 1].index)
        BY <2>1, <1>5
    <3>3. \A m, n \in 1 .. N + 1 : m < n => m \in 1 .. N /\ (n \in 1 .. N \/ n = N + 1)
        BY <1>6
    <3> QED BY <3>1, <3>2, <3>3
  <2> QED BY <2>2, <1>4, <1>5 DEF PathOfReferences
<1>13. Yielded'
  <2> SUFFICES ASSUME NEW n \in 1 .. N + 1, NEW k \in 1 .. stack'[n].next - 1,
                      NEW e \in Indexes, IsCreation(e, operations[stack'[n].index].refs[k])
               PROVE  \/ e \in visited
                      \/ Reaches(e, stack'[n].index)
                      \/ n < N + 1 /\ e = stack'[n + 1].index
      BY <1>3, <1>4, <1>5 DEF Yielded
  <2>1. n \in 1 .. N /\ stack'[n].index = stack[n].index
      BY <1>5, <1>6
  <2>2. CASE k = stack[n].next /\ n = N
    <3>1. e = d
        BY <1>1, <1>7, <2>1, <2>2, OneCreation
    <3> QED BY <3>1, <2>2, <1>5, <1>6
  <2>3. CASE k \in 1 .. stack[n].next - 1
    <3>1. \/ e \in visited
          \/ Reaches(e, stack[n].index)
          \/ n < N /\ e = stack[n + 1].index
        BY <2>1, <2>3, <1>6 DEF PlanInv, Yielded, N
    <3> QED BY <3>1, <2>1, <1>5, <1>6
  <2>4. k \in 1 .. stack[n].next - 1 \/ (k = stack[n].next /\ n = N)
      BY <2>1, <1>5, <1>6
  <2> QED BY <2>2, <2>3, <2>4
<1>14. (PlacedInOrder /\ PlacedFromRoots)'
    BY <1>3, <1>4 DEF PlanInv, PlacedInOrder, PlacedFromRoots, Before
<1> QED BY <1>10, <1>11, <1>12, <1>13, <1>14 DEF PlanInv

\* An operation whose references are walked gets its place.
LEMMA FinishKeeps == PlanInv /\ Finish => PlanInv'
<1> SUFFICES ASSUME PlanInv, Finish PROVE PlanInv'
    OBVIOUS
<1> DEFINE N == Len(stack)  i == stack[N].index  L == Len(steps)
<1>1. PlanTypeOK /\ stack # <<>>
    BY DEF Finish, PlanInv, Rooted
<1>2. /\ UNCHANGED <<operations, root>>
      /\ visited' = visited \cup {i} /\ steps' = Append(steps, i)
      /\ stack' = SubSeq(stack, 1, N - 1)
      /\ ~(stack[N].next <= Len(operations[i].refs))
    BY DEF Finish, HasReference, Top
<1>3. /\ Indexes' = Indexes
      /\ \A j, b : IsCreation(j, b)' <=> IsCreation(j, b)
      /\ \A j : DependsOn(j)' = DependsOn(j)
      /\ \A j, k : Reaches(j, k)' <=> Reaches(j, k)
    BY <1>2, SameReferences
<1>4. /\ N \in Nat \ {0} /\ DOMAIN stack = 1 .. N /\ L \in Nat /\ DOMAIN steps = 1 .. L
      /\ \A n \in 1 .. N : /\ stack[n] \in Frames
                           /\ stack[n].index \in Indexes /\ stack[n].next \in Nat \ {0}
      /\ i \in Indexes /\ steps \in Seq(Indexes)
    BY <1>1, Stacked
<1>5. /\ stack' \in Seq(Frames) /\ Len(stack') = N - 1 /\ DOMAIN stack' = 1 .. N - 1
      /\ \A n \in 1 .. N - 1 : stack'[n] = stack[n]
  <2>1. /\ stack' \in Seq(Frames) /\ Len(stack') = N - 1
        /\ \A n \in 1 .. N - 1 : stack'[n] = stack[n]
      BY <1>2, <1>4, SubSeqProperties
  <2> QED BY <2>1, LenProperties
<1>6. /\ steps' \in Seq(Indexes) /\ DOMAIN steps' = 1 .. L + 1
      /\ \A n \in 1 .. L : steps'[n] = steps[n]
      /\ steps'[L + 1] = i
    BY <1>2, <1>4, Appended
<1> HIDE DEF N, i, L
<1>7. i \notin visited /\ \A n \in 1 .. L : steps[n] # i
    BY <1>4 DEF PlanInv, PlacedOnce, Place, i
<1>8. Rooted'
  <2>1. PlanTypeOK'
      BY <1>2, <1>3, <1>4, <1>5, <1>6 DEF PlanInv, Rooted, PlanTypeOK, Frames
  <2>2. stack' # <<>> => N - 1 > 0
      BY <1>4, <1>5, EmptySeq
  <2> QED BY <1>1, <1>2, <1>3, <1>4, <1>5, <2>1, <2>2 DEF PlanInv, Rooted
<1>9. PlacedOnce'
  <2>1. \A j \in Indexes : j \in visited' <=> Place(j)'
    <3> SUFFICES ASSUME NEW j \in Indexes
                 PROVE  j \in visited \cup {i} <=> \E n \in 1 .. L + 1 : steps'[n] = j
        BY <1>2, <1>6 DEF Place
    <3>1. j \in visited <=> \E n \in 1 .. L : steps[n] = j
        BY <1>4 DEF PlanInv, PlacedOnce, Place
    <3> QED BY <3>1, <1>4, <1>6
  <2>2. \A m, n \in 1 .. L + 1 : steps'[m] = steps'[n] => m = n
    <3>1. \A m, n \in 1 .. L : steps[m] = steps[n] => m = n
        BY <1>4 DEF PlanInv, PlacedOnce
    <3>2. \A n \in 1 .. L + 1 : n \in 1 .. L \/ n = L + 1
        BY <1>4
    <3> QED BY <3>1, <3>2, <1>6, <1>7
  <2>3. \A n \in 1 .. N - 1 : stack'[n].index \notin visited'
    <3>1. \A n \in 1 .. N - 1 :
              /\ stack[n].index \notin visited
              /\ stack[n].index = stack[N].index => n = N
        BY <1>4 DEF PlanInv, PlacedOnce
    <3> QED BY <3>1, <1>2, <1>4, <1>5 DEF i
  <2>4. \A m, n \in 1 .. N - 1 : stack'[m].index = stack'[n].index => m = n
    <3>1. \A m, n \in 1 .. N : stack[m].index = stack[n].index => m = n
        BY <1>4 DEF PlanInv, PlacedOnce
    <3>2. 1 .. N - 1 \subseteq 1 .. N
        BY <1>4
    <3>3. \A m \in 1 .. N - 1 : stack'[m] = stack[m]
        BY <1>5
    <3> QED BY <3>1, <3>2, <3>3
  <2> QED BY <1>3, <1>5, <1>6, <2>1, <2>2, <2>3, <2>4 DEF PlacedOnce
<1>10. PathOfReferences'
  <2> SUFFICES ASSUME NEW m \in 1 .. N - 1, NEW n \in 1 .. N - 1, m < n
               PROVE  Reaches(stack'[m].index, stack'[n].index)
      BY <1>3, <1>5 DEF PathOfReferences
  <2>1. Reaches(stack[m].index, stack[n].index)
    <3>1. m \in DOMAIN stack /\ n \in DOMAIN stack
        BY <1>4
    <3> QED BY <3>1 DEF PlanInv, PathOfReferences
  <2> QED BY <2>1, <1>5
<1>11. Yielded'
  <2> SUFFICES ASSUME NEW n \in 1 .. N - 1, NEW k \in 1 .. stack'[n].next - 1,
                      NEW d \in Indexes, IsCreation(d, operations[stack'[n].index].refs[k])
               PROVE  \/ d \in visited'
                      \/ Reaches(d, stack'[n].index)
                      \/ n < N - 1 /\ d = stack'[n + 1].index
    <3>1. operations' = operations /\ Len(stack') = N - 1 /\ DOMAIN stack' = 1 .. N - 1
        BY <1>2, <1>5
    <3> QED BY <3>1, <1>3 DEF Yielded
  <2>1. n \in DOMAIN stack /\ n < N /\ stack'[n] = stack[n]
      BY <1>4, <1>5
  <2>2. \/ d \in visited
        \/ Reaches(d, stack[n].index)
        \/ n < N /\ d = stack[n + 1].index
      BY <2>1 DEF PlanInv, Yielded, N
  <2>3. n + 1 = N => stack[n + 1].index = i
      BY DEF i
  <2>4. n + 1 # N => n < N - 1 /\ stack'[n + 1] = stack[n + 1]
      BY <2>1, <1>4, <1>5
  <2> QED BY <2>1, <2>2, <2>3, <2>4, <1>2
<1>12. \A d \in DependsOn(i) : d \in visited \/ Reaches(d, i)
  <2> SUFFICES ASSUME NEW d \in Indexes, NEW k \in DOMAIN operations[i].refs,
                      IsCreation(d, operations[i].refs[k])
               PROVE  d \in visited \/ Reaches(d, i)
      BY DEF DependsOn
  <2>1. k \in 1 .. stack[N].next - 1
    <3>1. operations[i].refs \in Seq(BulkIds)
        BY <1>1, <1>4, OperationsAreAList
    <3>2. k \in 1 .. Len(operations[i].refs) /\ Len(operations[i].refs) \in Nat
        BY <3>1, LenProperties
    <3>3. stack[N].next \in Nat
        BY <1>4
    <3> QED BY <3>2, <3>3, <1>2
  <2>2. N \in DOMAIN stack /\ d \in Indexes /\ stack[N].index = i
      BY <1>4 DEF i
  <2>3. IsCreation(d, operations[stack[N].index].refs[k])
      BY <2>2
  <2>4. \/ d \in visited \/ Reaches(d, stack[N].index)
        \/ N < Len(stack) /\ d = stack[N + 1].index
      BY <2>1, <2>2, <2>3 DEF PlanInv, Yielded
  <2> QED BY <2>2, <2>4, <1>4 DEF N
<1>13. PlacedInOrder'
  <2> DEFINE Precedes(d, n) == \E p, q \in 1 .. L + 1 : p < q /\ steps'[p] = d /\ steps'[q] = steps'[n]
  <2> SUFFICES ASSUME NEW n \in 1 .. L + 1, NEW d \in DependsOn(steps'[n])
               PROVE  Precedes(d, n) \/ Reaches(d, steps'[n])
      BY <1>3, <1>6 DEF PlacedInOrder, Before
  <2>1. CASE n = L + 1
    <3>1. d \in Indexes /\ steps'[n] = i
        BY <2>1, <1>6 DEF DependsOn
    <3>2. CASE d \in visited
      <4>1. PICK m \in 1 .. L : steps[m] = d
          BY <3>1, <3>2, <1>4 DEF PlanInv, PlacedOnce, Place
      <4> QED BY <4>1, <2>1, <1>4, <1>6
    <3> QED BY <3>1, <3>2, <1>12
  <2>2. CASE n \in 1 .. L
    <3>1. steps'[n] = steps[n] /\ d \in DependsOn(steps[n])
        BY <2>2, <1>6
    <3>2. Before(d, steps[n]) \/ Reaches(d, steps[n])
        BY <3>1, <2>2, <1>4 DEF PlanInv, PlacedInOrder
    <3>3. CASE Before(d, steps[n])
      <4>1. PICK p, q \in 1 .. L : p < q /\ steps[p] = d /\ steps[q] = steps[n]
          BY <3>3, <1>4 DEF Before
      <4> QED BY <4>1, <3>1, <1>4, <1>6
    <3> QED BY <3>1, <3>2, <3>3
  <2> QED BY <2>1, <2>2, <1>4
<1>14. PlacedFromRoots'
  <2>0. /\ root' = root /\ Indexes' = Indexes /\ DOMAIN steps' = 1 .. L + 1
        /\ \A j, k : Reaches(j, k)' <=> Reaches(j, k)
      BY <1>2, <1>3, <1>6
  <2> SUFFICES ASSUME NEW n \in 1 .. L + 1
               PROVE  \E r \in 1 .. root :
                         /\ r \in Indexes /\ (steps'[n] = r \/ Reaches(r, steps'[n]))
                         /\ \A j \in 1 .. r - 1 : \E m \in 1 .. n - 1 : steps'[m] = j
      BY <2>0 DEF PlacedFromRoots
  <2>1. CASE n = L + 1
    <3>1. root \in Indexes /\ stack[1].index = root /\ root \in 1 .. root
        BY <1>1, OperationsAreAList DEF PlanInv, Rooted, Indexes
    <3>2. i = root \/ Reaches(root, i)
      <4>1. CASE N = 1
          BY <4>1, <3>1 DEF i
      <4>2. CASE 1 < N
          BY <4>2, <3>1, <1>4 DEF PlanInv, PathOfReferences, i
      <4> QED BY <4>1, <4>2, <1>4
    <3>3. \A j \in 1 .. root - 1 : \E m \in 1 .. L : steps'[m] = j
      <4> SUFFICES ASSUME NEW j \in 1 .. root - 1
                   PROVE  \E m \in 1 .. L : steps'[m] = j
          OBVIOUS
      <4>1. j \in Indexes /\ j \in visited
          BY <3>1, <1>1, OperationsAreAList DEF PlanInv, Rooted, Indexes
      <4>2. PICK m \in 1 .. L : steps[m] = j
          BY <4>1, <1>4 DEF PlanInv, PlacedOnce, Place
      <4> QED BY <4>2, <1>6
    <3>4. n - 1 = L /\ steps'[n] = i
        BY <2>1, <1>4, <1>6
    <3> QED BY <3>1, <3>2, <3>3, <3>4
  <2>2. CASE n \in 1 .. L
    <3>1. PICK r \in 1 .. root :
              /\ r \in Indexes /\ (steps[n] = r \/ Reaches(r, steps[n]))
              /\ \A j \in 1 .. r - 1 : \E m \in 1 .. n - 1 : steps[m] = j
        BY <2>2, <1>4 DEF PlanInv, PlacedFromRoots
    <3>2. steps'[n] = steps[n] /\ \A m \in 1 .. n - 1 : steps'[m] = steps[m]
        BY <2>2, <1>4, <1>6
    <3> QED BY <3>1, <3>2
  <2> QED BY <2>1, <2>2, <1>4
<1> QED BY <1>8, <1>9, <1>10, <1>11, <1>13, <1>14 DEF PlanInv

-----------------------------------------------------------------------------
(***************************************************************************)
(* The theorems.                                                           *)
(***************************************************************************)

\* Nothing but the walk changes what it is about.
LEMMA PlanKept == PlanInv /\ UNCHANGED planVars => PlanInv'
<1> SUFFICES ASSUME PlanInv, UNCHANGED planVars PROVE PlanInv'
    OBVIOUS
<1>1. UNCHANGED <<operations, root, stack, visited, steps>>
    BY DEF planVars
<1>2. /\ Indexes' = Indexes
      /\ \A i, b : IsCreation(i, b)' <=> IsCreation(i, b)
      /\ \A i : DependsOn(i)' = DependsOn(i)
      /\ \A i, j : Reaches(i, j)' <=> Reaches(i, j)
    BY <1>1, SameReferences
<1>3. (Rooted /\ PlacedOnce)'
    BY <1>1, <1>2 DEF PlanInv, Rooted, PlanTypeOK, PlacedOnce, Place
<1>4. (PathOfReferences /\ Yielded)'
    BY <1>1, <1>2 DEF PlanInv, PathOfReferences, Yielded
<1>5. (PlacedInOrder /\ PlacedFromRoots)'
    BY <1>1, <1>2 DEF PlanInv, PlacedInOrder, PlacedFromRoots, Before
<1> QED BY <1>3, <1>4, <1>5 DEF PlanInv

LEMMA PlanStepKeeps == PlanInv /\ [Plan]_planVars => PlanInv'
BY NextRootKeeps, StartRootKeeps, FollowKeeps, SkipKeeps, FinishKeeps, PlanKept
   DEF Plan

\* Each step of a bulk request goes on with the walk, or leaves the plan alone.
LEMMA WalkOrRun == [Next]_vars => [Plan]_planVars
<1>1. Refuse \/ ApplyPost \/ ApplyChange \/ ApplyDelete => UNCHANGED planVars
    BY DEF Refuse, ApplyPost, ApplyChange, ApplyDelete, Fails, Records
<1>2. Others \/ Done \/ UNCHANGED vars => UNCHANGED planVars
    BY DEF Others, Done, vars
<1> QED BY <1>1, <1>2 DEF Next, Progress

\* The walk keeps its invariant: the stack is a path of references between
\* operations that have no place yet, and those that have one came in order
\* (bulk.py plan_steps).
THEOREM PlanInvariant == Spec => []PlanInv
<1>1. Init => PlanInv
    BY PlanAtStart DEF Init
<1>2. PlanInv /\ [Next]_vars => PlanInv'
    BY PlanStepKeeps, WalkOrRun
<1> QED BY <1>1, <1>2, PTL DEF Spec

LEMMA PlannedOnce == PlanInv => EachOperationOnce
<1> SUFFICES ASSUME PlanInv, Planned, NEW i \in Indexes
             PROVE  \E n \in DOMAIN steps :
                        steps[n] = i /\ \A m \in DOMAIN steps : steps[m] = i => m = n
    BY DEF EachOperationOnce
<1>1. i \in visited
    BY OperationsAreAList DEF Planned, PlanInv, Rooted, PlanTypeOK, Indexes
<1> QED BY <1>1 DEF PlanInv, PlacedOnce, Place

LEMMA PlannedCreationsFirst == PlanInv => CreationsFirst
<1> SUFFICES ASSUME PlanInv, Planned, NEW i \in Indexes, NEW d \in DependsOn(i)
             PROVE  Before(d, i) \/ Reaches(d, i)
    BY DEF CreationsFirst
<1>1. PICK n \in DOMAIN steps : steps[n] = i
    BY PlannedOnce DEF EachOperationOnce
<1> QED BY <1>1 DEF PlanInv, PlacedInOrder

\* Every operation has one place in the plan, and only one, whatever the
\* operations reference (bulk.py plan_steps).
THEOREM OperationsRunOnce == Spec => []EachOperationOnce
BY PlanInvariant, PlannedOnce, PTL

\* A creation runs before the operations that reference it, unless it references
\* them in turn (bulk.py plan_steps).
THEOREM CreationsRunFirst == Spec => []CreationsFirst
BY PlanInvariant, PlannedCreationsFirst, PTL

\* The plan leaves the order of the request only for a creation an earlier
\* operation needs (bulk.py plan_steps).
THEOREM PlanFollowsTheRequest == Spec => []OrderOfTheRequest
<1>1. PlanInv => OrderOfTheRequest
  <2> SUFFICES ASSUME PlanInv, NEW m \in DOMAIN steps, NEW n \in DOMAIN steps,
                      m < n, steps[m] > steps[n]
               PROVE  \E i \in 1 .. steps[n] : Reaches(i, steps[m])
      BY DEF OrderOfTheRequest
  <2>1. PICK i \in 1 .. root :
            /\ i \in Indexes /\ (steps[m] = i \/ Reaches(i, steps[m]))
            /\ \A j \in 1 .. i - 1 : \E k \in 1 .. m - 1 : steps[k] = j
      BY DEF PlanInv, PlacedFromRoots
  <2>2. /\ m \in 1 .. Len(steps) /\ n \in 1 .. Len(steps) /\ Len(steps) \in Nat
        /\ DOMAIN steps = 1 .. Len(steps)
        /\ steps[m] \in Nat /\ steps[n] \in Nat \ {0}
      BY Stacked, OperationsAreAList DEF PlanInv, Rooted, Indexes
  <2>3. i \in Nat
      BY <2>1, OperationsAreAList DEF Indexes, PlanInv, Rooted
  <2>4. ~(steps[n] < i)
    <3> SUFFICES ASSUME steps[n] < i PROVE FALSE
        OBVIOUS
    <3>1. PICK k \in 1 .. m - 1 : steps[k] = steps[n]
        BY <2>1, <2>2, <2>3
    <3>2. k \in DOMAIN steps /\ k # n
        BY <2>2
    <3> QED BY <3>1, <3>2 DEF PlanInv, PlacedOnce
  <2> QED BY <2>1, <2>2, <2>3, <2>4
<1> QED BY <1>1, PlanInvariant, PTL

\* What a step of the walk does to the operations it met and to its place.
Descends ==
    /\ Unmet' \subseteq Unmet
    /\ Unmet' = Unmet =>
           \/ Len(stack') < Len(stack)
           \/ Len(stack') = Len(stack) /\ LeftHere' < LeftHere /\ LeftHere > 0

\* The walk met what has its place and what is on its path.
LEMMA MetOrNot ==
    ASSUME NEW i
    PROVE  i \in Unmet <=> i \in Indexes /\ i \notin visited /\ \A n \in DOMAIN stack : stack[n].index # i
BY DEF Unmet, OnPath

\* Starting from an operation, or following a reference to one, meets it.
LEMMA MeetingDescends == PlanInv /\ (StartRoot \/ Follow) => Descends
<1> SUFFICES ASSUME PlanInv, StartRoot \/ Follow PROVE Descends
    OBVIOUS
<1>1. PlanTypeOK /\ Indexes' = Indexes /\ visited' = visited
    BY SameReferences DEF PlanInv, Rooted, StartRoot, Follow
<1>2. ASSUME NEW d \in Unmet, \E n \in DOMAIN stack' : stack'[n].index = d,
             \A n \in DOMAIN stack : \E m \in DOMAIN stack' : stack'[m].index = stack[n].index
      PROVE  Descends
  <2>1. \A i : i \in Unmet' => i \in Unmet
      BY <1>1, <1>2 DEF Unmet, OnPath
  <2>2. d \notin Unmet'
      BY <1>1, <1>2 DEF Unmet, OnPath
  <2> QED BY <2>1, <2>2 DEF Descends
<1>3. CASE StartRoot
  <2>1. stack = <<>> /\ stack' = <<Frame(root)>> /\ root \in Indexes \ visited
      BY <1>3 DEF StartRoot
  <2>2. DOMAIN stack = {} /\ DOMAIN stack' = {1} /\ stack'[1].index = root
      BY <2>1 DEF Frame
  <2>3. root \in Unmet
      BY <2>1, <2>2, MetOrNot
  <2> QED BY <1>2, <2>2, <2>3
<1>4. CASE Follow
  <2>1. PICK d \in Indexes : Follows(d) /\ stack' = Append(Advanced, Frame(d))
      BY <1>4 DEF Follow
  <2>2. /\ DOMAIN stack' = 1 .. Len(stack) + 1
        /\ \A n \in 1 .. Len(stack) : stack'[n].index = stack[n].index
        /\ stack'[Len(stack) + 1].index = d
      BY <1>1, <1>4, <2>1, Pushed DEF Follow
  <2>3. DOMAIN stack = 1 .. Len(stack) /\ Len(stack) \in Nat
      BY <1>1, Stacked
  <2>4. d \in Unmet
      BY <2>1 DEF Follows, Unmet
  <2> QED BY <1>2, <2>2, <2>3, <2>4
<1> QED BY <1>3, <1>4

\* Leaving a reference, or an operation that has its place, is one step less to do.
LEMMA PassingDescends == PlanInv /\ (NextRoot \/ Skip) => Descends
<1> SUFFICES ASSUME PlanInv, NextRoot \/ Skip PROVE Descends
    OBVIOUS
<1>1. PlanTypeOK /\ Indexes' = Indexes /\ visited' = visited /\ operations' = operations
    BY SameReferences DEF PlanInv, Rooted, NextRoot, Skip
<1>2. CASE NextRoot
  <2>1. stack' = stack /\ stack = <<>> /\ root' = root + 1 /\ root \in Indexes
      BY <1>2 DEF NextRoot
  <2>2. Unmet' = Unmet
      BY <1>1, <2>1 DEF Unmet, OnPath
  <2>3. LeftHere' < LeftHere /\ LeftHere > 0
      BY <1>1, <2>1, OperationsAreAList DEF LeftHere, Indexes
  <2> QED BY <2>1, <2>2, <2>3 DEF Descends
<1>3. CASE Skip
  <2>1. stack # <<>> /\ HasReference /\ stack' = Advanced
      BY <1>3 DEF Skip
  <2>2. /\ Len(stack') = Len(stack) /\ DOMAIN stack' = DOMAIN stack
        /\ Len(stack) \in Nat \ {0} /\ DOMAIN stack = 1 .. Len(stack)
        /\ \A n \in DOMAIN stack : stack'[n].index = stack[n].index
        /\ stack'[Len(stack)].next = Top.next + 1
        /\ Top.next \in Nat /\ Top.index \in Indexes
    <3>1. Len(stack) \in Nat \ {0} /\ DOMAIN stack = 1 .. Len(stack)
        BY <1>1, <2>1, Stacked
    <3>2. stack[Len(stack)].next \in Nat /\ stack[Len(stack)].index \in Indexes
        BY <1>1, <3>1, Stacked
    <3>3. /\ Len(Advanced) = Len(stack) /\ DOMAIN Advanced = 1 .. Len(stack)
          /\ \A n \in 1 .. Len(stack) :
                /\ Advanced[n].index = stack[n].index
                /\ Advanced[n].next = IF n = Len(stack) THEN stack[n].next + 1 ELSE stack[n].next
        BY <1>1, <2>1, AdvancedOnce
    <3>4. /\ Len(stack') = Len(stack) /\ DOMAIN stack' = 1 .. Len(stack)
          /\ \A n \in 1 .. Len(stack) :
                /\ stack'[n].index = stack[n].index
                /\ stack'[n].next = IF n = Len(stack) THEN stack[n].next + 1 ELSE stack[n].next
      <4>1. stack' = Advanced
          BY <2>1
      <4> QED BY <3>3, <4>1, Zenon
    <3>5. stack'[Len(stack)].next = stack[Len(stack)].next + 1
      <4>1. Len(stack) \in 1 .. Len(stack)
          BY <3>1
      <4> QED BY <3>4, <4>1, Zenon
    <3> QED BY <3>1, <3>2, <3>4, <3>5 DEF Top
  <2>3. Unmet' = Unmet
      BY <1>1, <2>2 DEF Unmet, OnPath
  <2>4. /\ Top'.index = Top.index /\ Top'.next = Top.next + 1 /\ stack' # <<>>
        /\ Len(operations[Top.index].refs) \in Nat
    <3>1. stack' # <<>>
        BY <2>2, EmptySeq
    <3>2. operations[Top.index].refs \in Seq(BulkIds)
        BY <1>1, <2>2, OperationsAreAList
    <3> QED BY <2>2, <3>1, <3>2, LenProperties DEF Top
  <2>5. Top.next <= Len(operations[Top.index].refs)
      BY <2>1 DEF HasReference
  <2>6. /\ LeftHere = Len(operations[Top.index].refs) + 1 - Top.next
        /\ LeftHere' = Len(operations[Top.index].refs) + 1 - (Top.next + 1)
      BY <1>1, <2>1, <2>4 DEF LeftHere
  <2>7. LeftHere' < LeftHere /\ LeftHere > 0
    <3>1. \A m, n \in Nat : n <= m => m + 1 - (n + 1) < m + 1 - n /\ m + 1 - n > 0
        OBVIOUS
    <3> QED BY <2>2, <2>4, <2>5, <2>6, <3>1
  <2> QED BY <2>2, <2>3, <2>7 DEF Descends
<1> QED BY <1>2, <1>3

\* An operation that gets its place was met already, and leaves the path.
LEMMA FinishDescends == PlanInv /\ Finish => Descends
<1> SUFFICES ASSUME PlanInv, Finish PROVE Descends
    OBVIOUS
<1>1. PlanTypeOK /\ Indexes' = Indexes /\ visited' = visited \cup {Top.index} /\ stack # <<>>
    BY SameReferences DEF PlanInv, Rooted, Finish
<1>2. /\ Len(stack) \in Nat \ {0} /\ stack \in Seq(Frames) /\ DOMAIN stack = 1 .. Len(stack)
    BY <1>1, Stacked
<1>3. /\ Len(stack') = Len(stack) - 1 /\ DOMAIN stack' = 1 .. Len(stack) - 1
      /\ \A n \in 1 .. Len(stack) - 1 : stack'[n] = stack[n]
  <2>1. stack' = SubSeq(stack, 1, Len(stack) - 1)
      BY DEF Finish
  <2> QED BY <1>2, <2>1, SubSeqProperties, LenProperties
<1>4. ASSUME NEW i PROVE i \in Unmet' <=> i \in Unmet
    BY <1>1, <1>2, <1>3 DEF Unmet, OnPath, Top
<1>5. Unmet' = Unmet
    BY <1>4
<1>6. Len(stack') < Len(stack)
    BY <1>2, <1>3
<1> QED BY <1>5, <1>6 DEF Descends

\* The walk of the references cannot go on forever, whatever the operations
\* reference: each of its steps meets an operation for good, or meets none and
\* has less to do (bulk.py plan_steps).
THEOREM WalkEnds == Spec => WalkDescends
<1>1. PlanInv /\ [Next]_vars => [Descends]_planVars
    BY MeetingDescends, PassingDescends, FinishDescends, WalkOrRun DEF Plan
<1>2. [Descends]_planVars <=>
          [/\ Unmet' \subseteq Unmet
           /\ Unmet' = Unmet =>
                  \/ Len(stack') < Len(stack)
                  \/ Len(stack') = Len(stack) /\ LeftHere' < LeftHere /\ LeftHere > 0]_planVars
    BY DEF Descends
<1> QED BY <1>1, <1>2, PlanInvariant, PTL DEF Spec, WalkDescends

-----------------------------------------------------------------------------
(***************************************************************************)
(* The run of the plan.                                                    *)
(***************************************************************************)

\* The operations that have a result are those of the steps that were taken,
\* and none is taken before the plan is known.
TurnTaken ==
    /\ turn \in Nat \ {0} /\ turn <= Len(steps) + 1
    /\ turn > 1 => Planned
    /\ \A i \in Indexes : results[i] # "none" <=> \E n \in 1 .. turn - 1 : steps[n] = i

\* The resource recorded under a bulkId is the one its creation created.
Recorded ==
    \A b \in BulkIds : \A d \in Indexes : IsCreation(d, b) =>
        /\ created[b] # NoId <=> Succeeded(d)
        /\ created[b] # NoId => acted[d] = created[b]

\* A bulkId that no creation has records nothing.
NothingUnknown == \A b \in BulkIds : created[b] # NoId => \E d \in Indexes : IsCreation(d, b)

\* What an operation that succeeded acts on and passes is known.
RunInv ==
    /\ PlanInv /\ TypeOK /\ TurnTaken /\ Recorded /\ NothingUnknown
    /\ ReferencesAreCreations /\ ConflictsExplained /\ CyclesConflict
    /\ errors = Cardinality({i \in Indexes : Failed(i)})
    /\ failOnErrors \in Limits
    /\ failOnErrors # NoLimit => errors <= failOnErrors \/ errors = 1

-----------------------------------------------------------------------------
(***************************************************************************)
(* Facts about requests.                                                   *)
(***************************************************************************)

\* A set of operations has a first one.
LEMMA FirstOfSome ==
    ASSUME NEW S, S \subseteq Nat, S # {}
    PROVE  \E i \in S : \A j \in S : i <= j
<1>1. PICK i \in S : \A j \in S : ~(<<j, i>> \in OpToRel(<, Nat))
    BY NatLessThanWellFounded, WFMin
<1>2. \A j \in S : ~(j < i)
    BY <1>1 DEF OpToRel
<1> QED BY <1>2

\* A bulkId that some POST has has a creation.
LEMMA CreationOfKnown ==
    ASSUME PlanTypeOK, NEW b, Creating(b) # {}
    PROVE  \E d \in Indexes : IsCreation(d, b)
<1>1. Creating(b) \subseteq Nat /\ Creating(b) \subseteq Indexes
    BY OperationsAreAList DEF Creating, Indexes
<1> QED BY <1>1, FirstOfSome DEF IsCreation

\* A plan has no more steps than the request has operations.
LEMMA StepsFit ==
    ASSUME PlanInv
    PROVE  Len(steps) <= Len(operations)
<1>1. /\ Len(steps) \in Nat /\ steps \in [1 .. Len(steps) -> Indexes]
      /\ \A m, n \in 1 .. Len(steps) : steps[m] = steps[n] => m = n
    BY Stacked, LenProperties DEF PlanInv, Rooted, PlacedOnce
<1>2. steps \in Injection(1 .. Len(steps), 1 .. Len(operations))
    BY <1>1 DEF Injection, IsInjective, Indexes
<1>3. /\ Len(operations) \in Nat
      /\ IsFiniteSet(1 .. Len(operations)) /\ Cardinality(1 .. Len(operations)) = Len(operations)
      /\ Cardinality(1 .. Len(steps)) = Len(steps)
  <2>1. Len(operations) \in Nat
      BY OperationsAreAList DEF PlanInv, Rooted
  <2>2. \A n \in Nat : IsFiniteSet(1 .. n) /\ Cardinality(1 .. n) = n
    <3> TAKE n \in Nat
    <3>1. 1 \in Int /\ n \in Int
        OBVIOUS
    <3> QED BY <3>1, FS_Interval
  <2> QED BY <1>1, <2>1, <2>2
<1> QED BY <1>2, <1>3, FS_Injection

\* A request that was received has run nothing.
LEMMA RunAtStart == Init => RunInv
<1> SUFFICES ASSUME Init PROVE RunInv
    OBVIOUS
<1>1. PlanInv /\ Len(operations) \in Nat /\ Len(steps) = 0
    BY PlanAtStart, OperationsAreAList, EmptySeq DEF Init, PlanInit, PlanInv, Rooted
<1>2. TypeOK
  <2>1. /\ results = [i \in Indexes |-> "none"] /\ created = [b \in BulkIds |-> NoId]
        /\ acted = [i \in Indexes |-> NoId] /\ passed = [i \in Indexes |-> {}]
        /\ stored = StoredAtStart /\ turn = 1
      BY DEF Init
  <2>2. turn \in 1 .. Len(operations) + 1
      BY <1>1, <2>1
  <2> QED BY <2>1, <2>2, BulkAssumption DEF TypeOK
<1>3. /\ \A i \in Indexes : results[i] = "none" /\ acted[i] = NoId
      /\ \A b \in BulkIds : created[b] = NoId
      /\ turn = 1 /\ errors = 0 /\ failOnErrors \in Limits
    BY DEF Init
<1>4. TurnTaken /\ Recorded /\ NothingUnknown
    BY <1>1, <1>3 DEF TurnTaken, Recorded, NothingUnknown, Succeeded
<1>5. ReferencesAreCreations /\ ConflictsExplained /\ CyclesConflict
    BY <1>3 DEF ReferencesAreCreations, ConflictsExplained, CyclesConflict, Succeeded
<1>6. {i \in Indexes : Failed(i)} = {}
    BY <1>3 DEF Failed, Failures
<1>7. errors = Cardinality({i \in Indexes : Failed(i)})
    BY <1>3, <1>6, FS_EmptySet
<1>8. failOnErrors # NoLimit => errors <= failOnErrors
    BY <1>3, BulkAssumption
<1> QED BY <1>1, <1>2, <1>3, <1>4, <1>5, <1>7, <1>8 DEF RunInv


-----------------------------------------------------------------------------
(***************************************************************************)
(* The steps of a request.                                                 *)
(***************************************************************************)

\* The plan is walked before anything runs.
LEMMA PlanKeepsRun == RunInv /\ Plan /\ UNCHANGED runVars => RunInv'
<1> SUFFICES ASSUME RunInv, Plan, UNCHANGED runVars PROVE RunInv'
    OBVIOUS
<1>1. PlanInv' /\ PlanInv
    BY NextRootKeeps, StartRootKeeps, FollowKeeps, SkipKeeps, FinishKeeps DEF Plan, RunInv
<1>2. ~Planned /\ UNCHANGED operations
    BY <1>1, OperationsAreAList
       DEF Plan, Planned, NextRoot, StartRoot, Follow, Skip, Finish, Indexes, PlanInv, Rooted
<1>3. UNCHANGED <<failOnErrors, turn, results, created, errors, stored, acted, passed, others>>
    BY DEF runVars
<1>4. /\ Indexes' = Indexes
      /\ \A i, b : IsCreation(i, b)' <=> IsCreation(i, b)
    BY <1>2, SameReferences
<1>5. turn = 1 /\ \A i \in Indexes : results[i] = "none"
    BY <1>1, <1>2, Stacked DEF RunInv, TurnTaken, PlanInv, Rooted
<1>6. Len(steps') \in Nat
    BY <1>1, LenProperties DEF PlanInv, Rooted, PlanTypeOK
<1>7. TypeOK' /\ TurnTaken'
    BY <1>2, <1>3, <1>4, <1>5, <1>6 DEF RunInv, TypeOK, TurnTaken
<1>8. (Recorded /\ NothingUnknown)'
    BY <1>3, <1>4 DEF RunInv, Recorded, NothingUnknown, Succeeded
<1>9. (ReferencesAreCreations /\ ConflictsExplained /\ CyclesConflict)'
    BY <1>3, <1>4, <1>5 DEF ReferencesAreCreations, ConflictsExplained, CyclesConflict, Succeeded
<1>10. {i \in Indexes' : Failed(i)'} = {i \in Indexes : Failed(i)}
    BY <1>3, <1>4 DEF Failed
<1> QED BY <1>1, <1>3, <1>7, <1>8, <1>9, <1>10 DEF RunInv

\* What the steps of a running request have in common: the operation whose turn
\* it is fails, or succeeds on a resource.
Failing ==
    /\ Running
    /\ \E status \in Failures :
          /\ Fails(Current, status)
          /\ Refusal(Current) # "none" => status = Refusal(Current)
          /\ Refusal(Current) = "none" => status # "conflict"

Succeeding ==
    /\ Running /\ Refusal(Current) = "none" /\ stored' \subseteq Ids
    /\ \E id \in Ids :
          /\ Passes(Current, id)
          /\ operations[Current].target \in BulkIds => id = Target(Current)
          /\ \E known \in {id, NoId} :
                /\ Records(Current, "ok", known)
                /\ operations[Current].method = "post" => known = id

\* The operation whose turn it is has no result yet.
LEMMA CurrentIsNew ==
    ASSUME RunInv, Running
    PROVE  /\ turn \in 1 .. Len(steps) /\ turn \in DOMAIN steps
           /\ Current \in Indexes /\ results[Current] = "none"
<1>1. /\ turn \in 1 .. Len(steps) /\ DOMAIN steps = 1 .. Len(steps)
      /\ Len(steps) \in Nat /\ Current \in Indexes
    BY Stacked DEF Running, RunInv, TurnTaken, Current, PlanInv, Rooted
<1>2. \A n \in 1 .. turn - 1 : steps[n] # steps[turn]
    BY <1>1 DEF RunInv, PlanInv, PlacedOnce
<1> QED BY <1>1, <1>2 DEF RunInv, TurnTaken, Current

\* Each step fails or succeeds.
LEMMA FailsOrSucceeds ==
    ASSUME RunInv, Refuse \/ ApplyPost \/ ApplyChange \/ ApplyDelete
    PROVE  Failing \/ Succeeding
<1>1. Running /\ Current \in Indexes
    BY CurrentIsNew DEF Refuse, ApplyPost, ApplyChange, ApplyDelete
<1>2. /\ operations[Current].route \in {"routed", "unreadable", "notFound", "methodNotAllowed", "invalid"}
      /\ operations[Current].route = "unreadable" => ~operations[Current].valid
      /\ operations[Current].method = "post" /\ operations[Current].route = "routed"
            => operations[Current].target = NoId
    BY <1>1, BulkRequestsAssumption, BulkAssumption
       DEF RunInv, PlanInv, Rooted, PlanTypeOK, Indexes
<1>3. Refusal(Current) \in Failures \cup {"none"}
    BY <1>2 DEF Refusal, Failures
<1>4. stored \subseteq Ids /\ NoId \notin BulkIds
    BY BulkAssumption DEF RunInv, TypeOK
<1>5. "refused" \in Failures \ {"conflict"} /\ "notFound" \in Failures \ {"conflict"}
    BY DEF Failures
<1>6. CASE Refuse
    BY <1>3, <1>6 DEF Refuse, Failing
<1>7. CASE ApplyPost
  <2>1. operations[Current].target \notin BulkIds
      BY <1>2, <1>4, <1>7 DEF ApplyPost, Refusal
  <2>2. CASE Fails(Current, "refused")
      BY <2>2, <1>5, <1>7 DEF ApplyPost, Failing
  <2>3. CASE \E id \in Ids \ stored :
                /\ stored' = stored \cup {id}
                /\ Passes(Current, id) /\ Records(Current, "ok", id)
      BY <2>1, <2>3, <1>4, <1>7 DEF ApplyPost, Succeeding
  <2> QED BY <2>2, <2>3, <1>7 DEF ApplyPost
<1>8. CASE ApplyChange
  <2>1. CASE \E status \in {"notFound", "refused"} : Fails(Current, status)
      BY <2>1, <1>5, <1>8 DEF ApplyChange, Failing
  <2>2. CASE /\ Target(Current) \in stored /\ Passes(Current, Target(Current))
             /\ Records(Current, "ok", Target(Current)) /\ UNCHANGED stored
      BY <2>2, <1>4, <1>8 DEF ApplyChange, Succeeding
  <2> QED BY <2>1, <2>2, <1>8 DEF ApplyChange
<1>9. CASE ApplyDelete
  <2>1. CASE \E status \in {"notFound", "refused"} : Fails(Current, status)
      BY <2>1, <1>5, <1>9 DEF ApplyDelete, Failing
  <2>2. CASE /\ Target(Current) \in stored /\ stored' = stored \ {Target(Current)}
             /\ Passes(Current, Target(Current)) /\ Records(Current, "ok", NoId)
      BY <2>2, <1>4, <1>9 DEF ApplyDelete, Succeeding
  <2> QED BY <2>1, <2>2, <1>9 DEF ApplyDelete
<1> QED BY <1>6, <1>7, <1>8, <1>9


\* Recording the result of an operation takes its turn and counts its error.
LEMMA RecordsTakeTurn ==
    ASSUME RunInv, Running, NEW i, i = Current,
           NEW status \in Failures \cup {"ok"}, NEW id, Records(i, status, id)
    PROVE  /\ PlanInv' /\ TurnTaken' /\ turn' \in 1 .. Len(operations) + 1
           /\ failOnErrors' \in Limits
           /\ errors' = Cardinality({j \in Indexes' : Failed(j)'})
           /\ failOnErrors' # NoLimit => errors' <= failOnErrors' \/ errors' = 1
<1>1. /\ UNCHANGED <<planVars, failOnErrors>>
      /\ turn' = turn + 1
      /\ results' = [results EXCEPT ![i] = status]
      /\ errors' = errors + (IF status \in Failures THEN 1 ELSE 0)
    BY DEF Records
<1>2. PlanInv /\ PlanInv' /\ UNCHANGED <<operations, steps, stack, root>>
    BY <1>1, PlanKept DEF RunInv, planVars
<1>3. Indexes' = Indexes
    BY <1>2, SameReferences
<1>4. /\ turn \in 1 .. Len(steps) /\ i \in Indexes /\ results[i] = "none" /\ steps[turn] = i
      /\ Planned /\ Len(steps) \in Nat
    BY CurrentIsNew, <1>2, Stacked DEF Running, Current, PlanInv, Rooted
<1>5. /\ "none" \notin Failures /\ "ok" \notin Failures /\ status # "none"
      /\ results'[i] = status
      /\ \A j \in Indexes : j # i => results'[j] = results[j]
    BY <1>1, <1>4 DEF Failures, RunInv, TypeOK
<1>6. TurnTaken'
  <2>1. \A j \in Indexes : results'[j] # "none" <=> \E n \in 1 .. turn : steps[n] = j
    <3> TAKE j \in Indexes
    <3>1. results[j] # "none" <=> \E n \in 1 .. turn - 1 : steps[n] = j
        BY DEF RunInv, TurnTaken
    <3>2. \A n \in 1 .. turn : n \in 1 .. turn - 1 \/ n = turn
        BY <1>4
    <3>3. CASE j = i
        BY <3>3, <1>4, <1>5
    <3>4. CASE j # i
        BY <3>1, <3>2, <3>4, <1>4, <1>5
    <3> QED BY <3>3, <3>4
  <2>2. /\ turn' \in Nat \ {0} /\ turn' <= Len(steps) + 1 /\ turn' - 1 = turn
        /\ Planned'
      BY <1>1, <1>2, <1>4 DEF Planned
  <2> QED BY <2>1, <2>2, <1>2, <1>3 DEF TurnTaken
<1>7. turn' \in 1 .. Len(operations) + 1
  <2>1. Len(steps) <= Len(operations) /\ Len(operations) \in Nat
      BY <1>2, StepsFit, OperationsAreAList DEF PlanInv, Rooted
  <2> QED BY <2>1, <1>1, <1>4
<1> DEFINE F == {j \in Indexes : Failed(j)}
<1>8. IsFiniteSet(F) /\ errors = Cardinality(F) /\ errors \in Nat
  <2>1. Len(operations) \in Nat /\ IsFiniteSet(1 .. Len(operations))
    <3>1. 1 \in Int /\ Len(operations) \in Int /\ Len(operations) \in Nat
        BY <1>2, OperationsAreAList DEF PlanInv, Rooted
    <3> QED BY <3>1, FS_Interval
  <2>2. F \in SUBSET (1 .. Len(operations))
      BY DEF Indexes
  <2>3. IsFiniteSet(F)
      BY <2>1, <2>2, FS_Subset
  <2> QED BY <2>3, FS_CardinalityType DEF RunInv
<1>9. {j \in Indexes' : Failed(j)'} = IF status \in Failures THEN F \cup {i} ELSE F
    BY <1>3, <1>4, <1>5 DEF Failed
<1>10. i \notin F
    BY <1>4, <1>5 DEF Failed
<1>11. errors' = Cardinality({j \in Indexes' : Failed(j)'})
  <2> HIDE DEF F
  <2>1. Cardinality(F \cup {i}) = errors + 1
      BY <1>8, <1>10, FS_AddElement
  <2>2. CASE status \in Failures
      BY <2>1, <2>2, <1>1, <1>9
  <2>3. CASE status \notin Failures
    <3>1. errors' = errors + 0
        BY <2>3, <1>1
    <3>2. {j \in Indexes' : Failed(j)'} = F
        BY <2>3, <1>9
    <3>3. errors' = errors
        BY <3>1, <1>8
    <3> QED BY <3>2, <3>3, <1>8
  <2> QED BY <2>2, <2>3
<1>12. failOnErrors' # NoLimit => errors' <= failOnErrors' \/ errors' = 1
  <2> SUFFICES ASSUME failOnErrors # NoLimit PROVE errors' <= failOnErrors \/ errors' = 1
      BY <1>1
  <2>1. failOnErrors \in Nat /\ (errors <= failOnErrors \/ errors = 1)
      BY BulkAssumption DEF RunInv
  <2>2. errors = 0 \/ errors < failOnErrors
      BY <2>1, <1>8 DEF Running, Stopped
  <2> QED BY <2>1, <2>2, <1>1, <1>8
<1> QED BY <1>1, <1>2, <1>6, <1>7, <1>11, <1>12 DEF RunInv

\* A creation that an operation waits for and that ran has failed, and one that
\* did not run is part of a circular reference.
LEMMA ConflictHasReason ==
    ASSUME RunInv, Running, NEW i, i = Current, Unresolved(i)
    PROVE  \/ \E n \in DOMAIN operations[i].refs : Creating(operations[i].refs[n]) = {}
           \/ \E d \in DependsOn(i) : Failed(d) \/ Reaches(d, i)
<1>1. /\ turn \in 1 .. Len(steps) /\ i \in Indexes /\ steps[turn] = i
      /\ DOMAIN steps = 1 .. Len(steps) /\ Len(steps) \in Nat /\ PlanInv /\ PlanTypeOK
    BY CurrentIsNew, Stacked DEF Running, Current, RunInv, PlanInv, Rooted
<1>2. PICK n \in DOMAIN operations[i].refs : created[operations[i].refs[n]] = NoId
    BY DEF Unresolved
<1> SUFFICES ASSUME Creating(operations[i].refs[n]) # {}
             PROVE  \E d \in DependsOn(i) : Failed(d) \/ Reaches(d, i)
    OBVIOUS
<1>3. PICK d \in Indexes : IsCreation(d, operations[i].refs[n])
    BY <1>1, CreationOfKnown
<1>4. d \in DependsOn(i) /\ operations[i].refs[n] \in BulkIds
    BY <1>1, <1>2, <1>3, OperationsAreAList, LenProperties, ElementOfSeq DEF DependsOn
<1>5. CASE Before(d, i)
  <2>1. PICK p, q \in DOMAIN steps : p < q /\ steps[p] = d /\ steps[q] = i
      BY <1>5 DEF Before
  <2>2. q = turn
      BY <1>1, <2>1 DEF PlanInv, PlacedOnce
  <2>3. results[d] # "none"
      BY <1>1, <2>1, <2>2, <1>3 DEF RunInv, TurnTaken
  <2>4. ~Succeeded(d)
      BY <1>2, <1>3, <1>4 DEF RunInv, Recorded
  <2> QED BY <2>3, <2>4, <1>3, <1>4 DEF Succeeded, Failed, RunInv, TypeOK
<1>6. CASE Reaches(d, i)
    BY <1>4, <1>6
<1> QED BY <1>1, <1>4, <1>5, <1>6 DEF PlanInv, PlacedInOrder

\* What an operation whose references are resolved references has succeeded.
LEMMA ResolvedDependencies ==
    ASSUME RunInv, NEW i \in Indexes, ~Unresolved(i), NEW n \in DOMAIN operations[i].refs
    PROVE  \E d \in DependsOn(i) :
              /\ d \in Indexes /\ Succeeded(d)
              /\ IsCreation(d, operations[i].refs[n]) /\ acted[d] = created[operations[i].refs[n]]
<1>1. operations[i].refs[n] \in BulkIds /\ created[operations[i].refs[n]] # NoId
    BY OperationsAreAList, LenProperties, ElementOfSeq DEF Unresolved, RunInv, PlanInv, Rooted
<1>2. PICK d \in Indexes : IsCreation(d, operations[i].refs[n])
    BY <1>1 DEF RunInv, NothingUnknown
<1> QED BY <1>1, <1>2 DEF RunInv, Recorded, DependsOn

\* No operation of a cycle has its references resolved.
LEMMA CyclesUnresolved ==
    ASSUME RunInv, NEW i \in Indexes, results[i] = "none", Reaches(i, i)
    PROVE  Unresolved(i)
<1> SUFFICES ASSUME ~Unresolved(i) PROVE FALSE
    OBVIOUS
<1> DEFINE S == {j \in Indexes : Succeeded(j)}
<1>1. DependsOn(i) \subseteq S
  <2> SUFFICES ASSUME NEW d \in DependsOn(i) PROVE d \in S
      OBVIOUS
  <2>1. PICK n \in DOMAIN operations[i].refs : IsCreation(d, operations[i].refs[n])
      BY DEF DependsOn
  <2>2. PICK e \in Indexes : Succeeded(e) /\ IsCreation(e, operations[i].refs[n])
      BY <2>1, ResolvedDependencies
  <2>3. d = e
      BY <2>1, <2>2, OneCreation DEF RunInv, PlanInv, Rooted
  <2> QED BY <2>2, <2>3
<1>2. \A j \in S : DependsOn(j) \subseteq S
    BY DEF RunInv, ReferencesAreCreations, DependsOn
<1>3. i \in S
    BY <1>1, <1>2 DEF Reaches
<1> QED BY <1>3 DEF Succeeded

\* An operation that is reached is the creation of its bulkId.
LEMMA ReachedIsNoDuplicate ==
    ASSUME NEW i \in Indexes, Reaches(i, i)
    PROVE  ~Duplicate(i)
<1> DEFINE S == {j \in Indexes : \E b : IsCreation(j, b)}
<1>1. \A k : DependsOn(k) \subseteq S
    BY DEF DependsOn
<1>2. i \in S
    BY <1>1 DEF Reaches
<1> QED BY <1>2 DEF Duplicate, IsCreation, Creating


\* An operation whose references are not resolved is refused for them, unless it
\* is refused before.
LEMMA RefusedForReferences ==
    ASSUME RunInv, NEW i \in Indexes
    PROVE  /\ Refusal(i) = "conflict" => Unresolved(i)
           /\ Unresolved(i) => Refusal(i) # "none"
           /\ Unresolved(i) /\ ~Duplicate(i) /\ operations[i].route \in {"routed", "unreadable"}
                 => Refusal(i) = "conflict"
<1>1. operations[i].route \in {"routed", "unreadable", "notFound", "methodNotAllowed", "invalid"}
    BY BulkRequestsAssumption, BulkAssumption DEF RunInv, PlanInv, Rooted, PlanTypeOK, Indexes
<1> QED BY <1>1 DEF Refusal

\* What an operation that failed leaves as it was.
LEMMA FailingKeeps == RunInv /\ Failing => RunInv'
<1> SUFFICES ASSUME RunInv, Failing PROVE RunInv'
    OBVIOUS
<1>1. PICK i : i = Current
    OBVIOUS
<1>2. PICK status \in Failures :
          /\ Fails(i, status)
          /\ Refusal(i) # "none" => status = Refusal(i)
          /\ Refusal(i) = "none" => status # "conflict"
    BY <1>1 DEF Failing
<1>3. Records(i, status, NoId) /\ UNCHANGED <<stored, acted, passed>> /\ Running
    BY <1>2 DEF Fails, Failing
<1>4. i \in Indexes /\ results[i] = "none"
    BY <1>1, <1>3, CurrentIsNew
<1>5. /\ PlanInv' /\ TurnTaken' /\ turn' \in 1 .. Len(operations) + 1
      /\ failOnErrors' \in Limits
      /\ errors' = Cardinality({j \in Indexes' : Failed(j)'})
      /\ failOnErrors' # NoLimit => errors' <= failOnErrors' \/ errors' = 1
    BY <1>1, <1>2, <1>3, RecordsTakeTurn
<1>6. /\ UNCHANGED <<operations, root, stack, visited, steps>>
      /\ results' = [results EXCEPT ![i] = status]
      /\ created' = created
    BY <1>3, <1>2 DEF Records, planVars, RunInv, TypeOK
<1>7. /\ Indexes' = Indexes
      /\ \A j, b : IsCreation(j, b)' <=> IsCreation(j, b)
      /\ \A j : DependsOn(j)' = DependsOn(j)
      /\ \A j, k : Reaches(j, k)' <=> Reaches(j, k)
    BY <1>6, SameReferences
<1>8. /\ status # "ok" /\ status # "none" /\ results'[i] = status
      /\ \A j \in Indexes : j # i => results'[j] = results[j]
      /\ \A j \in Indexes : Succeeded(j)' <=> Succeeded(j)
      /\ \A j \in Indexes : Failed(j)' <=> Failed(j) \/ j = i
    BY <1>4, <1>6 DEF Succeeded, Failed, Failures, RunInv, TypeOK
<1>9. TypeOK'
    BY <1>3, <1>5, <1>6, <1>7 DEF RunInv, TypeOK
<1>10. (Recorded /\ NothingUnknown)'
    BY <1>3, <1>6, <1>7, <1>8 DEF RunInv, Recorded, NothingUnknown
<1>11. ReferencesAreCreations'
    BY <1>3, <1>6, <1>7, <1>8 DEF RunInv, ReferencesAreCreations, Before, DependsOn
<1>12. ConflictsExplained'
  <2>1. \A b : Creating(b)' = Creating(b)
      BY <1>6, <1>7 DEF Creating
  <2>2. ASSUME NEW j \in Indexes, results'[j] = "conflict"
        PROVE  \/ \E n \in DOMAIN operations[j].refs : Creating(operations[j].refs[n]) = {}
               \/ \E d \in DependsOn(j) : Failed(d)' \/ Reaches(d, j)
    <3>0. DependsOn(j) \subseteq Indexes
        BY DEF DependsOn
    <3>1. CASE j = i
      <4>1. Unresolved(i)
          BY <3>1, <2>2, <1>2, <1>4, <1>8, RefusedForReferences
      <4> QED BY <4>1, <3>0, <3>1, <1>1, <1>3, <1>8, ConflictHasReason
    <3>2. CASE j # i
        BY <3>2, <3>0, <2>2, <1>8 DEF RunInv, ConflictsExplained
    <3> QED BY <3>1, <3>2
  <2> QED BY <2>1, <2>2, <1>6, <1>7 DEF ConflictsExplained
<1>13. CyclesConflict'
  <2>1. ASSUME NEW j \in Indexes, results'[j] # "none", Reaches(j, j),
               operations[j].route \in {"routed", "unreadable"}
        PROVE  results'[j] = "conflict"
    <3>1. CASE j = i
      <4>1. Unresolved(i) /\ ~Duplicate(i)
          BY <3>1, <2>1, <1>4, CyclesUnresolved, ReachedIsNoDuplicate
      <4> QED BY <4>1, <3>1, <2>1, <1>2, <1>4, <1>8, RefusedForReferences
    <3>2. CASE j # i
        BY <3>2, <2>1, <1>8 DEF RunInv, CyclesConflict
    <3> QED BY <3>1, <3>2
  <2> QED BY <2>1, <1>6, <1>7 DEF CyclesConflict
<1> QED BY <1>5, <1>9, <1>10, <1>11, <1>12, <1>13 DEF RunInv

\* What an operation that succeeded records.
LEMMA SucceedingKeeps == RunInv /\ Succeeding => RunInv'
<1> SUFFICES ASSUME RunInv, Succeeding PROVE RunInv'
    OBVIOUS
<1>1. PICK i : i = Current
    OBVIOUS
<1>2. PICK id \in Ids :
          /\ Passes(i, id)
          /\ operations[i].target \in BulkIds => id = Target(i)
          /\ \E known \in {id, NoId} :
                /\ Records(i, "ok", known)
                /\ operations[i].method = "post" => known = id
    BY <1>1 DEF Succeeding
<1>3. PICK known \in {id, NoId} :
          Records(i, "ok", known) /\ (operations[i].method = "post" => known = id)
    BY <1>2
<1>4. /\ Running /\ Refusal(i) = "none" /\ stored' \subseteq Ids
      /\ turn \in DOMAIN steps /\ steps[turn] = i
      /\ i \in Indexes /\ results[i] = "none" /\ id # NoId
    BY <1>1, CurrentIsNew, BulkAssumption DEF Succeeding, Current
<1>5. /\ PlanInv' /\ TurnTaken' /\ turn' \in 1 .. Len(operations) + 1
      /\ failOnErrors' \in Limits
      /\ errors' = Cardinality({j \in Indexes' : Failed(j)'})
      /\ failOnErrors' # NoLimit => errors' <= failOnErrors' \/ errors' = 1
    BY <1>1, <1>3, <1>4, RecordsTakeTurn
<1>6. /\ UNCHANGED <<operations, root, stack, visited, steps>>
      /\ results' = [results EXCEPT ![i] = "ok"]
      /\ created' = [b \in BulkIds |-> IF known # NoId /\ IsCreation(i, b) THEN known ELSE created[b]]
      /\ acted' = [acted EXCEPT ![i] = id]
      /\ passed' = [passed EXCEPT ![i] = Resolved(i)]
    BY <1>2, <1>3 DEF Records, Passes, planVars, Failures
<1>7. /\ Indexes' = Indexes
      /\ \A j, b : IsCreation(j, b)' <=> IsCreation(j, b)
      /\ \A j : DependsOn(j)' = DependsOn(j)
      /\ \A j, k : Reaches(j, k)' <=> Reaches(j, k)
    BY <1>6, SameReferences
<1>8. /\ results'[i] = "ok" /\ acted'[i] = id /\ passed'[i] = Resolved(i)
      /\ \A j \in Indexes : j # i =>
            results'[j] = results[j] /\ acted'[j] = acted[j] /\ passed'[j] = passed[j]
      /\ \A j \in Indexes : Succeeded(j)' <=> Succeeded(j) \/ j = i
      /\ \A j \in Indexes : Failed(j)' <=> Failed(j)
      /\ ~Succeeded(i)
    BY <1>4, <1>6 DEF Succeeded, Failed, Failures, RunInv, TypeOK
<1>9. /\ \A b \in BulkIds : IsCreation(i, b) => created'[b] = id
      /\ \A b \in BulkIds : ~IsCreation(i, b) => created'[b] = created[b]
    BY <1>3, <1>4, <1>6 DEF IsCreation, Creating
<1>10. ~Unresolved(i)
    BY <1>4, RefusedForReferences
<1>11. \A n \in DOMAIN operations[i].refs :
          operations[i].refs[n] \in BulkIds /\ created[operations[i].refs[n]] \in Ids
    BY <1>4, <1>10, OperationsAreAList, LenProperties, ElementOfSeq
       DEF Unresolved, RunInv, PlanInv, Rooted, TypeOK
<1>12. TypeOK'
  <2>1. Resolved(i) \subseteq Ids
      BY <1>11 DEF Resolved
  <2>2. results' \in [Indexes -> Failures \cup {"none", "ok"}]
      BY <1>6 DEF RunInv, TypeOK
  <2>3. created' \in [BulkIds -> Ids \cup {NoId}]
      BY <1>6 DEF RunInv, TypeOK
  <2>4. acted' \in [Indexes -> Ids \cup {NoId}] /\ passed' \in [Indexes -> SUBSET Ids]
      BY <2>1, <1>6 DEF RunInv, TypeOK
  <2> QED BY <2>2, <2>3, <2>4, <1>4, <1>5, <1>6, <1>7 DEF TypeOK
<1>13. (Recorded /\ NothingUnknown)'
  <2>1. ASSUME NEW b \in BulkIds, NEW d \in Indexes, IsCreation(d, b)
        PROVE  /\ created'[b] # NoId <=> Succeeded(d)'
               /\ created'[b] # NoId => acted'[d] = created'[b]
    <3>1. CASE d = i
        BY <3>1, <2>1, <1>4, <1>8, <1>9
    <3>2. CASE d # i
      <4>1. ~IsCreation(i, b)
          BY <3>2, <2>1, OneCreation DEF RunInv, PlanInv, Rooted
      <4> QED BY <4>1, <3>2, <2>1, <1>8, <1>9 DEF RunInv, Recorded
    <3> QED BY <3>1, <3>2
  <2>2. \A b \in BulkIds : created'[b] # NoId => \E d \in Indexes : IsCreation(d, b)
      BY <1>4, <1>9 DEF RunInv, NothingUnknown
  <2> QED BY <2>1, <2>2, <1>7 DEF Recorded, NothingUnknown
<1>14. \A d \in DependsOn(i) : Succeeded(d) /\ Before(d, i)
  <2> SUFFICES ASSUME NEW d \in DependsOn(i) PROVE Succeeded(d) /\ Before(d, i)
      OBVIOUS
  <2>1. PICK n \in DOMAIN operations[i].refs : IsCreation(d, operations[i].refs[n])
      BY DEF DependsOn
  <2>2. PICK e \in Indexes : Succeeded(e) /\ IsCreation(e, operations[i].refs[n])
      BY <1>4, <1>10, ResolvedDependencies
  <2>3. Succeeded(d) /\ d \in Indexes
      BY <2>1, <2>2, OneCreation DEF RunInv, PlanInv, Rooted
  <2>4. PICK m \in 1 .. turn - 1 : steps[m] = d
      BY <2>3 DEF Succeeded, RunInv, TurnTaken
  <2>5. m \in DOMAIN steps /\ m < turn
      BY <1>4, <2>4, Stacked DEF RunInv, PlanInv, Rooted
  <2> QED BY <2>3, <2>4, <2>5, <1>4 DEF Before
<1>15. Resolved(i) = {acted[d] : d \in DependsOn(i)}
  <2>1. ASSUME NEW n \in DOMAIN operations[i].refs
        PROVE  \E d \in DependsOn(i) : acted[d] = created[operations[i].refs[n]]
      BY <1>4, <1>10, ResolvedDependencies
  <2>2. ASSUME NEW d \in DependsOn(i)
        PROVE  \E n \in DOMAIN operations[i].refs : acted[d] = created[operations[i].refs[n]]
    <3>1. PICK n \in DOMAIN operations[i].refs : d \in Indexes /\ IsCreation(d, operations[i].refs[n])
        BY DEF DependsOn
    <3> QED BY <3>1, <1>11, <1>14 DEF RunInv, Recorded
  <2> QED BY <2>1, <2>2 DEF Resolved
<1>16. operations[i].target \in BulkIds =>
          \E d \in DependsOn(i) : IsCreation(d, operations[i].target) /\ id = acted[d]
  <2> SUFFICES ASSUME operations[i].target \in BulkIds
               PROVE  \E d \in DependsOn(i) : IsCreation(d, operations[i].target) /\ id = acted[d]
      OBVIOUS
  <2>1. /\ Len(operations[i].refs) > 0 /\ operations[i].refs[1] = operations[i].target
        /\ operations[i].refs \in Seq(BulkIds)
      BY <1>4, BulkAssumption, BulkRequestsAssumption
         DEF RunInv, PlanInv, Rooted, PlanTypeOK, Indexes
  <2>2. 1 \in DOMAIN operations[i].refs
      BY <2>1, LenProperties
  <2>3. id = created[operations[i].target]
      BY <1>2 DEF Target
  <2> QED BY <2>1, <2>2, <2>3, <1>4, <1>10, ResolvedDependencies
<1>17. ReferencesAreCreations'
  <2>1. ASSUME NEW j \in Indexes, Succeeded(j)'
        PROVE  /\ passed'[j] = {acted'[d] : d \in DependsOn(j)}
               /\ \A d \in DependsOn(j) : Succeeded(d)' /\ Before(d, j)
               /\ operations[j].target \in BulkIds =>
                      \E d \in DependsOn(j) :
                          IsCreation(d, operations[j].target) /\ acted'[j] = acted'[d]
    <3>1. CASE j = i
      <4>1. \A d \in DependsOn(i) : d \in Indexes /\ acted'[d] = acted[d] /\ Succeeded(d)'
          BY <1>8, <1>14 DEF DependsOn
      <4> QED BY <4>1, <3>1, <1>8, <1>14, <1>15, <1>16
    <3>2. CASE j # i
      <4>1. Succeeded(j)
          BY <3>2, <2>1, <1>8
      <4>2. \A d \in DependsOn(j) : Succeeded(d) /\ d \in Indexes /\ Before(d, j)
          BY <4>1 DEF RunInv, ReferencesAreCreations, DependsOn
      <4>3. \A d \in DependsOn(j) : acted'[d] = acted[d] /\ Succeeded(d)'
          BY <4>2, <1>8
      <4> QED BY <3>2, <4>1, <4>2, <4>3, <1>8 DEF RunInv, ReferencesAreCreations
    <3> QED BY <3>1, <3>2
  <2> QED BY <2>1, <1>6, <1>7 DEF ReferencesAreCreations, Before
<1>18. ConflictsExplained'
  <2>1. \A b : Creating(b)' = Creating(b)
      BY <1>6, <1>7 DEF Creating
  <2>2. \A j \in Indexes : results'[j] = "conflict" => results[j] = "conflict"
      BY <1>8
  <2>3. \A j : DependsOn(j) \subseteq Indexes
      BY DEF DependsOn
  <2> QED BY <2>1, <2>2, <2>3, <1>6, <1>7, <1>8 DEF RunInv, ConflictsExplained
<1>19. CyclesConflict'
  <2>1. ~Reaches(i, i)
      BY <1>4, <1>10, CyclesUnresolved
  <2> QED BY <2>1, <1>6, <1>7, <1>8 DEF RunInv, CyclesConflict
<1> QED BY <1>5, <1>12, <1>13, <1>17, <1>18, <1>19 DEF RunInv

\* Other requests only change what is stored.
LEMMA OthersKeep == RunInv /\ (Others \/ UNCHANGED vars) => RunInv'
<1> SUFFICES ASSUME RunInv, Others \/ UNCHANGED vars PROVE RunInv'
    OBVIOUS
<1>1. /\ UNCHANGED <<operations, root, stack, visited, steps>> /\ UNCHANGED planVars
      /\ UNCHANGED <<failOnErrors, turn, results, created, errors, acted, passed>>
      /\ stored' = stored \/ \E id \in Ids : stored' \in {stored \cup {id}, stored \ {id}}
    BY DEF Others, vars, planVars, runVars
<1>2. /\ Indexes' = Indexes
      /\ \A j, b : IsCreation(j, b)' <=> IsCreation(j, b)
      /\ \A j : DependsOn(j)' = DependsOn(j)
      /\ \A j, k : Reaches(j, k)' <=> Reaches(j, k)
    BY <1>1, SameReferences
<1>3. PlanInv'
    BY <1>1, PlanKept DEF RunInv
<1>4. TypeOK' /\ TurnTaken'
    BY <1>1, <1>2 DEF RunInv, TypeOK, TurnTaken, Planned
<1>5. (Recorded /\ NothingUnknown)'
    BY <1>1, <1>2 DEF RunInv, Recorded, NothingUnknown, Succeeded
<1>6. ReferencesAreCreations'
    BY <1>1, <1>2 DEF RunInv, ReferencesAreCreations, Succeeded, Before
<1>7. (ConflictsExplained /\ CyclesConflict)'
  <2>1. \A b : Creating(b)' = Creating(b)
      BY <1>1, <1>2 DEF Creating
  <2> QED BY <2>1, <1>1, <1>2 DEF RunInv, ConflictsExplained, CyclesConflict, Failed
<1>8. {j \in Indexes' : Failed(j)'} = {j \in Indexes : Failed(j)}
    BY <1>1, <1>2 DEF Failed
<1> QED BY <1>1, <1>3, <1>4, <1>5, <1>6, <1>7, <1>8 DEF RunInv

LEMMA RunStepKeeps == RunInv /\ [Next]_vars => RunInv'
<1> SUFFICES ASSUME RunInv, [Next]_vars PROVE RunInv'
    OBVIOUS
<1>1. CASE Plan /\ UNCHANGED runVars
    BY <1>1, PlanKeepsRun
<1>2. CASE Refuse \/ ApplyPost \/ ApplyChange \/ ApplyDelete
    BY <1>2, FailsOrSucceeds, FailingKeeps, SucceedingKeeps
<1>3. CASE Others \/ UNCHANGED vars
    BY <1>3, OthersKeep
<1> QED BY <1>1, <1>2, <1>3 DEF Next, Progress, Done

-----------------------------------------------------------------------------
(***************************************************************************)
(* The theorems.                                                           *)
(***************************************************************************)

\* A bulk request keeps its invariant: what is recorded under a bulkId is what its
\* creation created, and the results are those of the steps taken (bulk.py
\* BulkPlan, handler.py run_bulk_step).
THEOREM BulkInvariant == Spec => []RunInv
BY RunAtStart, RunStepKeeps, PTL DEF Spec

\* Each variable of a bulk request keeps its type (bulk.py BulkPlan).
THEOREM BulkTyping == Spec => []TypeOK
<1>1. RunInv => TypeOK
    BY DEF RunInv
<1> QED BY <1>1, BulkInvariant, PTL

\* The references of an operation that succeeded were replaced by the identifiers
\* of the resources this request created (bulk.py resolve, record).
THEOREM ReferencesResolved == Spec => []ReferencesAreCreations
<1>1. RunInv => ReferencesAreCreations
    BY DEF RunInv
<1> QED BY <1>1, BulkInvariant, PTL

\* A conflict has a reason in the request, and an operation of a cycle always ends
\* in one (bulk.py resolve).
THEOREM ConflictsHaveReasons == Spec => []ConflictsExplained
<1>1. RunInv => ConflictsExplained
    BY DEF RunInv
<1> QED BY <1>1, BulkInvariant, PTL

\* No operation of a circular reference runs (bulk.py resolve).
THEOREM CyclesAreConflicts == Spec => []CyclesConflict
<1>1. RunInv => CyclesConflict
    BY DEF RunInv
<1> QED BY <1>1, BulkInvariant, PTL

\* The errors are counted, and failOnErrors stops the request on time and not
\* before (bulk.py stopped, record).
THEOREM ErrorsAreCapped == Spec => []ErrorsCapped
<1>1. RunInv => ErrorsCapped
  <2> SUFFICES ASSUME RunInv, Answered, NEW i \in Indexes, results[i] = "none"
               PROVE  Stopped
      BY DEF RunInv, ErrorsCapped, Stopped
  <2>1. PICK n \in DOMAIN steps : steps[n] = i
      BY PlannedOnce DEF Answered, EachOperationOnce, RunInv
  <2>2. ~(n \in 1 .. turn - 1)
      BY <2>1 DEF RunInv, TurnTaken
  <2>3. ~(turn > Len(steps))
      BY <2>1, <2>2, Stacked DEF RunInv, TurnTaken, PlanInv, Rooted
  <2> QED BY <2>3 DEF Answered
<1> QED BY <1>1, BulkInvariant, PTL

-----------------------------------------------------------------------------
(***************************************************************************)
(* The status of a failed operation.  It is that of the same request alone *)
(* when the data of the operation that could come too early are valid: a   *)
(* PUT or a DELETE, which a single request only reads once it found its    *)
(* resource, and a PATCH that is not supported.                            *)
(***************************************************************************)
DataComeLater(op) ==
    \/ op.method \notin {"post", "patch"}
    \/ op.method = "patch" /\ ~PatchSupported

LaterDataValid ==
    \A request \in BulkRequests : \A i \in DOMAIN request :
        request[i].route = "routed" /\ DataComeLater(request[i]) => request[i].valid

\* What an operation whose turn it is fails with is what it could fail with alone.
LEMMA FailsAsAlone ==
    ASSUME RunInv, LaterDataValid, Refuse \/ ApplyPost \/ ApplyChange \/ ApplyDelete,
           NEW status \in Failures, Fails(Current, status),
           operations[Current].route = "routed", ~Duplicate(Current), ~Unresolved(Current),
           \/ Refuse /\ status = Refusal(Current)
           \/ ~Refuse /\ status = "refused" /\ (operations[Current].method # "post" => Target(Current) \in stored)
           \/ ~Refuse /\ status = "notFound" /\ operations[Current].method # "post" /\ Target(Current) \notin stored
    PROVE  status \in AloneFailures(Current)
<1> DEFINE op == operations[Current]
<1>1. Running /\ Current \in Indexes
    BY CurrentIsNew DEF Refuse, ApplyPost, ApplyChange, ApplyDelete
<1>2. DataComeLater(op) => op.valid
    BY <1>1, BulkRequestsAssumption DEF LaterDataValid, RunInv, PlanInv, Rooted, PlanTypeOK, Indexes
<1>3. Refusal(Current) = IF ~op.allowed THEN "forbidden"
                         ELSE IF ~op.valid THEN "invalid"
                         ELSE IF op.method = "patch" /\ ~PatchSupported THEN "notImplemented"
                         ELSE "none"
    BY DEF Refusal
<1>4. CASE Refuse
    BY <1>2, <1>3, <1>4 DEF Refuse, AloneFailures, DataComeLater
<1>5. CASE ~Refuse
  <2>1. Refusal(Current) = "none"
      BY <1>5 DEF ApplyPost, ApplyChange, ApplyDelete
  <2> QED BY <1>3, <1>5, <2>1 DEF AloneFailures
<1> QED BY <1>4, <1>5

\* A failed operation has the status of the same request alone, when the data that
\* a single request reads last are valid: nothing else makes them differ (bulk.rst;
\* handler.py run_bulk_step).
THEOREM FailuresAsAlone == LaterDataValid /\ Spec => StatusAsAlone
<1> DEFINE AsAlone ==
        \A i \in Indexes :
            /\ results'[i] # results[i] /\ results'[i] \in Failures
            /\ operations[i].route = "routed" /\ ~Duplicate(i) /\ ~Unresolved(i)
            => results'[i] \in AloneFailures(i)
<1>1. LaterDataValid /\ RunInv /\ [Next]_vars => [AsAlone]_vars
  <2> SUFFICES ASSUME LaterDataValid, RunInv, Next, NEW i \in Indexes,
                      results'[i] # results[i], results'[i] \in Failures,
                      operations[i].route = "routed", ~Duplicate(i), ~Unresolved(i)
               PROVE  results'[i] \in AloneFailures(i)
      OBVIOUS
  <2>1. Refuse \/ ApplyPost \/ ApplyChange \/ ApplyDelete
      BY DEF Next, Progress, Others, Done, vars, runVars
  <2>2. Running /\ results \in [Indexes -> Failures \cup {"none", "ok"}]
      BY <2>1 DEF Refuse, ApplyPost, ApplyChange, ApplyDelete, RunInv, TypeOK
  <2>3. PICK status : \E id : Records(Current, status, id)
      BY <2>1 DEF Refuse, ApplyPost, ApplyChange, ApplyDelete, Fails
  <2>4. i = Current /\ results'[i] = status
      BY <2>2, <2>3 DEF Records
  <2>5. status # "ok"
      BY <2>4 DEF Failures
  <2>6. /\ Fails(Current, status)
        /\ \/ Refuse /\ status = Refusal(Current)
           \/ ~Refuse /\ status = "refused"
                 /\ (operations[Current].method # "post" => Target(Current) \in stored)
           \/ ~Refuse /\ status = "notFound" /\ operations[Current].method # "post"
                 /\ Target(Current) \notin stored
    <3>1. \A s, id : Records(Current, s, id) => s = status
        BY <2>2, <2>4 DEF Records
    <3> QED BY <2>1, <2>5, <3>1 DEF Refuse, ApplyPost, ApplyChange, ApplyDelete, Fails
  <2> QED BY <2>1, <2>4, <2>6, FailsAsAlone
<1>2. LaterDataValid => []LaterDataValid
    OBVIOUS
<1> QED BY <1>1, <1>2, BulkInvariant, PTL DEF Spec, StatusAsAlone
=============================================================================
