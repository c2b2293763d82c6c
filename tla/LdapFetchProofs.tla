--------------------------- MODULE LdapFetchProofs ---------------------------
(***************************************************************************)
(* Proofs about LdapFetch for every directory, group and depth limit: the  *)
(* types, that no stranger is ever listed, and that a recursive walk which *)
(* dropped no group returns exactly the members of the reachable groups.   *)
(***************************************************************************)
EXTENDS LdapFetch, FiniteSetTheorems, SequenceTheorems, TLAPS

\* The stack Expand builds: the sub-groups, one level deeper, on the rest.
LEMMA PushedStack ==
  ASSUME NEW S \in SUBSET Group, NEW subs \in Listings(S), NEW d \in Nat,
         NEW rest \in Seq(Entry)
  PROVE  /\ Pushed(subs, d, rest) \in Seq(Entry)
         /\ Range(Pushed(subs, d, rest)) = {[dn |-> g, depth |-> d] : g \in S} \union Range(rest)
<1> DEFINE n == Cardinality(S)
           front == [i \in 1..n |-> [dn |-> subs[i], depth |-> d]]
<1>1. n \in Nat
  BY FiniteAssumption, FS_Subset, FS_CardinalityType
<1>2. subs \in [1..n -> S] /\ \A g \in S : \E i \in 1..n : subs[i] = g
  BY DEF Listings
<1>3. front \in [1..n -> Entry]
  BY <1>2 DEF Entry
<1>4. front \in Seq(Entry)
  BY <1>1, <1>3, SeqDef
<1>5. Len(front) = n
  BY <1>1, <1>3, <1>4, LenProperties
<1>6. Pushed(subs, d, rest) = front \o rest
  BY <1>2 DEF Pushed
<1> DEFINE pushed == front \o rest
<1>7. /\ pushed \in Seq(Entry)
      /\ Len(pushed) = n + Len(rest)
      /\ \A i \in 1..(n + Len(rest)) :
           pushed[i] = IF i <= n THEN front[i] ELSE rest[i - n]
  <2> HIDE DEF front
  <2>1. /\ front \o rest \in Seq(Entry)
        /\ Len(front \o rest) = Len(front) + Len(rest)
        /\ \A i \in 1..(Len(front) + Len(rest)) :
             (front \o rest)[i] = IF i <= Len(front) THEN front[i] ELSE rest[i - Len(front)]
    BY <1>4, ConcatProperties
  <2> QED BY <2>1, <1>5
<1>8. /\ DOMAIN pushed = 1..(n + Len(rest))
      /\ DOMAIN rest = 1..Len(rest) /\ Len(rest) \in Nat
  <2> HIDE DEF front
  <2> HIDE DEF pushed
  <2> QED BY <1>7, LenProperties
<1> DEFINE entries == {[dn |-> g, depth |-> d] : g \in S}
<1>9. \A i \in 1..n : front[i] = [dn |-> subs[i], depth |-> d]
  OBVIOUS
<1> HIDE DEF front, pushed, n
<1>10. ASSUME NEW i \in 1..(n + Len(rest))
       PROVE  pushed[i] \in entries \union Range(rest)
  <2>1. CASE i <= n
    <3>1. i \in 1..n
      BY <2>1, <1>1, <1>8
    <3>2. pushed[i] = front[i] /\ subs[i] \in S
      BY <2>1, <3>1, <1>2, <1>7
    <3> QED BY <3>1, <3>2, <1>9
  <2>2. CASE ~(i <= n)
    <3>1. i - n \in DOMAIN rest
      BY <2>2, <1>1, <1>8
    <3>2. pushed[i] = rest[i - n]
      BY <2>2, <1>7
    <3> QED BY <3>1, <3>2 DEF Range
  <2> QED BY <2>1, <2>2
<1>11. ASSUME NEW e \in entries \union Range(rest)
       PROVE  \E i \in 1..(n + Len(rest)) : pushed[i] = e
  <2>1. CASE e \in entries
    <3>1. PICK i \in 1..n : e = [dn |-> subs[i], depth |-> d]
      BY <2>1, <1>2
    <3>2. i \in 1..(n + Len(rest)) /\ i <= n
      BY <1>1, <1>8
    <3> QED BY <3>1, <3>2, <1>7, <1>9
  <2>2. CASE e \in Range(rest)
    <3>1. PICK j \in 1..Len(rest) : rest[j] = e
      BY <2>2, <1>8 DEF Range
    <3>2. n + j \in 1..(n + Len(rest)) /\ ~(n + j <= n) /\ (n + j) - n = j
      BY <1>1, <1>8
    <3> QED BY <3>1, <3>2, <1>7
  <2> QED BY <2>1, <2>2
<1>12. Range(pushed) = entries \union Range(rest)
  <2> HIDE DEF entries
  <2> QED BY <1>8, <1>10, <1>11 DEF Range
<1>13. Pushed(subs, d, rest) = pushed
  BY <1>6 DEF pushed
<1> QED BY <1>7, <1>12, <1>13

\* Everything on a stack is an entry.
LEMMA StackEntries ==
  ASSUME NEW s \in Seq(Entry)
  PROVE  Range(s) \subseteq Entry
<1>1. DOMAIN s = 1..Len(s) /\ \A i \in 1..Len(s) : s[i] \in Entry
  BY LenProperties, ElementOfSeq
<1> QED BY <1>1 DEF Range

\* The stack is its top on what is left of it.
LEMMA PoppedStack ==
  ASSUME NEW s \in Seq(Entry), s # <<>>
  PROVE  /\ Head(s) \in Entry
         /\ Tail(s) \in Seq(Entry)
         /\ Range(s) = {Head(s)} \union Range(Tail(s))
<1>1. /\ Head(s) \in Entry /\ Tail(s) \in Seq(Entry) /\ Len(Tail(s)) = Len(s) - 1
      /\ \A i \in 1..Len(Tail(s)) : Tail(s)[i] = s[i + 1]
  BY HeadTailProperties
<1>2. /\ DOMAIN s = 1..Len(s) /\ DOMAIN Tail(s) = 1..(Len(s) - 1)
      /\ Len(s) \in Nat \ {0} /\ Head(s) = s[1]
  BY <1>1, LenProperties, EmptySeq
<1>3. ASSUME NEW i \in 1..Len(s)
      PROVE  s[i] \in {Head(s)} \union Range(Tail(s))
  <2>1. CASE i = 1
    BY <2>1, <1>2
  <2>2. CASE i # 1
    <3>1. i - 1 \in DOMAIN Tail(s) /\ Tail(s)[i - 1] = s[i]
      BY <2>2, <1>1, <1>2
    <3> QED BY <3>1 DEF Range
  <2> QED BY <2>1, <2>2
<1>4. ASSUME NEW i \in 1..(Len(s) - 1)
      PROVE  Tail(s)[i] \in Range(s)
  <2>1. i + 1 \in DOMAIN s /\ Tail(s)[i] = s[i + 1]
    BY <1>1, <1>2
  <2> QED BY <2>1 DEF Range
<1>5. Head(s) \in Range(s)
  BY <1>2 DEF Range
<1> QED BY <1>1, <1>2, <1>3, <1>4, <1>5 DEF Range

-----------------------------------------------------------------------------
\* Reachable holds the root, is closed under sub-groups, and lies in every
\* set of groups that is.
LEMMA ReachableIsLeast ==
  ASSUME dir \in Directory
  PROVE  /\ Root \in Reachable
         /\ \A g \in Reachable : dir.sub[g] \subseteq Reachable
         /\ \A C \in SUBSET Group : ClosedFromRoot(C) => Reachable \subseteq C
<1>1. \A g \in Group : dir.sub[g] \subseteq Group
  BY DEF Directory
<1>2. Root \in Reachable
  BY RootAssumption DEF Reachable, ClosedFromRoot
<1>3. ASSUME NEW g \in Reachable, NEW h \in dir.sub[g]
      PROVE  h \in Reachable
  <2>1. g \in Group /\ h \in Group
    BY <1>1, <1>3 DEF Reachable
  <2>2. ASSUME NEW C \in SUBSET Group, ClosedFromRoot(C)
        PROVE  h \in C
    BY <1>3, <2>2 DEF Reachable, ClosedFromRoot
  <2> QED BY <2>1, <2>2 DEF Reachable
<1>4. \A C \in SUBSET Group : ClosedFromRoot(C) => Reachable \subseteq C
  BY DEF Reachable
<1> QED BY <1>2, <1>3, <1>4

\* Types of a directory's parts.
LEMMA DirectoryParts ==
  ASSUME dir \in Directory
  PROVE  /\ \A g \in Group : dir.sub[g] \in SUBSET Group /\ dir.members[g] \in SUBSET Person
         /\ dir.matching \in SUBSET Person /\ dir.named \in SUBSET Person
         /\ Reachable \in SUBSET Group /\ EffectiveMembers \in SUBSET Person
         /\ Expected \in SUBSET Person
<1>1. /\ \A g \in Group : dir.sub[g] \in SUBSET Group /\ dir.members[g] \in SUBSET Person
      /\ dir.matching \in SUBSET Person /\ dir.named \in SUBSET Person
  BY DEF Directory
<1>2. Reachable \in SUBSET Group
  BY DEF Reachable
<1>3. EffectiveMembers \in SUBSET Person
  BY <1>1, <1>2 DEF EffectiveMembers, MembersOf
<1> QED BY <1>1, <1>2, <1>3 DEF Expected

\* Expanding an unvisited group from the top of the stack: the new stack and
\* visited set, as sets of groups.
LEMMA ExpandEffect ==
  ASSUME TypeOK, Expand
  PROVE  /\ Top \in Entry /\ Top \in Range(pending)
         /\ pending' \in Seq(Entry)
         /\ Range(pending) = {Top} \union Range(Popped)
         /\ Range(pending') = {[dn |-> g, depth |-> Top.depth + 1] :
                                 g \in dir.sub[Top.dn] \ visited'} \union Range(Popped)
<1>1. pending \in Seq(Entry) /\ pending # <<>> /\ dir \in Directory
  BY DEF TypeOK, Expand
<1>2. Top \in Entry /\ Popped \in Seq(Entry) /\ Range(pending) = {Top} \union Range(Popped)
  BY <1>1, PoppedStack DEF Top, Popped
<1>3. Top.dn \in Group /\ Top.depth + 1 \in Nat
  BY <1>2 DEF Entry
<1>4. dir.sub[Top.dn] \ visited' \in SUBSET Group
  BY <1>1, <1>3, DirectoryParts
<1>5. PICK subs \in Listings(dir.sub[Top.dn] \ visited') :
        pending' = Pushed(subs, Top.depth + 1, Popped)
  BY DEF Expand
<1> QED BY <1>2, <1>3, <1>4, <1>5, PushedStack

\* The state has the types TypeOK gives it.
THEOREM TypeCorrect == Spec => []TypeOK
<1>1. Init => TypeOK
  BY DirectoryAssumption DEF Init, TypeOK
<1>2. ASSUME TypeOK, [Next]_vars
      PROVE  TypeOK'
  <2> USE <1>2 DEF TypeOK
  <2>1. CASE Connect
    <3>1. <<[dn |-> Root, depth |-> 0]>> \in Seq(Entry)
      BY RootAssumption DEF Entry
    <3> QED BY <2>1, <3>1 DEF Connect, resultVars
  <2>2. CASE SearchOnce
    <3>1. Answer \in SUBSET Person
      BY DirectoryParts, RootAssumption DEF Answer
    <3> QED BY <2>2, <3>1 DEF SearchOnce, resultVars
  <2>3. CASE Fails
    BY <2>3 DEF Fails, walkVars, resultVars
  <2>4. CASE SkipVisited
    BY <2>4, PoppedStack DEF SkipVisited, Popped, resultVars
  <2>5. CASE CutOff
    <3>1. Top \in Entry /\ Popped \in Seq(Entry)
      BY <2>5, PoppedStack DEF CutOff, Top, Popped
    <3>2. Top.dn \in Group
      BY <3>1 DEF Entry
    <3> QED BY <2>5, <3>1, <3>2 DEF CutOff, resultVars
  <2>6. CASE Expand
    <3>1. Top.dn \in Group /\ pending' \in Seq(Entry)
      BY <2>6, ExpandEffect DEF Entry
    <3>2. dir.members[Top.dn] \in SUBSET Person
      BY <3>1, DirectoryParts
    <3> QED BY <2>6, <3>1, <3>2 DEF Expand, resultVars
  <2>7. CASE WalkDone
    BY <2>7 DEF WalkDone, walkVars, resultVars
  <2>8. CASE Build
    <3>1. Cardinality(collected) \in Nat
      BY FiniteAssumption, FS_Subset, FS_CardinalityType
    <3> QED BY <2>8, <3>1 DEF Build, walkVars, WarningsOf
  <2>9. CASE UNCHANGED vars
    BY <2>9 DEF vars
  <2> QED BY <2>1, <2>2, <2>3, <2>4, <2>5, <2>6, <2>7, <2>8, <2>9 DEF Next, Progress, Walk
<1> QED BY <1>1, <1>2, PTL DEF Spec

-----------------------------------------------------------------------------
\* dir and mode never change, so neither does what is defined from them alone.
LEMMA SameQuestion ==
  ASSUME Next
  PROVE  /\ dir' = dir /\ mode' = mode
         /\ Reachable' = Reachable /\ EffectiveMembers' = EffectiveMembers
         /\ Expected' = Expected /\ Answer' = Answer
<1>1. dir' = dir /\ mode' = mode
  BY DEF Next, Progress, Walk, Connect, SearchOnce, Fails, SkipVisited, CutOff, Expand, WalkDone, Build
<1>2. Reachable' = Reachable
  BY <1>1 DEF Reachable, ClosedFromRoot
<1>3. EffectiveMembers' = EffectiveMembers
  BY <1>1, <1>2 DEF EffectiveMembers, MembersOf
<1> QED BY <1>1, <1>2, <1>3 DEF Expected, Answer

\* Members of a reachable group are effective members.
LEMMA MembersAreEffective ==
  ASSUME dir \in Directory, NEW g \in Reachable
  PROVE  dir.members[g] \subseteq EffectiveMembers
BY DEF EffectiveMembers, MembersOf

\* A new call has visited and collected nothing.
LEMMA InitWalkInv == Init => WalkInv
<1> SUFFICES ASSUME Init PROVE WalkInv
  OBVIOUS
<1>1. TypeOK
  BY DirectoryAssumption DEF Init, TypeOK
<1>2. Range(pending) = {}
  BY DEF Init, Range
<1> QED
  BY <1>1, <1>2 DEF Init, WalkInv, Untouched, WalkIsSound, WalkIsThorough, ResultIsFinal,
                    OnlyMembers, DepthIsEarned, SmallTreeUncut, Waiting

\* One iteration that pops a visited group loses nothing.
LEMMA SkipStep ==
  ASSUME WalkInv, TypeOK', SkipVisited
  PROVE  WalkInv'
<1> USE DEF WalkInv
<1>1. Range(pending) = {Top} \union Range(Popped)
  BY PoppedStack DEF SkipVisited, Top, Popped, TypeOK
<1>2. /\ pending' = Popped /\ visited' = visited /\ Top.dn \in visited
      /\ UNCHANGED <<dir, mode, pc, collected, logged, searches, accounts, total, warnings>>
      /\ pc = "expand"
  BY DEF SkipVisited, Fresh, resultVars
<1>3. Waiting = {Top.dn} \union Waiting' /\ Waiting' \union visited' = Waiting \union visited
  BY <1>1, <1>2 DEF Waiting
<1>4. Reachable' = Reachable /\ EffectiveMembers' = EffectiveMembers /\ Expected' = Expected
  BY SameQuestion DEF Next, Progress, Walk
<1>5. WalkIsSound' /\ WalkIsThorough'
  BY <1>2, <1>3, <1>4 DEF WalkIsSound, WalkIsThorough
<1>6. DepthIsEarned'
  BY <1>1, <1>2 DEF DepthIsEarned
<1> QED
  BY <1>2, <1>4, <1>5, <1>6 DEF Untouched, ResultIsFinal, OnlyMembers, SmallTreeUncut

\* Dropping a group for depth: only when more groups are reachable than the
\* depth limit allows, for the dropped group's depth is below the number of
\* groups visited before it.
LEMMA CutStep ==
  ASSUME WalkInv, TypeOK', CutOff
  PROVE  WalkInv'
<1> USE DEF WalkInv
<1>1. Range(pending) = {Top} \union Range(Popped) /\ Top \in Entry
  BY PoppedStack DEF CutOff, Top, Popped, TypeOK
<1>2. /\ pending' = Popped /\ visited' = visited \union {Top.dn} /\ Top.dn \notin visited
      /\ logged' = logged \union {Top.dn} /\ Top.depth > MaxDepth
      /\ UNCHANGED <<dir, mode, pc, collected, searches, accounts, total, warnings>>
      /\ pc = "expand"
  BY DEF CutOff, Fresh, resultVars
<1>3. Waiting = {Top.dn} \union Waiting' /\ Waiting' \union visited' = Waiting \union visited
  BY <1>1, <1>2 DEF Waiting
<1>4. Reachable' = Reachable /\ EffectiveMembers' = EffectiveMembers /\ Expected' = Expected
  BY SameQuestion DEF Next, Progress, Walk
<1>5. WalkIsSound' /\ WalkIsThorough'
  BY <1>2, <1>3, <1>4 DEF WalkIsSound, WalkIsThorough
<1>6. IsFiniteSet(visited) /\ IsFiniteSet(Reachable)
  BY FiniteAssumption, FS_Subset DEF TypeOK, Reachable
<1>7. /\ Cardinality(visited') = Cardinality(visited) + 1
      /\ Cardinality(visited) \in Nat /\ Cardinality(Reachable) \in Nat
  BY <1>2, <1>6, FS_AddElement, FS_CardinalityType
<1>8. DepthIsEarned'
  <2> SUFFICES ASSUME NEW e \in Range(Popped)
               PROVE  e.depth <= Cardinality(visited) + 1
    BY <1>2, <1>7 DEF DepthIsEarned
  <2>1. e.depth <= Cardinality(visited) /\ e \in Range(pending)
    BY <1>1 DEF DepthIsEarned
  <2>2. e.depth \in Nat
    BY <2>1, StackEntries DEF TypeOK, Entry
  <2> QED BY <1>7, <2>1, <2>2
<1>9. SmallTreeUncut'
  <2>1. visited' \subseteq Reachable
    BY <1>2, <1>3, <1>4, <1>5 DEF WalkIsSound
  <2>2. Cardinality(visited) + 1 <= Cardinality(Reachable)
    BY <1>6, <1>7, <2>1, FS_Subset
  <2>3. Top.depth <= Cardinality(visited) /\ Top.depth \in Nat
    BY <1>1 DEF DepthIsEarned, Entry
  <2>4. ~(Cardinality(Reachable) <= MaxDepth + 1)
    BY <1>2, <1>7, <2>2, <2>3, DepthAssumption
  <2> QED BY <1>4, <2>4 DEF SmallTreeUncut
<1> QED
  BY <1>2, <1>4, <1>5, <1>8, <1>9 DEF Untouched, ResultIsFinal, OnlyMembers

\* Expanding a group collects its members and stacks its sub-groups.
LEMMA ExpandStep ==
  ASSUME WalkInv, TypeOK', Expand
  PROVE  WalkInv'
<1> USE DEF WalkInv
<1> DEFINE subs == dir.sub[Top.dn] \ visited'
<1>1. /\ Top \in Entry /\ Top \in Range(pending)
      /\ Range(pending) = {Top} \union Range(Popped)
      /\ Range(pending') = {[dn |-> g, depth |-> Top.depth + 1] : g \in subs} \union Range(Popped)
  BY ExpandEffect
<1>2. /\ visited' = visited \union {Top.dn} /\ Top.dn \notin visited /\ pc = "expand"
      /\ collected' = collected \union dir.members[Top.dn]
      /\ UNCHANGED <<dir, mode, pc, logged, accounts, total, warnings>>
  BY DEF Expand, Fresh, resultVars
<1>3. Waiting' = subs \union {e.dn : e \in Range(Popped)}
      /\ Waiting = {Top.dn} \union {e.dn : e \in Range(Popped)}
  <2> DEFINE stacked == {[dn |-> g, depth |-> Top.depth + 1] : g \in subs}
  <2>1. {e.dn : e \in stacked} = subs
    <3>1. \A e \in stacked : e.dn \in subs
      OBVIOUS
    <3>2. ASSUME NEW g \in subs
          PROVE  \E e \in stacked : e.dn = g
      <4>1. [dn |-> g, depth |-> Top.depth + 1] \in stacked
        OBVIOUS
      <4> QED BY <4>1
    <3> QED BY <3>1, <3>2
  <2> HIDE DEF subs, stacked
  <2>2. Waiting' = {e.dn : e \in stacked} \union {e.dn : e \in Range(Popped)}
    BY <1>1 DEF Waiting, stacked, subs
  <2>3. Waiting = {Top.dn} \union {e.dn : e \in Range(Popped)}
    BY <1>1 DEF Waiting
  <2> QED BY <2>1, <2>2, <2>3
<1>4. Reachable' = Reachable /\ EffectiveMembers' = EffectiveMembers /\ Expected' = Expected
  BY SameQuestion DEF Next, Progress, Walk
<1>5. mode = "recursive" /\ Top.dn \in Reachable /\ dir \in Directory
  BY <1>2, <1>3 DEF WalkIsSound, TypeOK
<1>6. dir.sub[Top.dn] \subseteq Reachable /\ dir.members[Top.dn] \subseteq EffectiveMembers
  BY <1>5, ReachableIsLeast, MembersAreEffective
<1>7. WalkIsSound'
  BY <1>2, <1>3, <1>4, <1>5, <1>6 DEF WalkIsSound
<1>8. WalkIsThorough'
  <2>1. visited \union Waiting \subseteq visited' \union Waiting'
    BY <1>2, <1>3
  <2>2. ASSUME NEW g \in visited' \ logged'
        PROVE  /\ dir.members[g] \subseteq collected'
               /\ dir.sub[g] \subseteq visited' \union Waiting'
    <3>1. CASE g = Top.dn
      BY <3>1, <1>2, <1>3
    <3>2. CASE g # Top.dn
      BY <3>2, <1>2, <1>5, <2>1 DEF WalkIsThorough
    <3> QED BY <3>1, <3>2
  <2> QED BY <1>2, <1>5, <2>1, <2>2 DEF WalkIsThorough
<1>9. OnlyMembers'
  BY <1>2, <1>4, <1>5, <1>6 DEF OnlyMembers, Expected
<1>10. DepthIsEarned'
  <2>1. IsFiniteSet(visited)
    BY FiniteAssumption, FS_Subset DEF TypeOK
  <2>2. Cardinality(visited') = Cardinality(visited) + 1 /\ Cardinality(visited) \in Nat
    BY <1>2, <2>1, FS_AddElement, FS_CardinalityType
  <2>3. ASSUME NEW e \in Range(pending')
        PROVE  e.depth <= Cardinality(visited) + 1
    <3>1. CASE e \in Range(Popped)
      <4>1. e.depth <= Cardinality(visited) /\ e \in Range(pending)
        BY <3>1, <1>1 DEF DepthIsEarned
      <4>2. e.depth \in Nat
        BY <4>1, StackEntries DEF TypeOK, Entry
      <4> QED BY <2>2, <4>1, <4>2
    <3>2. CASE e \notin Range(Popped)
      <4>1. e.depth = Top.depth + 1 /\ Top.depth \in Nat /\ Top.depth <= Cardinality(visited)
        BY <3>2, <1>1 DEF DepthIsEarned, Entry
      <4> QED BY <2>2, <4>1
    <3> QED BY <3>1, <3>2
  <2> QED BY <2>2, <2>3 DEF DepthIsEarned
<1> QED
  BY <1>2, <1>4, <1>7, <1>8, <1>9, <1>10 DEF Untouched, ResultIsFinal, SmallTreeUncut

\* The steps outside the loop.
LEMMA OtherSteps ==
  ASSUME WalkInv, TypeOK', Connect \/ SearchOnce \/ Fails \/ WalkDone \/ Build
  PROVE  WalkInv'
<1> USE DEF WalkInv
<1>1. /\ dir' = dir /\ mode' = mode /\ Reachable' = Reachable
      /\ EffectiveMembers' = EffectiveMembers /\ Expected' = Expected /\ Answer' = Answer
  BY SameQuestion DEF Next, Progress, Walk
<1>2. dir \in Directory /\ mode \in Mode
  BY DEF TypeOK
<1>3. CASE Connect
  <2>1. /\ visited' = {} /\ collected' = {} /\ logged' = {} /\ pc' \in {"search", "expand"}
        /\ accounts' = accounts /\ warnings' = warnings /\ pc = "connect" /\ pending = <<>>
    BY <1>3 DEF Connect, resultVars, Untouched
  <2>2. CASE mode = "recursive"
    <3>1. pending' = <<[dn |-> Root, depth |-> 0]>> /\ pc' = "expand"
      BY <1>3, <2>2 DEF Connect
    <3>2. Range(pending') = {[dn |-> Root, depth |-> 0]}
      BY <3>1 DEF Range
    <3>3. Waiting' = {Root}
      BY <3>2 DEF Waiting
    <3>4. DepthIsEarned'
      BY <2>1, <3>2, FS_EmptySet DEF DepthIsEarned
    <3>5. WalkIsSound' /\ WalkIsThorough'
      BY <1>1, <1>2, <2>1, <2>2, <3>1, <3>3, ReachableIsLeast DEF WalkIsSound, WalkIsThorough
    <3> QED BY <1>1, <2>1, <3>1, <3>4, <3>5
            DEF Untouched, ResultIsFinal, OnlyMembers, SmallTreeUncut
  <2>3. CASE mode # "recursive"
    <3>1. pending' = <<>> /\ pc' = "search"
      BY <1>3, <2>1, <2>3 DEF Connect
    <3>2. Range(pending') = {}
      BY <3>1 DEF Range
    <3> QED BY <1>1, <2>1, <2>3, <3>1, <3>2
            DEF Untouched, WalkIsSound, WalkIsThorough, ResultIsFinal, OnlyMembers,
                DepthIsEarned, SmallTreeUncut, Waiting
  <2> QED BY <2>2, <2>3
<1>4. CASE SearchOnce
  <2>1. /\ pc = "search" /\ pc' = "build" /\ collected' = Answer /\ pending' = <<>>
        /\ UNCHANGED <<visited, logged, pending, accounts, warnings>> /\ mode # "recursive"
    BY <1>4 DEF SearchOnce, resultVars, Untouched, WalkIsSound
  <2>2. Answer \subseteq Expected
    <3>1. dir.members[Root] \subseteq EffectiveMembers
      BY <1>2, ReachableIsLeast, MembersAreEffective
    <3> QED BY <1>2, <2>1, <3>1 DEF Answer, Expected, Mode
  <2>3. Waiting' = Waiting /\ DepthIsEarned'
    BY <2>1 DEF Waiting, DepthIsEarned
  <2> QED BY <1>1, <2>1, <2>2, <2>3
          DEF Untouched, WalkIsSound, WalkIsThorough, ResultIsFinal, OnlyMembers, SmallTreeUncut
<1>5. CASE Fails
  BY <1>1, <1>5 DEF Fails, walkVars, resultVars, Untouched, WalkIsSound, WalkIsThorough,
                    ResultIsFinal, OnlyMembers, DepthIsEarned, SmallTreeUncut, Waiting
<1>6. CASE WalkDone
  BY <1>1, <1>6 DEF WalkDone, walkVars, resultVars, Untouched, WalkIsSound, WalkIsThorough,
                    ResultIsFinal, OnlyMembers, DepthIsEarned, SmallTreeUncut, Waiting
<1>7. CASE Build
  <2>1. /\ pc = "build" /\ pc' = "returned" /\ accounts' = collected \intersect dir.named
        /\ warnings' = WarningsOf(collected) /\ total' = Cardinality(collected)
        /\ UNCHANGED <<pending, visited, collected, logged>>
    BY <1>7 DEF Build, walkVars
  <2>2. WarningsOf(collected)' = WarningsOf(collected)
    BY <1>1, <2>1 DEF WarningsOf
  <2> QED BY <1>1, <2>1, <2>2
          DEF Untouched, WalkIsSound, WalkIsThorough, ResultIsFinal, OnlyMembers,
              DepthIsEarned, SmallTreeUncut, Waiting
<1> QED BY <1>3, <1>4, <1>5, <1>6, <1>7

\* What the walk keeps is inductive.
LEMMA WalkInvariance == Spec => []WalkInv
<1>1. Init => WalkInv
  BY InitWalkInv
<1>2. TypeOK /\ TypeOK' /\ WalkInv /\ [Next]_vars => WalkInv'
  <2> SUFFICES ASSUME TypeOK', WalkInv, [Next]_vars
               PROVE  WalkInv'
    OBVIOUS
  <2>1. CASE Next
    BY <2>1, SkipStep, CutStep, ExpandStep, OtherSteps DEF Next, Progress, Walk
  <2>2. CASE UNCHANGED vars
    BY <2>2 DEF vars, WalkInv, TypeOK, Untouched, WalkIsSound, WalkIsThorough, ResultIsFinal,
                OnlyMembers, DepthIsEarned, SmallTreeUncut, Waiting, Reachable, ClosedFromRoot,
                EffectiveMembers, MembersOf, Expected, Answer, WarningsOf
  <2> QED BY <2>1, <2>2
<1> QED BY <1>1, <1>2, TypeCorrect, PTL DEF Spec

-----------------------------------------------------------------------------
\* One more link, to a group the chain has not visited.
LEMMA LongerChain ==
  ASSUME dir \in Directory, NEW n \in Nat, NEW path \in Chains(n),
         NEW g \in dir.sub[path[n + 1]], \A i \in 1..(n + 1) : path[i] # g
  PROVE  [i \in 1..(n + 2) |-> IF i <= n + 1 THEN path[i] ELSE g] \in Chains(n + 1)
<1> DEFINE longer == [i \in 1..(n + 2) |-> IF i <= n + 1 THEN path[i] ELSE g]
<1>1. /\ path \in [1..(n + 1) -> Group] /\ path[1] = Root
      /\ \A i \in 1..n : path[i + 1] \in dir.sub[path[i]]
      /\ \A i, j \in 1..(n + 1) : path[i] = path[j] => i = j
  BY DEF Chains
<1>2. g \in Group
  BY <1>1, DirectoryParts
<1>3. longer \in [1..(n + 2) -> Group] /\ longer[1] = Root
  BY <1>1, <1>2
<1>4. ASSUME NEW i \in 1..(n + 1)
      PROVE  longer[i + 1] \in dir.sub[longer[i]]
  <2>1. CASE i \in 1..n
    BY <1>1, <2>1
  <2>2. CASE i = n + 1
    BY <2>2
  <2> QED BY <2>1, <2>2
<1>5. ASSUME NEW i \in 1..(n + 2), NEW j \in 1..(n + 2), longer[i] = longer[j]
      PROVE  i = j
  <2>1. CASE i \in 1..(n + 1) /\ j \in 1..(n + 1)
    BY <1>1, <1>5, <2>1
  <2>2. CASE i = n + 2 \/ j = n + 2
    BY <1>5, <2>2
  <2> QED BY <2>1, <2>2
<1> HIDE DEF longer
<1>6. longer \in Chains(n + 1)
  <2>1. (n + 1) + 1 = n + 2
    OBVIOUS
  <2> QED BY <1>3, <1>4, <1>5, <2>1 DEF Chains
<1> QED BY <1>6 DEF longer

\* A chain holds all shorter ones.
LEMMA ShorterChain ==
  ASSUME NEW n \in Nat, NEW m \in 0..n, NEW path \in Chains(n)
  PROVE  [i \in 1..(m + 1) |-> path[i]] \in Chains(m)
BY DEF Chains

\* No step changes the chains, for no step changes the directory.
LEMMA SameChains ==
  ASSUME dir' = dir
  PROVE  \A n : Chains(n)' = Chains(n)
BY DEF Chains

LEMMA ExpandedChains ==
  ASSUME WalkInv, DepthIsChain, Expand
  PROVE  DepthIsChain'
<1>1. /\ Top \in Entry /\ Top \in Range(pending)
      /\ Range(pending) = {Top} \union Range(Popped)
      /\ Range(pending') = {[dn |-> g, depth |-> Top.depth + 1] :
                              g \in dir.sub[Top.dn] \ visited'} \union Range(Popped)
  BY ExpandEffect DEF WalkInv
<1>2. visited' = visited \union {Top.dn} /\ dir' = dir /\ dir \in Directory
  BY DEF Expand, WalkInv, TypeOK
<1>3. ASSUME NEW e \in Range(pending')
      PROVE  \E path \in Chains(e.depth) :
               path[e.depth + 1] = e.dn /\ \A i \in 1..e.depth : path[i] \in visited'
  <2>1. CASE e \in Range(Popped)
    BY <1>1, <1>2, <2>1 DEF DepthIsChain
  <2>2. CASE e \notin Range(Popped)
    <3>1. PICK g \in dir.sub[Top.dn] \ visited' : e = [dn |-> g, depth |-> Top.depth + 1]
      BY <1>1, <2>2
    <3> DEFINE d == Top.depth
    <3>2. d \in Nat
      BY <1>1 DEF Entry
    <3>3. PICK path \in Chains(d) :
            path[d + 1] = Top.dn /\ \A i \in 1..d : path[i] \in visited
      BY <1>1 DEF DepthIsChain
    <3>4. \A i \in 1..(d + 1) : path[i] \in visited'
      BY <1>2, <3>2, <3>3
    <3> DEFINE longer == [i \in 1..(d + 2) |-> IF i <= d + 1 THEN path[i] ELSE g]
    <3>5. longer \in Chains(d + 1)
      <4>1. g \in dir.sub[path[d + 1]] /\ \A i \in 1..(d + 1) : path[i] # g
        BY <3>1, <3>3, <3>4
      <4> HIDE DEF d
      <4> QED BY <1>2, <3>2, <3>3, <4>1, LongerChain
    <3>6. longer[(d + 1) + 1] = g /\ \A i \in 1..(d + 1) : longer[i] \in visited'
      BY <3>2, <3>4
    <3>7. e.depth = d + 1 /\ e.dn = g
      BY <3>1
    <3> HIDE DEF longer, d
    <3> QED BY <3>5, <3>6, <3>7
  <2> QED BY <2>1, <2>2
<1> QED BY <1>2, <1>3, SameChains DEF DepthIsChain

\* Steps that stack nothing.
LEMMA ChainsKept ==
  ASSUME DepthIsChain, dir' = dir, visited \subseteq visited', Range(pending') \subseteq Range(pending)
  PROVE  DepthIsChain'
BY SameChains DEF DepthIsChain

LEMMA ChainStep ==
  ASSUME WalkInv, DepthIsChain, [Next]_vars
  PROVE  DepthIsChain'
<1>1. CASE Expand
  BY <1>1, ExpandedChains
<1>2. CASE SkipVisited \/ CutOff
  <2>1. pending \in Seq(Entry) /\ pending # <<>> /\ pending' = Popped
    BY <1>2 DEF SkipVisited, CutOff, WalkInv, TypeOK
  <2>2. Range(pending') \subseteq Range(pending)
    BY <2>1, PoppedStack DEF Popped
  <2>3. dir' = dir /\ visited \subseteq visited'
    BY <1>2 DEF SkipVisited, CutOff
  <2> QED BY <2>2, <2>3, ChainsKept
<1>3. CASE Connect
  <2>1. dir' = dir /\ (pending' = <<[dn |-> Root, depth |-> 0]>> \/ pending' = pending)
        /\ visited' = visited
    BY <1>3 DEF Connect
  <2>2. CASE pending' = pending
    BY <2>1, <2>2, ChainsKept
  <2>3. CASE pending' = <<[dn |-> Root, depth |-> 0]>>
    <3>1. Range(pending') = {[dn |-> Root, depth |-> 0]}
      BY <2>3 DEF Range
    <3>2. [i \in 1..1 |-> Root] \in Chains(0)'
      BY RootAssumption DEF Chains
    <3> QED BY <3>1, <3>2 DEF DepthIsChain
  <2> QED BY <2>1, <2>2, <2>3
<1>4. CASE SearchOnce \/ Fails \/ WalkDone \/ Build \/ UNCHANGED vars
  BY <1>4, ChainsKept DEF SearchOnce, Fails, WalkDone, Build, walkVars, vars
<1> QED BY <1>1, <1>2, <1>3, <1>4 DEF Next, Progress, Walk

\* The invariant the runs check, for every directory and depth limit.
THEOREM Invariance == Spec => []IInv
<1>1. Init => DepthIsChain
  BY DEF Init, DepthIsChain, Range
<1>2. WalkInv /\ DepthIsChain /\ [Next]_vars => DepthIsChain'
  BY ChainStep
<1> QED BY <1>1, <1>2, WalkInvariance, PTL DEF Spec, IInv

\* A group is dropped for its depth only if a chain of more than
\* MAX_NESTING_DEPTH distinct groups leads to it: a cycle is never counted twice.
THEOREM CutsNeedLongChains == Spec => []CutOnlyOnLongChain
<1>1. Init => CutOnlyOnLongChain
  BY DEF Init, CutOnlyOnLongChain
<1>2. IInv /\ CutOnlyOnLongChain /\ [Next]_vars => CutOnlyOnLongChain'
  <2> SUFFICES ASSUME IInv, CutOnlyOnLongChain, [Next]_vars PROVE CutOnlyOnLongChain'
    OBVIOUS
  <2>1. CASE CutOff
    <3>1. Top \in Entry /\ Top \in Range(pending) /\ Top.depth > MaxDepth /\ dir' = dir
      BY <2>1, PoppedStack DEF CutOff, Top, IInv, WalkInv, TypeOK
    <3>2. PICK path \in Chains(Top.depth) : TRUE
      BY <3>1 DEF IInv, DepthIsChain
    <3>3. Top.depth \in Nat /\ MaxDepth + 1 \in 0..Top.depth
      BY <3>1, DepthAssumption DEF Entry
    <3>4. Chains(MaxDepth + 1) # {}
      BY <3>2, <3>3, ShorterChain
    <3> QED BY <3>1, <3>4, SameChains DEF CutOnlyOnLongChain
  <2>2. CASE logged' = logged /\ dir' = dir
    BY <2>2, SameChains DEF CutOnlyOnLongChain
  <2> QED BY <2>1, <2>2 DEF Next, Progress, Walk, Connect, SearchOnce, Fails, SkipVisited,
                            Expand, WalkDone, Build, walkVars, vars
<1> QED BY <1>1, <1>2, Invariance, PTL DEF Spec

\* The recursive strategy sends two searches for each group it expands, and
\* expands none twice.
THEOREM SearchesAreLinear == Spec => []EachGroupSearchedOnce
<1>1. Init => EachGroupSearchedOnce
  <2>1. {} \ {} = {}
    OBVIOUS
  <2> QED BY <2>1, FS_EmptySet DEF Init, EachGroupSearchedOnce
<1>2. WalkInv /\ EachGroupSearchedOnce /\ [Next]_vars => EachGroupSearchedOnce'
  <2> SUFFICES ASSUME WalkInv, EachGroupSearchedOnce, [Next]_vars PROVE EachGroupSearchedOnce'
    OBVIOUS
  <2>1. CASE Expand
    <3>1. Top.dn \notin visited /\ logged \subseteq visited /\ IsFiniteSet(visited \ logged)
      BY <2>1, FiniteAssumption, FS_Subset DEF Expand, Fresh, WalkInv, TypeOK
    <3>2. visited' \ logged' = (visited \ logged) \union {Top.dn}
      BY <2>1, <3>1 DEF Expand
    <3>3. Cardinality(visited' \ logged') = Cardinality(visited \ logged) + 1
          /\ Cardinality(visited \ logged) \in Nat
      BY <3>1, <3>2, FS_AddElement, FS_CardinalityType
    <3>4. searches' = searches + 2 /\ mode' = mode
      BY <2>1 DEF Expand
    <3> QED BY <3>3, <3>4 DEF EachGroupSearchedOnce
  <2>2. CASE CutOff
    <3>1. Top.dn \notin visited /\ logged \subseteq visited
      BY <2>2 DEF CutOff, Fresh, WalkInv, TypeOK
    <3>2. visited' \ logged' = visited \ logged /\ searches' = searches /\ mode' = mode
      BY <2>2, <3>1 DEF CutOff
    <3> QED BY <3>2 DEF EachGroupSearchedOnce
  <2>3. CASE SearchOnce
    BY <2>3 DEF SearchOnce, WalkInv, WalkIsSound, EachGroupSearchedOnce
  <2>4. CASE UNCHANGED <<visited, logged, searches, mode>>
    BY <2>4 DEF EachGroupSearchedOnce
  <2> QED BY <2>1, <2>2, <2>3, <2>4 DEF Next, Progress, Walk, Connect, Fails, SkipVisited,
                                        WalkDone, Build, walkVars, vars
<1> QED BY <1>1, <1>2, WalkInvariance, PTL DEF Spec

-----------------------------------------------------------------------------
\* A walk that ended without a cut visited every reachable group.
LEMMA FullWalk ==
  ASSUME WalkInv, pc \in {"build", "returned"}, mode = "recursive", logged = {}
  PROVE  collected = EffectiveMembers
<1> USE DEF WalkInv
<1>1. Waiting = {} /\ dir \in Directory
  BY DEF ResultIsFinal, Waiting, Range, TypeOK
<1>2. visited \in SUBSET Group /\ ClosedFromRoot(visited)
  BY <1>1 DEF WalkIsThorough, ClosedFromRoot, TypeOK
<1>3. Reachable \subseteq visited
  BY <1>1, <1>2, ReachableIsLeast
<1>4. EffectiveMembers \subseteq collected
  BY <1>3 DEF WalkIsThorough, EffectiveMembers, MembersOf
<1> QED BY <1>4 DEF OnlyMembers, Expected, Mode

\* A finished fetch that cut nothing lists the expected accounts, or warns.
LEMMA ResultIsListing ==
  ASSUME WalkInv, pc = "returned", logged = {}
  PROVE  /\ accounts \subseteq Expected
         /\ accounts # Expected => warnings # {}
<1> USE DEF WalkInv
<1>1. accounts = collected \intersect dir.named /\ warnings = WarningsOf(collected)
  BY DEF ResultIsFinal
<1>2. CASE mode = "direct_only" \/ mode = "template"
  <2>1. warnings # {}
    BY <1>1, <1>2 DEF WarningsOf
  <2> QED BY <2>1 DEF OnlyMembers
<1>3. CASE mode = "in_chain" \/ mode = "recursive"
  <2>1. collected = EffectiveMembers /\ Expected = EffectiveMembers
    BY <1>3, FullWalk DEF ResultIsFinal, Answer, Expected
  <2>2. accounts # Expected => "skipped" \in warnings
    BY <1>1, <2>1 DEF WarningsOf
  <2> QED BY <2>2 DEF OnlyMembers
<1> QED BY <1>2, <1>3 DEF TypeOK, Mode

\* No stranger is ever listed.
THEOREM NoStranger == Spec => []OnlyMembers
BY WalkInvariance, PTL DEF WalkInv

\* A walk that logged no cut returns exactly the named effective members.
THEOREM Completeness == Spec => []CompleteUnlessCut
<1>1. WalkInv => CompleteUnlessCut
  BY FullWalk DEF CompleteUnlessCut, WalkInv, ResultIsFinal
<1> QED BY <1>1, WalkInvariance, PTL

\* Up to MAX_NESTING_DEPTH + 1 reachable groups, nothing is ever cut.
THEOREM NoCutInSmallTrees == Spec => []SmallTreeUncut
BY WalkInvariance, PTL DEF WalkInv

\* Until a group is dropped for its depth, every step of the fetch is one the
\* provider contract allows: it raises, lists everyone, or warns.
THEOREM ContractUnlessCut == Spec => ListingSteps
<1> DEFINE Listed ==
      pc = "returned" /\ logged = {} =>
        /\ accounts \subseteq Expected
        /\ accounts # Expected => warnings # {}
<1>1. WalkInv => Listed
  BY ResultIsListing
<1>2. Listed' /\ [Next]_vars => [logged = {} => Listing!Next]_(Listing!listingVars)
  <2> SUFFICES ASSUME Listed', [Next]_vars
               PROVE  [logged = {} => Listing!Next]_(Listing!listingVars)
    OBVIOUS
  <2>1. CASE UNCHANGED vars
    BY <2>1 DEF vars, Listing!listingVars, Expected, EffectiveMembers, MembersOf,
                Reachable, ClosedFromRoot
  <2>2. CASE Next
    <3>1. Expected' = Expected
      BY <2>2, SameQuestion
    <3>2. CASE Build
      <4>1. pc = "build" /\ pc' = "returned" /\ logged' = logged
        BY <3>2 DEF Build, walkVars
      <4>2. logged = {} => /\ accounts' \subseteq Expected
                           /\ accounts' # Expected => warnings' # {}
        BY <3>1, <4>1
      <4> QED BY <3>1, <4>1, <4>2 DEF Listing!Next, Listing!Return
    <3>3. CASE Fails
      BY <3>1, <3>3 DEF Fails, resultVars, Listing!Next, Listing!Raise
    <3>4. CASE Connect \/ SearchOnce \/ Walk
      BY <3>1, <3>4 DEF Connect, SearchOnce, Walk, SkipVisited, CutOff, Expand, WalkDone,
                        resultVars, Listing!listingVars
    <3> QED BY <2>2, <3>2, <3>3, <3>4 DEF Next, Progress
  <2> QED BY <2>1, <2>2
<1> QED BY <1>1, <1>2, WalkInvariance, PTL DEF Spec, ListingSteps

\* The fetch implements the whole contract whenever the directory holds no more
\* than MaxDepth + 1 groups, so that the depth limit never bites.
THEOREM ImplementsListing ==
  ASSUME Cardinality(Group) <= MaxDepth + 1
  PROVE  Spec => ListingSpec
<1>1. Init => Listing!Init
  <2> SUFFICES ASSUME Init PROVE Listing!Init
    OBVIOUS
  <2>1. Expected \in SUBSET Person
    BY DirectoryAssumption, DirectoryParts DEF Init
  <2> QED BY <2>1 DEF Init, Listing!Init
<1>2. WalkInv => logged = {}
  <2> SUFFICES ASSUME WalkInv PROVE Cardinality(Reachable) <= MaxDepth + 1
    BY DEF WalkInv, SmallTreeUncut
  <2>1. Reachable \subseteq Group
    BY DEF Reachable
  <2>2. /\ Cardinality(Reachable) <= Cardinality(Group)
        /\ Cardinality(Reachable) \in Nat /\ Cardinality(Group) \in Nat
    BY <2>1, FiniteAssumption, FS_Subset, FS_CardinalityType
  <2> QED BY <2>2, DepthAssumption
<1>3. logged = {} /\ [logged = {} => Listing!Next]_(Listing!listingVars)
        => [Listing!Next]_(Listing!listingVars)
  OBVIOUS
<1> QED BY <1>1, <1>2, <1>3, ContractUnlessCut, WalkInvariance, PTL
        DEF Spec, ListingSteps, ListingSpec, Listing!Spec
=============================================================================
