------------------------------ MODULE LdapFetch ------------------------------
(***************************************************************************)
(* LdapProvider.fetch (src/app/providers/ldap_provider.py): one fetch of   *)
(* the members of an AD group, by any of the three nesting strategies, or  *)
(* of the accounts a query template selects.  The recursive strategy walks *)
(* the group graph with a stack of (group, depth) pairs and a visited set; *)
(* each iteration of its loop is an action.  A group is its lower-cased    *)
(* DN, the form in which the code keeps and the server compares it.  The   *)
(* directory is fixed during one fetch.                                    *)
(***************************************************************************)
EXTENDS Naturals, Sequences, FiniteSets, Functions

CONSTANTS
  Group,        \* groups, by lower-cased DN
  Person,       \* user objects
  Root,         \* the configured group_dn
  MaxDepth,     \* MAX_NESTING_DEPTH
  Directories   \* the directories a fetch may meet

Mode == {"in_chain", "recursive", "direct_only", "template"}

Directory == [sub      : [Group -> SUBSET Group],    \* groups that are memberOf a group
              members  : [Group -> SUBSET Person],   \* users that are memberOf a group
              matching : SUBSET Person,              \* users the template's filter selects
              named    : SUBSET Person]              \* users with a sAMAccountName

ASSUME FiniteAssumption == IsFiniteSet(Group) /\ IsFiniteSet(Person)
ASSUME RootAssumption == Root \in Group
ASSUME DepthAssumption == MaxDepth \in Nat
ASSUME DirectoryAssumption == Directories \subseteq Directory

VARIABLES
  dir,        \* the directory behind the connection
  mode,       \* nesting_strategy, or "template" when no group_dn is set
  pc,         \* how far fetch() has come
  pending,    \* the stack of groups to expand, top first
  visited,    \* visited_groups
  collected,  \* raw_entries
  logged,     \* groups dropped beyond MaxDepth: a log line is the only trace
  searches,   \* paged searches sent to the server
  accounts,   \* FetchResult.accounts
  total,      \* FetchResult.total_reported
  warnings    \* FetchResult.warnings, by kind

vars == <<dir, mode, pc, pending, visited, collected, logged, searches,
          accounts, total, warnings>>

walkVars == <<pending, visited, collected, logged, searches>>
resultVars == <<accounts, total, warnings>>

Entry == [dn : Group, depth : Nat]

TypeOK ==
  /\ dir \in Directory
  /\ mode \in Mode
  /\ pc \in {"connect", "search", "expand", "build", "returned", "raised"}
  /\ pending \in Seq(Entry)
  /\ visited \subseteq Group
  /\ collected \subseteq Person
  /\ logged \subseteq visited
  /\ searches \in Nat
  /\ accounts \subseteq Person
  /\ total \in Nat
  /\ warnings \subseteq {"direct_only", "template", "skipped"}

Init ==
  /\ dir \in Directories
  /\ mode \in Mode
  /\ pc = "connect"
  /\ pending = <<>>
  /\ visited = {}
  /\ collected = {}
  /\ logged = {}
  /\ searches = 0
  /\ accounts = {}
  /\ total = 0
  /\ warnings = {}

-----------------------------------------------------------------------------
\* Reachability without recursion: g lies in every set of groups that holds
\* the root and, with a group, its sub-groups.
ClosedFromRoot(C) == Root \in C /\ \A g \in C : dir.sub[g] \subseteq C
Reachable == {g \in Group : \A C \in SUBSET Group : ClosedFromRoot(C) => g \in C}

MembersOf(G) == UNION {dir.members[g] : g \in G}
EffectiveMembers == MembersOf(Reachable)

\* Everyone the query asks for.
Expected == IF mode = "template" THEN dir.matching ELSE EffectiveMembers

-----------------------------------------------------------------------------
\* _connect: bind, or one of the three classified provider errors.
Connect ==
  /\ pc = "connect"
  /\ IF mode = "recursive"
       THEN pc' = "expand" /\ pending' = <<[dn |-> Root, depth |-> 0]>>
       ELSE pc' = "search" /\ UNCHANGED pending
  /\ UNCHANGED <<dir, mode, visited, collected, logged, searches, resultVars>>

\* What the server answers to the single search of the other modes.
Answer == IF mode = "in_chain" THEN EffectiveMembers
          ELSE IF mode = "direct_only" THEN dir.members[Root] ELSE dir.matching

SearchOnce ==
  /\ pc = "search"
  /\ pc' = "build"
  /\ collected' = Answer
  /\ searches' = searches + 1
  /\ UNCHANGED <<dir, mode, pending, visited, logged, resultVars>>

\* A failed bind or search raises out of fetch(); nothing is returned.
Fails ==
  /\ pc \in {"connect", "search", "expand"}
  /\ pc' = "raised"
  /\ UNCHANGED <<dir, mode, walkVars, resultVars>>

Top == Head(pending)

\* Mutant: the top of the stack is read and left there.
Peeked == pending

Popped == Tail(pending)

\* Mutant: the visited check is missing.
AlwaysFresh == TRUE

Fresh == Top.dn \notin visited

\* The same group was reached before (a cycle, or two paths to it).
SkipVisited ==
  /\ pc = "expand" /\ pending # <<>>
  /\ ~Fresh
  /\ pending' = Popped
  /\ UNCHANGED <<dir, mode, pc, visited, collected, logged, searches, resultVars>>

\* Mutant: the limit is off by one.
CutOffEarly ==
  /\ pc = "expand" /\ pending # <<>>
  /\ Fresh
  /\ Top.depth >= MaxDepth
  /\ visited' = visited \union {Top.dn}
  /\ logged' = logged \union {Top.dn}
  /\ pending' = Popped
  /\ UNCHANGED <<dir, mode, pc, collected, searches, resultVars>>

\* Too deep: marked visited and dropped, with a line in the log only.
CutOff ==
  /\ pc = "expand" /\ pending # <<>>
  /\ Fresh
  /\ Top.depth > MaxDepth
  /\ visited' = visited \union {Top.dn}
  /\ logged' = logged \union {Top.dn}
  /\ pending' = Popped
  /\ UNCHANGED <<dir, mode, pc, collected, searches, resultVars>>

\* The sequences in which the server may list a set of groups.
Listings(S) == {s \in [1..Cardinality(S) -> S] : \A x \in S : \E i \in 1..Cardinality(S) : s[i] = x}

\* Mutant: a level is counted twice.
PushedDeeper(subs, d, rest) == [i \in DOMAIN subs |-> [dn |-> subs[i], depth |-> d + 1]] \o rest

\* Sub-groups found at depth d go on the stack above what is left of it.
Pushed(subs, d, rest) == [i \in DOMAIN subs |-> [dn |-> subs[i], depth |-> d]] \o rest

\* Both searches of one iteration: direct users, then unvisited sub-groups.
Expand ==
  /\ pc = "expand" /\ pending # <<>>
  /\ Fresh
  /\ Top.depth <= MaxDepth
  /\ visited' = visited \union {Top.dn}
  /\ collected' = collected \union dir.members[Top.dn]
  /\ \E subs \in Listings(dir.sub[Top.dn] \ visited') :
       pending' = Pushed(subs, Top.depth + 1, Popped)
  /\ searches' = searches + 2
  /\ UNCHANGED <<dir, mode, pc, logged, resultVars>>

\* Mutant: a group met before ends the loop (break for continue).
BreakOnVisited ==
  /\ pc = "expand"
  /\ IF pending = <<>> THEN TRUE ELSE ~Fresh
  /\ pc' = "build"
  /\ UNCHANGED <<dir, mode, walkVars, resultVars>>

WalkDone ==
  /\ pc = "expand" /\ pending = <<>>
  /\ pc' = "build"
  /\ UNCHANGED <<dir, mode, walkVars, resultVars>>

\* Mutant: the warning about skipped entries is missing.
SkippedUnwarned(found) == {w \in {"direct_only", "template"} : mode = w}

\* The warnings fetch() adds, one condition each.
WarningsOf(found) ==
  {w \in {"direct_only", "template"} : mode = w}
    \union {w \in {"skipped"} : \E p \in found : p \notin dir.named}

\* Entries become accounts; those without a sAMAccountName are dropped.
Build ==
  /\ pc = "build"
  /\ pc' = "returned"
  /\ accounts' = collected \intersect dir.named
  /\ total' = Cardinality(collected)
  /\ warnings' = WarningsOf(collected)
  /\ UNCHANGED <<dir, mode, walkVars>>

Walk == SkipVisited \/ CutOff \/ Expand \/ WalkDone

Progress == Connect \/ SearchOnce \/ Walk \/ Build

Next == Progress \/ Fails

\* One handler runs the fetch to its end: every search ends by an answer, an
\* error or the receive timeout, so the code never stays before a step.  No
\* error is ever due: the fetch ends without one as well.
Spec == Init /\ [][Next]_vars
FairSpec == Spec /\ WF_vars(Progress)

-----------------------------------------------------------------------------
\* A returned list never holds anyone outside the group tree that was asked
\* for, whatever cycles, shared sub-groups and cut-offs the walk met.
OnlyMembers == collected \union accounts \subseteq Expected

\* With no group dropped for depth, the recursive walk returns exactly the
\* named members of every reachable group, each once: cycles and diamonds
\* neither lose a member nor keep the loop of _fetch_recursive from seeing it.
CompleteUnlessCut ==
  pc = "returned" /\ mode = "recursive" /\ logged = {}
    => accounts = EffectiveMembers \intersect dir.named

\* Paths of n sub-group links from the root that visit no group twice.
Chains(n) ==
  {path \in [1..(n + 1) -> Group] :
     /\ path[1] = Root
     /\ \A i \in 1..n : path[i + 1] \in dir.sub[path[i]]
     /\ \A i, j \in 1..(n + 1) : path[i] = path[j] => i = j}

\* The depth limit can only bite when the group graph holds a chain of
\* distinct groups longer than MAX_NESTING_DEPTH: the depth a stack entry
\* carries never counts a cycle twice.
CutOnlyOnLongChain == logged # {} => Chains(MaxDepth + 1) # {}

\* The visited set keeps the server load linear: each group is queried at
\* most once, two searches each, however many paths lead to it.
EachGroupSearchedOnce ==
  mode = "recursive" => searches = 2 * Cardinality(visited \ logged)

\* The fetch ends on every group graph, cyclic ones included.
Terminates == <>(pc \in {"returned", "raised"})

Listing == INSTANCE AccountListing WITH
  expected <- Expected,
  warned   <- warnings # {},
  outcome  <- IF pc \in {"returned", "raised"} THEN pc ELSE "fetching"

\* The provider contract, as long as no group was dropped for its depth: every
\* step is one of AccountListing or invisible to it.
ListingSteps == [][logged = {} => Listing!Next]_(Listing!listingVars)

\* The whole contract; the depth limit must never bite for it to hold.
ListingSpec == Listing!Spec

-----------------------------------------------------------------------------
\* The inductive invariant behind the safety properties.
Waiting == {e.dn : e \in Range(pending)}

\* Nothing is known before the first search is answered.
Untouched ==
  pc \in {"connect", "search"} =>
    visited = {} /\ collected = {} /\ logged = {} /\ pending = <<>>

\* The walk belongs to the recursive strategy and stays inside the tree.
WalkIsSound ==
  /\ mode # "recursive" => visited = {} /\ pending = <<>>
  /\ pc = "expand" => mode = "recursive"
  /\ pc = "search" => mode # "recursive"
  /\ visited \union Waiting \subseteq Reachable

\* What an expanded group holds has been collected, visited or put on the stack.
WalkIsThorough ==
  pc \in {"expand", "build", "returned"} /\ mode = "recursive" =>
    /\ Root \in visited \union Waiting
    /\ \A g \in visited \ logged : /\ dir.members[g] \subseteq collected
                                   /\ dir.sub[g] \subseteq visited \union Waiting

\* The stack is empty once the walk is over; the result is what was found.
ResultIsFinal ==
  /\ pc \in {"build", "returned"} => pending = <<>>
  /\ pc \in {"build", "returned"} /\ mode # "recursive" => collected = Answer
  /\ pc = "returned" => /\ accounts = collected \intersect dir.named
                        /\ warnings = WarningsOf(collected)
                        /\ total = Cardinality(collected)
  /\ pc # "returned" => accounts = {} /\ warnings = {}

\* A stack entry's depth counts distinct visited groups.
DepthIsEarned == \A e \in Range(pending) : e.depth <= Cardinality(visited)

\* A group graph of at most MAX_NESTING_DEPTH + 1 reachable groups is never
\* cut, however its groups are nested.
SmallTreeUncut == Cardinality(Reachable) <= MaxDepth + 1 => logged = {}

\* A stack entry's depth is that of a simple path to it, through visited groups.
DepthIsChain ==
  \A e \in Range(pending) : \E path \in Chains(e.depth) :
    path[e.depth + 1] = e.dn /\ \A i \in 1..e.depth : path[i] \in visited

WalkInv ==
  /\ TypeOK
  /\ Untouched
  /\ WalkIsSound
  /\ WalkIsThorough
  /\ ResultIsFinal
  /\ OnlyMembers
  /\ DepthIsEarned
  /\ SmallTreeUncut

IInv == WalkInv /\ DepthIsChain
=============================================================================
