---------------------------- MODULE MCLdapFetch ----------------------------
(***************************************************************************)
(* The directories of the run: every sub-group relation over the first     *)
(* Crowd groups, cycles and self-membership included, with and without a   *)
(* user that lacks a sAMAccountName; and every relation over all groups in *)
(* which no group is its own member, where chains exceed the depth limit.  *)
(* A group holds a user of its own and the root's user is shared.          *)
(***************************************************************************)
EXTENDS LdapFetch

CONSTANTS
  own,    \* [Group -> Person], one to one
  Crowd   \* how many groups the cyclic directories connect

DirectoryOver(subs, named) ==
  [sub      |-> subs,
   members  |-> [g \in Group |-> {own[g]} \union IF subs[g] = {} THEN {own[Root]} ELSE {}],
   matching |-> {own[Root]},
   named    |-> named]

Idle == Group \ {g \in Group : g <= Crowd}

\* Every sub-group relation over the first groups, the others unconnected.
CyclicDirectories ==
  {DirectoryOver([g \in Group |-> IF g \in Idle THEN {} ELSE s[g]], n) :
     s \in [Group \ Idle -> SUBSET (Group \ Idle)], n \in {Person, Person \ {own[Root]}}}

\* Every relation in which no group is its own member.
LooplessDirectories ==
  {DirectoryOver(s, Person) :
     s \in {r \in [Group -> SUBSET Group] : \A g \in Group : g \notin r[g]}}

MCDirectories == CyclicDirectories \union LooplessDirectories

\* Groups are numbered 1..n and the user of group g is 10 + g.
MCOwn == [g \in Group |-> 10 + g]
=============================================================================
