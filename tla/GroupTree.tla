----------------------------- MODULE GroupTree -----------------------------
(***************************************************************************)
(* The groups of a vault and the three ways the code walks them: the scope *)
(* of a group (pm_entry_store.c and, a second time, bio_daemon.c), the     *)
(* iterator over all entries (pm_vault_store_begin), and the nested list   *)
(* ListGroups answers with (build_groups_json).                            *)
(*                                                                          *)
(* A payload is a sequence of groups, each with an id and the id of its     *)
(* parent, and a sequence of entries, each with the id of its group.  The   *)
(* decoder checks neither that ids are unique nor that parents exist, nor   *)
(* that there are no cycles, so all of that occurs here.                    *)
(***************************************************************************)
EXTENDS Naturals, FiniteSets, SequencesExt, Relation

CONSTANTS GroupIds,    \* ids other than the empty one
          MaxGroups,   \* PM_PAYLOAD_MAX_GROUPS
          MaxEntries   \* PM_PAYLOAD_MAX_ENTRIES

NoGroup == ""

ASSUME GroupTreeAssumption ==
  /\ NoGroup \notin GroupIds
  /\ MaxGroups \in Nat /\ MaxEntries \in Nat

VARIABLES groups,    \* payload.groups
          entries    \* the group_id of each of payload.entries

GroupInit == groups = <<>> /\ entries = <<>>

AppendGroup(id, parent) ==
  /\ Len(groups) < MaxGroups
  /\ groups' = Append(groups, [id |-> id, parent |-> parent])
  /\ UNCHANGED entries

AppendEntry(group) ==
  /\ Len(entries) < MaxEntries
  /\ entries' = Append(entries, group)
  /\ UNCHANGED groups

GroupNext ==
  \/ \E id \in GroupIds, parent \in GroupIds \cup {NoGroup} : AppendGroup(id, parent)
  \/ \E group \in GroupIds \cup {NoGroup} : AppendEntry(group)

groupVars == <<groups, entries>>

GroupSpec == GroupInit /\ [][GroupNext]_groupVars

-----------------------------------------------------------------------------
(* The scope of a group.                                                    *)

\* The first group with the id, or 0.
FindGroup(id) == SelectInSeq(groups, LAMBDA g : g.id = id)

DepthLimit == Len(groups) + 1

RECURSIVE Climb(_, _, _)
Climb(i, target, depth) ==
  /\ i # 0 /\ depth > 0
  /\ \/ groups[i].parent = target
     \/ /\ groups[i].parent # NoGroup
        /\ Climb(FindGroup(groups[i].parent), target, depth - 1)

GroupInScope(group, target, descendants) ==
  group = target \/ (descendants /\ Climb(FindGroup(group), target, DepthLimit))

\* The daemon's own version: no scope means every entry, and an entry without
\* a group is in no scope.
RECURSIVE DaemonClimb(_, _, _)
DaemonClimb(i, scope, remaining) ==
  /\ i # 0 /\ remaining > 0
  /\ groups[i].parent # NoGroup
  /\ \/ groups[i].parent = scope
     \/ DaemonClimb(FindGroup(groups[i].parent), scope, remaining - 1)

EntryGroupMatchesScope(group, scope, descendants) ==
  \/ scope = NoGroup
  \/ /\ group # NoGroup
     /\ \/ group = scope
        \/ descendants /\ DaemonClimb(FindGroup(group), scope, Len(groups) + 1)

\* pm_vault_entry_list_by_group_scope and the scoped search of the daemon.
ListByGroupScope(target, descendants) ==
  {i \in DOMAIN entries : GroupInScope(entries[i], target, descendants)}
SearchScoped(scope, descendants) ==
  {i \in DOMAIN entries : EntryGroupMatchesScope(entries[i], scope, descendants)}

-----------------------------------------------------------------------------
(* The iterator over all entries.  st: the groups visited, the entries in   *)
(* the order they are added, and whether no step failed.                    *)

Upto(n) == [i \in 1..n |-> i]
GroupIsRoot(i) == groups[i].parent = NoGroup \/ FindGroup(groups[i].parent) = 0

AppendEntriesForGroup(st, group) ==
  [st EXCEPT !.order = @ \o SelectSeq(Upto(Len(entries)),
                          LAMBDA i : entries[i] = group /\ ~Contains(st.order, i))]

RECURSIVE WalkGroup(_, _, _)
WalkGroup(st, i, depth) ==
  IF ~st.ok THEN st
  ELSE IF depth = 0 THEN [st EXCEPT !.ok = FALSE]
  ELSE IF i \in st.visited THEN st
  ELSE LET here == AppendEntriesForGroup([st EXCEPT !.visited = @ \cup {i}], groups[i].id)
           children == SelectSeq(Upto(Len(groups)), LAMBDA j : groups[j].parent = groups[i].id)
       IN FoldLeft(LAMBDA acc, j : WalkGroup(acc, j, depth - 1), here, children)

\* Mutant: without the pass over the groups that no root leads to, and without
\* the entries whose group does not exist.
StoreBeginRootsOnly ==
  LET ungrouped == AppendEntriesForGroup([visited |-> {}, order |-> <<>>, ok |-> TRUE], NoGroup)
  IN FoldLeft(LAMBDA st, i : WalkGroup(st, i, Len(groups) + 1), ungrouped,
              SelectSeq(Upto(Len(groups)), GroupIsRoot))

\* Entries without a group, then the trees of the roots, then what no root
\* leads to, then entries whose group does not exist.
StoreBegin ==
  LET ungrouped == AppendEntriesForGroup([visited |-> {}, order |-> <<>>, ok |-> TRUE], NoGroup)
      Walk(st, i) == WalkGroup(st, i, Len(groups) + 1)
      rooted == FoldLeft(Walk, ungrouped, SelectSeq(Upto(Len(groups)), GroupIsRoot))
      all == FoldLeft(LAMBDA st, i : IF i \in st.visited THEN st ELSE Walk(st, i),
                      rooted, Upto(Len(groups)))
  IN [all EXCEPT !.order = @ \o SelectSeq(Upto(Len(entries)), LAMBDA i : ~Contains(@, i))]

-----------------------------------------------------------------------------
(* The nested list.  A node is the index of a group and the list of what    *)
(* was written for its children; Hole stands for a child nothing was        *)
(* written for, although its comma was.                                     *)

Hole == [group |-> 0, children |-> <<>>]

RECURSIVE GroupNode(_, _, _)
GroupNode(emitted, i, depth) ==
  IF depth > Len(groups) + 1 \/ i \in emitted THEN [node |-> Hole, emitted |-> emitted]
  ELSE LET candidates == SelectSeq(Upto(Len(groups)), LAMBDA j :
                           groups[j].parent # NoGroup /\ groups[j].parent = groups[i].id)
           result == FoldLeft(LAMBDA acc, j :
                         LET sub == GroupNode(acc.emitted, j, depth + 1)
                         IN [list |-> Append(acc.list, sub.node), emitted |-> sub.emitted],
                       [list |-> <<>>, emitted |-> emitted \cup {i}], candidates)
       IN [node |-> [group |-> i, children |-> result.list], emitted |-> result.emitted]

\* No parent, an unknown one, or itself.
StartsTree(i) ==
  \/ groups[i].parent = NoGroup
  \/ FindGroup(groups[i].parent) \in {0, i}

GroupsJson ==
  LET Top(acc, i) == LET sub == GroupNode(acc.emitted, i, 0)
                     IN [list |-> Append(acc.list, sub.node), emitted |-> sub.emitted]
      trees == FoldLeft(Top, [list |-> <<>>, emitted |-> {}],
                        SelectSeq(Upto(Len(groups)), StartsTree))
  IN FoldLeft(LAMBDA acc, i : IF i \in acc.emitted THEN acc ELSE Top(acc, i),
              trees, Upto(Len(groups))).list

-----------------------------------------------------------------------------
(* Properties.                                                              *)

\* The parent of an id is that of the first group with it.
ParentOf == {<<groups[i].id, groups[i].parent>> : i \in {j \in DOMAIN groups :
               FindGroup(groups[j].id) = j /\ groups[j].parent # NoGroup}}
Above == TransitiveClosure([x, y \in GroupIds |-> <<x, y>> \in ParentOf], GroupIds)
Forest(above) ==
  /\ \A i, j \in DOMAIN groups : groups[i].id = groups[j].id => i = j
  /\ \A id \in GroupIds : ~above[id, id]

\* The scope with descendants is the group and every group below it, for any
\* graph of parents, cycles included, in the store and in the daemon, which
\* climb separately and stop by a count.
ScopeIsAncestry ==
  LET above == Above IN
  \A g, t \in GroupIds :
    LET inScope == g = t \/ above[g, t] IN
    /\ GroupInScope(g, t, TRUE) = inScope
    /\ EntryGroupMatchesScope(g, t, TRUE) = inScope
    /\ ListByGroupScope(t, FALSE) = SearchScoped(t, FALSE)

\* pm_vault_store_begin returns every entry once, whatever the groups look
\* like; its depth limit never makes it fail; and in a forest the entries of a
\* group come before those of the groups below it.
EveryEntryOnce ==
  LET r == StoreBegin
      above == Above
      Exists(i) == entries[i] \in GroupIds /\ FindGroup(entries[i]) # 0
  IN
  /\ r.ok
  /\ Len(r.order) = Len(entries) /\ ToSet(r.order) = DOMAIN entries
  /\ Forest(above) => \A k, l \in DOMAIN r.order :
       (/\ Exists(r.order[k]) /\ Exists(r.order[l])
        /\ above[entries[r.order[l]], entries[r.order[k]]]) => k < l

\* The groups written in a list, with their holes.
RECURSIVE GroupsWritten(_)
GroupsWritten(list) ==
  FoldLeft(LAMBDA acc, n : acc \o <<n.group>> \o GroupsWritten(n.children), <<>>, list)
RECURSIVE Nested(_, _)
Nested(list, parent) ==
  \A k \in DOMAIN list : list[k] # Hole =>
    /\ parent # NoGroup => groups[list[k].group].parent = parent
    /\ Nested(list[k].children, groups[list[k].group].id)

\* ListGroups writes every group once and under its own parent, and when the
\* groups are a forest no comma is left without a group after it.
GroupsWrittenOnce ==
  LET list == GroupsJson
      indices == SelectSeq(GroupsWritten(list), LAMBDA i : i # 0)
  IN /\ Len(indices) = Len(groups) /\ ToSet(indices) = DOMAIN groups
     /\ Nested(list, NoGroup)
     /\ Forest(Above) => ~Contains(GroupsWritten(list), 0)

\* The four walks over the groups agree with the graph of parents, whatever it
\* looks like: scope in the store and in the daemon, order of the entries,
\* nested list.
GroupsAgree == ScopeIsAncestry /\ EveryEntryOnce /\ GroupsWrittenOnce
=============================================================================
