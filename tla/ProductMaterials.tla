-------------------------- MODULE ProductMaterials --------------------------
(***************************************************************************)
(* The materials of one product: the rows that link them, the versions of  *)
(* each link, and the groups of alternates of which one member is active,  *)
(* which is the one that cycles consume.  Every operation reads and checks *)
(* first and writes in a transaction of its own later, by the ids it read; *)
(* what protects it in between are the keys of the schema only.            *)
(*                                                                         *)
(* Source: inventory/product.ts and the three tables' schema.  The checks  *)
(* of an operation are one step, except those that number a new version.   *)
(***************************************************************************)
EXTENDS Naturals, Sequences

CONSTANTS
  Materials,
  Groups,      \* ids of alternate groups, each created once
  Users,
  Null,
  MaxRows,     \* a material is linked to the product this often
  MaxVersions  \* versions of one link

Ids == Materials \X (1..MaxRows)
LinkRow == [id: Ids, group: Groups \cup {Null}, current: 1..MaxVersions]
GroupRow == [active: Ids \cup {Null}]

ASSUME ProductAssumption ==
  /\ MaxRows \in Nat /\ MaxVersions \in Nat \ {0}
  /\ Null \notin Materials \cup Groups \cup Users \cup Ids
  /\ Null \notin LinkRow /\ Null \notin GroupRow

VARIABLES
  links,   \* the ProductMaterial row of each material, or Null
  blobs,   \* of each link ever made, the version each version was made from; those
           \* of a deleted link are gone and kept here because its id is spent
  groups,  \* the row of each group, or Null
  spent,   \* groups that were created at some time
  edit     \* what each user has read

vars == <<links, blobs, groups, spent, edit>>

\* row: id of the link.  peers: its group has other members.  to: replacement.
\* base and next: version read, version to write.  raced: somebody wrote since.
NoEdit == [op |-> "none", material |-> Null, row |-> Null, group |-> Null,
           active |-> FALSE, peers |-> FALSE, to |-> Null,
           base |-> 0, next |-> 0, raced |-> FALSE]

Edit == [op: {"none", "add", "number", "update", "remove", "leave", "group", "join",
              "activate", "delete"},
         material: Materials \cup {Null}, row: Ids \cup {Null}, group: Groups \cup {Null},
         active: BOOLEAN, peers: BOOLEAN, to: Ids \cup {Null},
         base: 0..MaxVersions, next: 0..(MaxVersions + 1), raced: BOOLEAN]

Init ==
  /\ links = [m \in Materials |-> Null]
  /\ blobs = [id \in Ids |-> <<>>]
  /\ groups = [g \in Groups |-> Null]
  /\ spent = {}
  /\ edit = [u \in Users |-> NoEdit]

-----------------------------------------------------------------------------

Live(id) == links[id[1]] # Null /\ links[id[1]].id = id
Members(g) == {m \in Materials : links[m] # Null /\ links[m].group = g}
IsActive(id) == \E g \in Groups : groups[g] # Null /\ groups[g].active = id

Reads(u, read) ==
  /\ edit[u].op = "none"
  /\ edit' = [edit EXCEPT ![u] = read]
  /\ UNCHANGED <<links, blobs, groups, spent>>

\* A write ends its operation and invalidates what the others have read.
Done(u) ==
  edit' = [v \in Users |-> IF v = u \/ edit[v].op = "none" THEN NoEdit
                           ELSE [edit[v] EXCEPT !.raced = TRUE]]

\* The next row id of a material that is not linked: ids are not used again.
NewIds(m) == {<<m, n>> : n \in {k \in 1..MaxRows : /\ blobs[<<m, k>>] = <<>>
                                                   /\ k = 1 \/ blobs[<<m, k - 1>>] # <<>>}}

NewLink(id, g) == [id |-> id, group |-> g, current |-> 1]

\* The foreign keys: a deleted link is nobody's active, a deleted group has no
\* members.
Deactivated(gs, id) ==
  [g \in Groups |-> IF gs[g] # Null /\ gs[g].active = id THEN [active |-> Null] ELSE gs[g]]
Detached(ls, g) ==
  [m \in Materials |-> IF ls[m] # Null /\ ls[m].group = g
                       THEN [ls[m] EXCEPT !.group = Null] ELSE ls[m]]

\* The key and the foreign key of activeProductMaterialId let id be g's active.
MayActivate(g, id) ==
  /\ Live(id)
  /\ \A h \in Groups \ {g} : groups[h] # Null => groups[h].active # id

-----------------------------------------------------------------------------
(* Links and their versions *)

ReadAdd(u) ==
  \E m \in Materials :
    links[m] = Null /\ Reads(u, [NoEdit EXCEPT !.op = "add", !.material = m])

\* addMaterial: the unique key stops the second of two.
Add(u) ==
  LET m == edit[u].material
  IN  /\ edit[u].op = "add" /\ links[m] = Null
      /\ \E id \in NewIds(m) :
           /\ links' = [links EXCEPT ![m] = NewLink(id, Null)]
           /\ blobs' = [blobs EXCEPT ![id] = <<0>>]
      /\ Done(u)
      /\ UNCHANGED <<groups, spent>>

\* updateMaterial: the link with its current version is read first, the number
\* of the latest version second.
ReadUpdate(u) ==
  \E m \in Materials :
    /\ links[m] # Null
    /\ Reads(u, [NoEdit EXCEPT !.op = "number", !.row = links[m].id, !.base = links[m].current])

NumberUpdate(u) ==
  /\ edit[u].op = "number"
  /\ edit' = [edit EXCEPT ![u].op = "update", ![u].next = Len(blobs[edit[u].row]) + 1]
  /\ UNCHANGED <<links, blobs, groups, spent>>

\* Mutant: no key stops a second version of one number.
UpdateTwice(u) ==
  LET id == edit[u].row
  IN  /\ edit[u].op = "update" /\ Live(id) /\ edit[u].next <= MaxVersions
      /\ blobs' = [blobs EXCEPT ![id] = Append(@, edit[u].base)]
      /\ links' = [links EXCEPT ![id[1]].current = edit[u].next]
      /\ Done(u)
      /\ UNCHANGED <<groups, spent>>

\* The version is inserted unless its number is taken, and becomes current.
Update(u) ==
  LET id == edit[u].row
  IN  /\ edit[u].op = "update" /\ Live(id)
      /\ edit[u].next = Len(blobs[id]) + 1 /\ edit[u].next <= MaxVersions
      /\ blobs' = [blobs EXCEPT ![id] = Append(@, edit[u].base)]
      /\ links' = [links EXCEPT ![id[1]].current = edit[u].next]
      /\ Done(u)
      /\ UNCHANGED <<groups, spent>>

\* removeMaterial and removeFromAltGroup: an active link with peers needs a
\* replacement from its group.
ReadRemoval(u) ==
  \E m \in Materials, op \in {"remove", "leave"} :
    LET row == links[m]
        g == row.group
        peers == g # Null /\ Members(g) # {m}
        others == {links[n].id : n \in Members(g) \ {m}}
    IN  /\ row # Null
        /\ op = "leave" => g # Null
        /\ \E to \in IF peers /\ IsActive(row.id) THEN others ELSE {Null} :
             Reads(u, [NoEdit EXCEPT !.op = op, !.material = m, !.row = row.id, !.group = g,
                                     !.active = IsActive(row.id), !.peers = peers, !.to = to])

\* Mutant: the replacement is forgotten.
PromotedNone(e) == groups

\* What a removal leaves of the groups before the link itself is touched.
Promoted(e) ==
  IF e.group # Null /\ e.active /\ e.peers
  THEN [groups EXCEPT ![e.group].active = e.to] ELSE groups

\* A removal may write: the group it changes is there, and so is its replacement.
RemovalHolds(e) ==
  e.group # Null /\ (e.active \/ ~e.peers) =>
    /\ groups[e.group] # Null
    /\ e.active /\ e.peers => MayActivate(e.group, e.to)

\* The last member takes its group along.
Emptied(e, gs) == IF e.group # Null /\ ~e.peers THEN [gs EXCEPT ![e.group] = Null] ELSE gs

\* removeMaterial deletes by product and material, whatever row is there now.
Remove(u) ==
  LET e == edit[u]
      m == e.material
      left == [links EXCEPT ![m] = Null]
  IN  /\ e.op = "remove" /\ links[m] # Null /\ RemovalHolds(e)
      /\ groups' = Emptied(e, Deactivated(Promoted(e), links[m].id))
      /\ links' = IF e.group # Null /\ ~e.peers THEN Detached(left, e.group) ELSE left
      /\ Done(u)
      /\ UNCHANGED <<blobs, spent>>

\* removeFromAltGroup detaches the row it has read.
Leave(u) ==
  LET e == edit[u]
      left == [links EXCEPT ![e.material].group = Null]
  IN  /\ e.op = "leave" /\ Live(e.row) /\ RemovalHolds(e)
      /\ groups' = Emptied(e, Promoted(e))
      /\ links' = IF ~e.peers THEN Detached(left, e.group) ELSE left
      /\ Done(u)
      /\ UNCHANGED <<blobs, spent>>

-----------------------------------------------------------------------------
(* Groups of alternates *)

ReadCreateGroup(u) ==
  \E m \in Materials :
    /\ links[m] # Null /\ links[m].group = Null
    /\ Reads(u, [NoEdit EXCEPT !.op = "group", !.row = links[m].id])

\* createAltGroup: its first member is the active one.
CreateGroup(u) ==
  LET id == edit[u].row
  IN  /\ edit[u].op = "group" /\ Live(id)
      /\ \E g \in Groups \ spent :
           /\ MayActivate(g, id)
           /\ groups' = [groups EXCEPT ![g] = [active |-> id]]
           /\ links' = [links EXCEPT ![id[1]].group = g]
           /\ spent' = spent \cup {g}
      /\ Done(u)
      /\ UNCHANGED blobs

\* The material is not linked yet, or stands alone: it joins the group.
ReadJoin(u) ==
  \E g \in Groups, m \in Materials :
    /\ groups[g] # Null
    /\ links[m] # Null => links[m].group = Null
    /\ Reads(u, [NoEdit EXCEPT !.op = "join", !.material = m, !.group = g,
                               !.row = IF links[m] = Null THEN Null ELSE links[m].id])

\* addMaterialToAltGroup: nothing is activated.
Join(u) ==
  LET e == edit[u]
      m == e.material
  IN  /\ e.op = "join" /\ groups[e.group] # Null
      /\ IF e.row # Null
         THEN /\ Live(e.row)
              /\ links' = [links EXCEPT ![m].group = e.group]
              /\ UNCHANGED blobs
         ELSE /\ links[m] = Null
              /\ \E id \in NewIds(m) :
                   /\ links' = [links EXCEPT ![m] = NewLink(id, e.group)]
                   /\ blobs' = [blobs EXCEPT ![id] = <<0>>]
      /\ Done(u)
      /\ UNCHANGED <<groups, spent>>

ReadActivate(u) ==
  \E g \in Groups : \E m \in Members(g) :
    /\ groups[g] # Null
    /\ Reads(u, [NoEdit EXCEPT !.op = "activate", !.group = g, !.row = links[m].id])

\* setAltGroupActive
Activate(u) ==
  LET e == edit[u]
  IN  /\ e.op = "activate" /\ groups[e.group] # Null /\ MayActivate(e.group, e.row)
      /\ groups' = [groups EXCEPT ![e.group].active = e.row]
      /\ Done(u)
      /\ UNCHANGED <<links, blobs, spent>>

ReadDelete(u) ==
  \E g \in Groups :
    groups[g] # Null /\ Reads(u, [NoEdit EXCEPT !.op = "delete", !.group = g])

\* deleteAltGroup: its members stand alone again.
DeleteGroup(u) ==
  LET g == edit[u].group
  IN  /\ edit[u].op = "delete" /\ groups[g] # Null
      /\ groups' = [groups EXCEPT ![g] = Null]
      /\ links' = Detached(links, g)
      /\ Done(u)
      /\ UNCHANGED <<blobs, spent>>

\* A key, a foreign key or a missing row fails the write, or the request ends.
GiveUp(u) ==
  /\ edit[u].op # "none"
  /\ edit' = [edit EXCEPT ![u] = NoEdit]
  /\ UNCHANGED <<links, blobs, groups, spent>>

-----------------------------------------------------------------------------

Writes(u) ==
  \/ Add(u) \/ Update(u) \/ Remove(u) \/ Leave(u)
  \/ CreateGroup(u) \/ Join(u) \/ Activate(u) \/ DeleteGroup(u)

Next ==
  \E u \in Users :
    \/ ReadAdd(u) \/ ReadUpdate(u) \/ NumberUpdate(u) \/ ReadRemoval(u)
    \/ ReadCreateGroup(u) \/ ReadJoin(u) \/ ReadActivate(u) \/ ReadDelete(u)
    \/ Writes(u) \/ GiveUp(u)

Spec == Init /\ [][Next]_vars

-----------------------------------------------------------------------------
(* Properties *)

\* Rows, versions and what users have read stay in their types.
TypeOK ==
  /\ links \in [Materials -> LinkRow \cup {Null}]
  /\ \A m \in Materials : links[m] # Null => links[m].id[1] = m
  /\ blobs \in [Ids -> Seq(0..MaxVersions)]
  /\ groups \in [Groups -> GroupRow \cup {Null}]
  /\ spent \subseteq Groups
  /\ edit \in [Users -> Edit]

\* Whoever updates at the same time, a link shows its latest version: the
\* version's unique key fails the slower one.
CurrentIsLatest ==
  \A m \in Materials : links[m] # Null => links[m].current = Len(blobs[links[m].id])

\* A group has a member, and its active one is among them.
Sound(g) ==
  groups[g] # Null =>
    /\ groups[g].active # Null
    /\ Live(groups[g].active) /\ links[groups[g].active[1]].group = g

\* Exactly one member of a group is active, through every sequence of
\* operations that do not overlap: only a write that was overtaken breaks it.
OnlyRacesBreakGroups ==
  [][(\A g \in Groups : Sound(g)) /\ (\A u \in Users : Writes(u) => ~edit[u].raced)
       => \A g \in Groups : Sound(g)']_vars

\* Nobody writes by what a write of somebody else has overtaken.
NoneOvertaken == [][\A u \in Users : Writes(u) => ~edit[u].raced]_vars

-----------------------------------------------------------------------------
(* What the code does not guarantee, unless NoneOvertaken: TLC refutes each of *)
(* these.                                                                      *)

\* Every group there is has exactly one active member.
OneActivePerGroup == \A g \in Groups : Sound(g)

\* Each version is made from the one before: no update is lost.
VersionsChain == \A id \in Ids : \A v \in 1..Len(blobs[id]) : blobs[id][v] = v - 1

=============================================================================
