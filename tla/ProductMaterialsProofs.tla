----------------------- MODULE ProductMaterialsProofs -----------------------
(* Theorems about ProductMaterials, for any number of materials, groups and   *)
(* users and any bounds.                                                       *)
EXTENDS ProductMaterials, TLAPS

\* An edit knows the rows that its operation is about.
EditSound(e) ==
  /\ e.op \in {"number", "update", "group", "leave", "activate"} => e.row # Null
  /\ e.op \in {"add", "remove", "leave", "join"} => e.material # Null
  /\ e.op \in {"join", "activate", "delete"} => e.group # Null
  /\ e.op \in {"leave", "join"} /\ e.row # Null => e.row[1] = e.material

\* Versions keep to their bound, and a group that is there was created.
RowsSound ==
  /\ \A id \in Ids : Len(blobs[id]) <= MaxVersions
  /\ \A g \in Groups : groups[g] # Null => g \in spent
  /\ \A u \in Users : EditSound(edit[u])

\* What user u has read of the material that it is about to take out still
\* holds.
RemovalFresh(e) ==
  LET row == links[e.material]
  IN  /\ row # Null /\ row.id = e.row /\ row.group = e.group
      /\ e.active = IsActive(e.row)
      /\ e.peers = (e.group # Null /\ Members(e.group) # {e.material})
      /\ e.peers /\ e.active =>
           \E n \in Members(e.group) \ {e.material} : e.to = links[n].id

\* What an edit that nobody has overtaken has read still holds.
Fresh(e) ==
  /\ e.op \in {"remove", "leave"} => RemovalFresh(e)
  /\ e.op = "group" => Live(e.row) /\ links[e.row[1]].group = Null
  /\ e.op = "join" /\ links[e.material] # Null => links[e.material].group = Null
  /\ e.op = "activate" => Live(e.row) /\ links[e.row[1]].group = e.group

ReadsFresh == \A u \in Users : \A e \in {edit[u]} : ~e.raced => Fresh(e)

Inductive == TypeOK /\ RowsSound /\ CurrentIsLatest /\ ReadsFresh

-----------------------------------------------------------------------------
(* Reads and writes *)

LEMMA IdParts ==
  ASSUME NEW id \in Ids
  PROVE  id[1] \in Materials /\ id[2] \in 1..MaxRows /\ id = <<id[1], id[2]>> /\ id # Null
BY ProductAssumption DEF Ids

LEMMA NullIsNothing ==
  /\ Null \notin Materials /\ Null \notin Groups /\ Null \notin Ids
  /\ Null \notin LinkRow /\ Null \notin GroupRow
BY ProductAssumption

LEMMA NoEditSound == NoEdit \in Edit /\ EditSound(NoEdit) /\ NoEdit.op = "none"
<1>1. NoEdit \in Edit
  BY ProductAssumption DEF NoEdit, Edit
<1> QED
  BY <1>1 DEF NoEdit, EditSound

LEMMA InitInductive == Init => Inductive
<1> SUFFICES ASSUME Init PROVE Inductive
  OBVIOUS
<1>1. TypeOK
  BY NoEditSound, ProductAssumption DEF Init, TypeOK
<1>2. RowsSound
  BY NoEditSound, ProductAssumption DEF Init, RowsSound
<1>3. CurrentIsLatest
  BY DEF Init, CurrentIsLatest
<1>4. ReadsFresh
  BY NoEditSound DEF Init, ReadsFresh, Fresh
<1> QED
  BY <1>1, <1>2, <1>3, <1>4 DEF Inductive

\* Reads leave what has been read as it is.
LEMMA FreshStays ==
  ASSUME NEW d \in Edit, Fresh(d), links' = links, groups' = groups
  PROVE  Fresh(d)'
<1>1. d.op \in {"remove", "leave"} => RemovalFresh(d)'
  BY DEF Fresh, RemovalFresh, Members, IsActive, Edit
<1>2. d.op = "group" => Live(d.row)' /\ links'[d.row[1]].group = Null
  BY DEF Fresh, Live
<1>3. d.op = "join" /\ links'[d.material] # Null => links'[d.material].group = Null
  BY DEF Fresh
<1>4. d.op = "activate" => Live(d.row)' /\ links'[d.row[1]].group = d.group
  BY DEF Fresh, Live
<1> QED
  BY <1>1, <1>2, <1>3, <1>4 DEF Fresh

\* A user may remember what is sound and fresh.
LEMMA EditKeeps ==
  ASSUME Inductive, NEW u \in Users, NEW e \in Edit, EditSound(e), Fresh(e),
         edit' = [edit EXCEPT ![u] = e], UNCHANGED <<links, blobs, groups, spent>>
  PROVE  Inductive'
<1> USE DEF Inductive
<1>1. TypeOK'
  BY DEF TypeOK
<1>2. \A v \in Users : edit'[v] = IF v = u THEN e ELSE edit[v]
  BY DEF TypeOK
<1>3. RowsSound'
  BY <1>2 DEF RowsSound, EditSound
<1>4. CurrentIsLatest'
  BY DEF CurrentIsLatest
<1>5. ReadsFresh'
  <2>1. links' = links /\ groups' = groups
    OBVIOUS
  <2>2. ASSUME NEW v \in Users, NEW d, d = edit'[v], ~d.raced
        PROVE  d \in Edit /\ Fresh(d)
    BY <1>1, <1>2, <2>2 DEF TypeOK, ReadsFresh
  <2>3. ASSUME NEW v \in Users, NEW d, d \in {edit'[v]}, ~d.raced
        PROVE  Fresh(d)'
    BY <2>1, <2>2, <2>3, FreshStays
  <2> QED
    BY <2>3 DEF ReadsFresh
<1> QED
  BY <1>1, <1>3, <1>4, <1>5

LEMMA ReadKeeps ==
  ASSUME Inductive, NEW u \in Users, NEW e \in Edit, Reads(u, e), EditSound(e), Fresh(e)
  PROVE  Inductive'
BY EditKeeps DEF Reads

\* After a write everybody else has read too early.
LEMMA WriteKeeps ==
  ASSUME Inductive, NEW u \in Users, Done(u),
         links' \in [Materials -> LinkRow \cup {Null}],
         \A m \in Materials : links'[m] # Null => links'[m].id[1] = m,
         blobs' \in [Ids -> Seq(0..MaxVersions)],
         groups' \in [Groups -> GroupRow \cup {Null}],
         spent' \subseteq Groups,
         \A id \in Ids : Len(blobs'[id]) <= MaxVersions,
         \A g \in Groups : groups'[g] # Null => g \in spent',
         CurrentIsLatest'
  PROVE  Inductive'
<1> USE DEF Inductive
<1>1. ASSUME NEW v \in Users
      PROVE  \/ edit'[v] = NoEdit
             \/ edit'[v] = [edit[v] EXCEPT !.raced = TRUE]
  BY DEF Done
<1>2. ASSUME NEW v \in Users
      PROVE  [edit[v] EXCEPT !.raced = TRUE] \in Edit /\ EditSound([edit[v] EXCEPT !.raced = TRUE])
  <2>1. edit[v] \in Edit /\ EditSound(edit[v])
    BY DEF TypeOK, RowsSound
  <2> QED
    BY <2>1 DEF Edit, EditSound
<1>3. \A v \in Users : edit'[v] \in Edit
  BY <1>1, <1>2, NoEditSound
<1>4. edit' \in [Users -> Edit]
  BY <1>3 DEF Done
<1>5. TypeOK'
  BY <1>4 DEF TypeOK
<1>6. \A v \in Users : EditSound(edit'[v])
  BY <1>1, <1>2, NoEditSound
<1>7. RowsSound'
  BY <1>6 DEF RowsSound, EditSound
<1>8. \A v \in Users : edit'[v].raced \/ edit'[v].op = "none"
  <2> TAKE v \in Users
  <2>1. edit[v] \in Edit
    BY DEF TypeOK
  <2>2. [edit[v] EXCEPT !.raced = TRUE].raced
    BY <2>1 DEF Edit
  <2> QED
    BY <1>1, <2>2, NoEditSound
<1>9. ReadsFresh'
  BY <1>8 DEF ReadsFresh, Fresh
<1> QED
  BY <1>5, <1>7, <1>9

LEMMA ReadStep ==
  ASSUME Inductive, NEW u \in Users,
         \/ ReadAdd(u) \/ ReadUpdate(u) \/ ReadRemoval(u) \/ ReadCreateGroup(u)
         \/ ReadJoin(u) \/ ReadActivate(u) \/ ReadDelete(u)
  PROVE  Inductive'
<1> USE DEF Inductive
<1>0. \A m \in Materials : links[m] # Null =>
        links[m] \in LinkRow /\ links[m].id \in Ids /\ links[m].id[1] = m /\ links[m].id # Null
      /\ links[m].group \in Groups \cup {Null} /\ links[m].current \in 0..MaxVersions
  BY IdParts DEF TypeOK, LinkRow
<1>1. CASE ReadAdd(u)
  <2>1. PICK m \in Materials : Reads(u, [NoEdit EXCEPT !.op = "add", !.material = m])
    BY <1>1 DEF ReadAdd
  <2> DEFINE e == [NoEdit EXCEPT !.op = "add", !.material = m]
  <2>2. e.op = "add" /\ e.material = m
    BY DEF NoEdit
  <2>3. e \in Edit
    BY <2>1, NoEditSound, NullIsNothing DEF Edit
  <2> HIDE DEF e
  <2>4. EditSound(e) /\ Fresh(e)
    BY <2>1, <2>2, NullIsNothing DEF EditSound, Fresh
  <2> QED
    BY <2>1, <2>3, <2>4, ReadKeeps DEF e
<1>2. CASE ReadUpdate(u)
  <2>1. PICK m \in Materials :
          /\ links[m] # Null
          /\ Reads(u, [NoEdit EXCEPT !.op = "number", !.row = links[m].id, !.base = links[m].current])
    BY <1>2 DEF ReadUpdate
  <2> DEFINE e == [NoEdit EXCEPT !.op = "number", !.row = links[m].id, !.base = links[m].current]
  <2>2. e.op = "number" /\ e.row = links[m].id
    BY DEF NoEdit
  <2>3. e \in Edit
    BY <1>0, <2>1, NoEditSound, NullIsNothing DEF Edit
  <2> HIDE DEF e
  <2>4. EditSound(e) /\ Fresh(e)
    BY <1>0, <2>1, <2>2, NullIsNothing DEF EditSound, Fresh
  <2> QED
    BY <2>1, <2>3, <2>4, ReadKeeps DEF e
<1>3. CASE ReadRemoval(u)
  <2>1. PICK m \in Materials, op \in {"remove", "leave"} :
          LET row == links[m]
              g == row.group
              peers == g # Null /\ Members(g) # {m}
              others == {links[n].id : n \in Members(g) \ {m}}
          IN  /\ row # Null
              /\ op = "leave" => g # Null
              /\ \E to \in IF peers /\ IsActive(row.id) THEN others ELSE {Null} :
                   Reads(u, [NoEdit EXCEPT !.op = op, !.material = m, !.row = row.id, !.group = g,
                                           !.active = IsActive(row.id), !.peers = peers, !.to = to])
    BY <1>3 DEF ReadRemoval
  <2> DEFINE g == links[m].group
             peers == g # Null /\ Members(g) # {m}
             active == IsActive(links[m].id)
             others == {links[n].id : n \in Members(g) \ {m}}
  <2>2. PICK to \in IF peers /\ active THEN others ELSE {Null} :
          Reads(u, [NoEdit EXCEPT !.op = op, !.material = m, !.row = links[m].id, !.group = g,
                                  !.active = active, !.peers = peers, !.to = to])
    BY <2>1
  <2> DEFINE e == [NoEdit EXCEPT !.op = op, !.material = m, !.row = links[m].id, !.group = g,
                                 !.active = active, !.peers = peers, !.to = to]
  <2>3. active \in BOOLEAN /\ peers \in BOOLEAN
    BY DEF IsActive
  <2>4. to \in Ids \cup {Null}
    BY <1>0, <2>2 DEF Members
  <2>5. /\ links[m] # Null /\ links[m].id \in Ids /\ links[m].id # Null /\ links[m].id[1] = m
        /\ g \in Groups \cup {Null}
    BY <1>0, <2>1
  <2>6. peers /\ active => \E n \in Members(g) \ {m} : to = links[n].id
    BY <2>2
  <2> HIDE DEF active, peers, others, g
  <2>7. /\ e.op = op /\ e.material = m /\ e.row = links[m].id /\ e.group = g
        /\ e.active = active /\ e.peers = peers /\ e.to = to
    BY DEF NoEdit
  <2>8. e \in Edit
    BY <2>3, <2>4, <2>5, NoEditSound, NullIsNothing DEF Edit
  <2> HIDE DEF e
  <2>9. EditSound(e)
    BY <2>5, <2>7, NullIsNothing DEF EditSound
  <2>10. RemovalFresh(e)
    BY <2>5, <2>6, <2>7 DEF RemovalFresh, active, peers, g
  <2>11. Fresh(e)
    BY <2>7, <2>10 DEF Fresh
  <2> QED
    BY <2>2, <2>8, <2>9, <2>11, ReadKeeps DEF e
<1>4. CASE ReadCreateGroup(u)
  <2>1. PICK m \in Materials :
          /\ links[m] # Null /\ links[m].group = Null
          /\ Reads(u, [NoEdit EXCEPT !.op = "group", !.row = links[m].id])
    BY <1>4 DEF ReadCreateGroup
  <2> DEFINE e == [NoEdit EXCEPT !.op = "group", !.row = links[m].id]
  <2>2. e.op = "group" /\ e.row = links[m].id
    BY DEF NoEdit
  <2>3. e \in Edit
    BY <1>0, <2>1, NoEditSound, NullIsNothing DEF Edit
  <2> HIDE DEF e
  <2>4. EditSound(e) /\ Fresh(e)
    BY <1>0, <2>1, <2>2, NullIsNothing DEF EditSound, Fresh, Live
  <2> QED
    BY <2>1, <2>3, <2>4, ReadKeeps DEF e
<1>5. CASE ReadJoin(u)
  <2>1. PICK g \in Groups, m \in Materials :
          /\ links[m] # Null => links[m].group = Null
          /\ Reads(u, [NoEdit EXCEPT !.op = "join", !.material = m, !.group = g,
                                     !.row = IF links[m] = Null THEN Null ELSE links[m].id])
    BY <1>5 DEF ReadJoin
  <2> DEFINE e == [NoEdit EXCEPT !.op = "join", !.material = m, !.group = g,
                                 !.row = IF links[m] = Null THEN Null ELSE links[m].id]
  <2>2. /\ e.op = "join" /\ e.material = m /\ e.group = g
        /\ e.row = IF links[m] = Null THEN Null ELSE links[m].id
    BY DEF NoEdit
  <2>3. e \in Edit
    BY <1>0, <2>1, NoEditSound, NullIsNothing DEF Edit
  <2> HIDE DEF e
  <2>4. EditSound(e) /\ Fresh(e)
    BY <1>0, <2>1, <2>2, NullIsNothing DEF EditSound, Fresh
  <2> QED
    BY <2>1, <2>3, <2>4, ReadKeeps DEF e
<1>6. CASE ReadActivate(u)
  <2>1. PICK g \in Groups, m \in Materials :
          /\ m \in Members(g)
          /\ Reads(u, [NoEdit EXCEPT !.op = "activate", !.group = g, !.row = links[m].id])
    BY <1>6 DEF ReadActivate, Members
  <2> DEFINE e == [NoEdit EXCEPT !.op = "activate", !.group = g, !.row = links[m].id]
  <2>2. m \in Materials /\ links[m] # Null /\ links[m].group = g
    BY <2>1 DEF Members
  <2>3. e.op = "activate" /\ e.group = g /\ e.row = links[m].id
    BY DEF NoEdit
  <2>4. e \in Edit
    BY <1>0, <2>1, <2>2, NoEditSound, NullIsNothing DEF Edit
  <2> HIDE DEF e
  <2>5. EditSound(e) /\ Fresh(e)
    BY <1>0, <2>1, <2>2, <2>3, NullIsNothing DEF EditSound, Fresh, Live
  <2> QED
    BY <2>1, <2>4, <2>5, ReadKeeps DEF e
<1>7. CASE ReadDelete(u)
  <2>1. PICK g \in Groups : Reads(u, [NoEdit EXCEPT !.op = "delete", !.group = g])
    BY <1>7 DEF ReadDelete
  <2> DEFINE e == [NoEdit EXCEPT !.op = "delete", !.group = g]
  <2>2. e.op = "delete" /\ e.group = g
    BY DEF NoEdit
  <2>3. e \in Edit
    BY <2>1, NoEditSound, NullIsNothing DEF Edit
  <2> HIDE DEF e
  <2>4. EditSound(e) /\ Fresh(e)
    BY <2>1, <2>2, NullIsNothing DEF EditSound, Fresh
  <2> QED
    BY <2>1, <2>3, <2>4, ReadKeeps DEF e
<1> QED
  BY <1>1, <1>2, <1>3, <1>4, <1>5, <1>6, <1>7

-----------------------------------------------------------------------------
(* The operations *)

LEMMA LinkFields ==
  ASSUME TypeOK, NEW m \in Materials, links[m] # Null
  PROVE  /\ links[m] \in LinkRow /\ links[m].id \in Ids /\ links[m].id[1] = m /\ links[m].id # Null
         /\ links[m].group \in Groups \cup {Null} /\ links[m].current \in 1..MaxVersions
BY IdParts DEF TypeOK, LinkRow

\* The foreign keys leave rows rows: no link is lost, no group is added.
LEMMA DetachedRows ==
  ASSUME NEW ls \in [Materials -> LinkRow \cup {Null}], NEW g,
         \A m \in Materials : ls[m] # Null => ls[m].id[1] = m
  PROVE  /\ Detached(ls, g) \in [Materials -> LinkRow \cup {Null}]
         /\ \A m \in Materials :
              /\ Detached(ls, g)[m] = Null <=> ls[m] = Null
              /\ ls[m] # Null =>
                   /\ Detached(ls, g)[m].id = ls[m].id
                   /\ Detached(ls, g)[m].current = ls[m].current
                   /\ Detached(ls, g)[m].group = IF ls[m].group = g THEN Null ELSE ls[m].group
<1>1. ASSUME NEW m \in Materials, ls[m] # Null
      PROVE  /\ ls[m] \in LinkRow
             /\ [ls[m] EXCEPT !.group = Null] \in LinkRow
             /\ [ls[m] EXCEPT !.group = Null].id = ls[m].id
             /\ [ls[m] EXCEPT !.group = Null].current = ls[m].current
             /\ [ls[m] EXCEPT !.group = Null].group = Null
  <2>1. ls[m] \in LinkRow
    BY <1>1
  <2> QED
    BY <2>1 DEF LinkRow
<1> QED
  BY <1>1, NullIsNothing DEF Detached

LEMMA DeactivatedRows ==
  ASSUME NEW gs \in [Groups -> GroupRow \cup {Null}], NEW id
  PROVE  /\ Deactivated(gs, id) \in [Groups -> GroupRow \cup {Null}]
         /\ \A g \in Groups : Deactivated(gs, id)[g] = Null <=> gs[g] = Null
         /\ \A g \in Groups : gs[g] # Null /\ gs[g].active # id => Deactivated(gs, id)[g] = gs[g]
<1>1. [active |-> Null] \in GroupRow
  BY DEF GroupRow
<1> QED
  BY <1>1, NullIsNothing DEF Deactivated

LEMMA NewIdParts ==
  ASSUME NEW m \in Materials, NEW id \in NewIds(m)
  PROVE  id \in Ids /\ id[1] = m
<1>1. PICK n \in 1..MaxRows : id = <<m, n>>
  BY DEF NewIds
<1> QED
  BY <1>1 DEF Ids

LEMMA AddStep == ASSUME Inductive, NEW u \in Users, Add(u) PROVE Inductive'
<1> USE DEF Inductive
<1> DEFINE m == edit[u].material
<1>1. m \in Materials
  BY DEF TypeOK, RowsSound, Add, EditSound, Edit
<1>2. PICK id \in NewIds(m) :
        /\ links' = [links EXCEPT ![m] = NewLink(id, Null)]
        /\ blobs' = [blobs EXCEPT ![id] = <<0>>]
        /\ Done(u) /\ UNCHANGED <<groups, spent>>
  BY DEF Add
<1> HIDE DEF m
<1>3. id \in Ids /\ id[1] = m
  BY <1>1, <1>2, NewIdParts
<1>4. NewLink(id, Null) \in LinkRow /\ NewLink(id, Null).id = id /\ NewLink(id, Null).current = 1
  BY <1>3, ProductAssumption DEF NewLink, LinkRow
<1>5. <<0>> \in Seq(0..MaxVersions) /\ Len(<<0>>) = 1
  BY ProductAssumption
<1>6. blobs' \in [Ids -> Seq(0..MaxVersions)] /\ \A i \in Ids : Len(blobs'[i]) <= MaxVersions
  BY <1>2, <1>3, <1>5, ProductAssumption DEF TypeOK, RowsSound
<1>7. /\ links' \in [Materials -> LinkRow \cup {Null}]
      /\ \A n \in Materials : links'[n] # Null => links'[n].id[1] = n
  BY <1>1, <1>2, <1>3, <1>4 DEF TypeOK
<1>8. CurrentIsLatest'
  <2>1. ASSUME NEW n \in Materials, links'[n] # Null
        PROVE  links'[n].current = Len(blobs'[links'[n].id])
    <3>1. CASE n = m
      BY <1>1, <1>2, <1>3, <1>4, <1>5, <3>1 DEF TypeOK
    <3>2. CASE n # m
      <4>1. links'[n] = links[n]
        BY <1>1, <1>2, <3>2 DEF TypeOK
      <4>2. links[n].id # id /\ links[n].id \in Ids
        BY <1>3, <2>1, <3>2, <4>1, LinkFields
      <4> QED
        BY <1>2, <1>3, <2>1, <4>1, <4>2 DEF CurrentIsLatest, TypeOK
    <3> QED
      BY <3>1, <3>2
  <2> QED
    BY <2>1 DEF CurrentIsLatest
<1> QED
  BY <1>2, <1>6, <1>7, <1>8, WriteKeeps DEF TypeOK, RowsSound

LEMMA UpdateStep == ASSUME Inductive, NEW u \in Users, Update(u) PROVE Inductive'
<1> USE DEF Inductive
<1> DEFINE id == edit[u].row
           m == id[1]
           next == edit[u].next
           b == Append(blobs[id], edit[u].base)
<1>1. id \in Ids /\ m \in Materials /\ links[m] # Null /\ links[m].id = id
  <2>1. edit[u] \in Edit /\ edit[u].row # Null
    BY DEF TypeOK, RowsSound, Update, EditSound
  <2>2. id \in Ids
    BY <2>1 DEF Edit
  <2> QED
    BY <2>2, IdParts DEF Update, Live
<1>2. next \in Nat /\ edit[u].base \in 0..MaxVersions
  BY DEF TypeOK, Edit
<1>3. /\ next = Len(blobs[id]) + 1 /\ next <= MaxVersions
      /\ blobs' = [blobs EXCEPT ![id] = b]
      /\ links' = [links EXCEPT ![m] = [links[m] EXCEPT !.current = next]]
      /\ Done(u) /\ UNCHANGED <<groups, spent>>
  BY DEF Update
<1>4. blobs[id] \in Seq(0..MaxVersions)
  BY <1>1 DEF TypeOK
<1> DEFINE base == edit[u].base
<1> HIDE DEF id, m, next, base
<1>5. Append(blobs[id], base) \in Seq(0..MaxVersions) /\ Len(Append(blobs[id], base)) = next
  BY <1>2, <1>3, <1>4 DEF base
<1>6. b \in Seq(0..MaxVersions) /\ Len(b) = next
  BY <1>5 DEF base
<1> HIDE DEF b
<1>7. links[m] \in LinkRow /\ next \in 1..MaxVersions
  BY <1>1, <1>2, <1>3, <1>4, LinkFields
<1> DEFINE row == [links[m] EXCEPT !.current = next]
<1>8. row \in LinkRow /\ row.id = id /\ row.current = next
  BY <1>1, <1>7 DEF LinkRow
<1> HIDE DEF row
<1>9. links' = [links EXCEPT ![m] = row]
  BY <1>3 DEF row
<1>10. /\ links' \in [Materials -> LinkRow \cup {Null}]
       /\ \A n \in Materials : links'[n] # Null => links'[n].id[1] = n
  BY <1>1, <1>8, <1>9, LinkFields DEF TypeOK, m
<1>11. blobs' \in [Ids -> Seq(0..MaxVersions)] /\ \A i \in Ids : Len(blobs'[i]) <= MaxVersions
  BY <1>1, <1>3, <1>6 DEF TypeOK, RowsSound
<1>12. CurrentIsLatest'
  <2>1. ASSUME NEW n \in Materials, links'[n] # Null
        PROVE  links'[n].current = Len(blobs'[links'[n].id])
    <3>1. CASE n = m
      BY <1>1, <1>3, <1>6, <1>8, <1>9, <3>1 DEF TypeOK
    <3>2. CASE n # m
      <4>1. links'[n] = links[n]
        BY <1>1, <1>9, <3>2 DEF TypeOK
      <4>2. links[n].id # id /\ links[n].id \in Ids
        BY <2>1, <3>2, <4>1, LinkFields DEF m
      <4> QED
        BY <1>1, <1>3, <2>1, <4>1, <4>2 DEF CurrentIsLatest, TypeOK
    <3> QED
      BY <3>1, <3>2
  <2> QED
    BY <2>1 DEF CurrentIsLatest
<1> QED
  BY <1>3, <1>10, <1>11, <1>12, WriteKeeps DEF TypeOK, RowsSound

\* What a removal does to the groups and to the links that remain.
LEMMA PromotedRows ==
  ASSUME Inductive, NEW u \in Users, edit[u].op \in {"remove", "leave"}, RemovalHolds(edit[u])
  PROVE  /\ edit[u].material \in Materials /\ edit[u].group \in Groups \cup {Null}
         /\ Promoted(edit[u]) \in [Groups -> GroupRow \cup {Null}]
         /\ \A g \in Groups : Promoted(edit[u])[g] # Null => groups[g] # Null
<1> DEFINE e == edit[u]
<1>1. /\ e \in Edit /\ EditSound(e) /\ groups \in [Groups -> GroupRow \cup {Null}]
  BY DEF Inductive, TypeOK, RowsSound
<1>2. /\ e.material \in Materials /\ e.group \in Groups \cup {Null} /\ e.to \in Ids \cup {Null}
      /\ e.active \in BOOLEAN /\ e.peers \in BOOLEAN
  BY <1>1 DEF EditSound, Edit
<1>3. CASE e.group # Null /\ e.active /\ e.peers
  <2>1. e.group \in Groups /\ groups[e.group] # Null
    BY <1>2, <1>3 DEF RemovalHolds
  <2>2. [groups[e.group] EXCEPT !.active = e.to] \in GroupRow
    BY <1>1, <1>2, <2>1 DEF GroupRow
  <2>3. Promoted(e) = [groups EXCEPT ![e.group] = [groups[e.group] EXCEPT !.active = e.to]]
    BY <1>3 DEF Promoted
  <2> QED
    BY <1>1, <1>2, <2>1, <2>2, <2>3
<1>4. CASE ~(e.group # Null /\ e.active /\ e.peers)
  BY <1>1, <1>2, <1>4 DEF Promoted
<1> QED
  BY <1>3, <1>4

LEMMA RemoveStep == ASSUME Inductive, NEW u \in Users, Remove(u) PROVE Inductive'
<1> DEFINE e == edit[u]
           m == e.material
           left == [links EXCEPT ![m] = Null]
           gs == Deactivated(Promoted(e), links[m].id)
<1>1. /\ e.op = "remove" /\ links[m] # Null /\ RemovalHolds(e)
      /\ groups' = Emptied(e, gs)
      /\ links' = IF e.group # Null /\ ~e.peers THEN Detached(left, e.group) ELSE left
      /\ Done(u) /\ UNCHANGED <<blobs, spent>>
  BY DEF Remove
<1>2. /\ m \in Materials /\ e.group \in Groups \cup {Null}
      /\ Promoted(e) \in [Groups -> GroupRow \cup {Null}]
      /\ \A g \in Groups : Promoted(e)[g] # Null => groups[g] # Null
  BY <1>1, PromotedRows
<1>3. gs \in [Groups -> GroupRow \cup {Null}] /\ \A g \in Groups : gs[g] # Null => groups[g] # Null
  BY <1>2, DeactivatedRows
<1>4. /\ left \in [Materials -> LinkRow \cup {Null}]
      /\ \A n \in Materials : left[n] # Null => links[n] # Null /\ left[n] = links[n]
  BY <1>2 DEF Inductive, TypeOK
<1> HIDE DEF e, m, left, gs
<1>5. /\ groups' \in [Groups -> GroupRow \cup {Null}]
      /\ \A g \in Groups : groups'[g] # Null => groups[g] # Null
  BY <1>1, <1>2, <1>3 DEF Emptied
<1>6. \A n \in Materials : left[n] # Null => left[n].id[1] = n
  BY <1>4 DEF Inductive, TypeOK
<1>7. /\ links' \in [Materials -> LinkRow \cup {Null}]
      /\ \A n \in Materials : links'[n] # Null =>
           links[n] # Null /\ links'[n].id = links[n].id /\ links'[n].current = links[n].current
  BY <1>1, <1>4, <1>6, DetachedRows
<1>8. CurrentIsLatest' /\ \A n \in Materials : links'[n] # Null => links'[n].id[1] = n
  BY <1>1, <1>7 DEF Inductive, CurrentIsLatest, TypeOK
<1>9. /\ blobs' \in [Ids -> Seq(0..MaxVersions)] /\ spent' \subseteq Groups
      /\ \A id \in Ids : Len(blobs'[id]) <= MaxVersions
      /\ \A g \in Groups : groups'[g] # Null => g \in spent'
  BY <1>1, <1>5 DEF Inductive, TypeOK, RowsSound
<1> QED
  BY <1>1, <1>5, <1>7, <1>8, <1>9, WriteKeeps

LEMMA LeaveStep == ASSUME Inductive, NEW u \in Users, Leave(u) PROVE Inductive'
<1> DEFINE e == edit[u]
           m == e.material
           left == [links EXCEPT ![m] = [links[m] EXCEPT !.group = Null]]
<1>1. /\ e.op = "leave" /\ Live(e.row) /\ RemovalHolds(e)
      /\ groups' = Emptied(e, Promoted(e))
      /\ links' = IF ~e.peers THEN Detached(left, e.group) ELSE left
      /\ Done(u) /\ UNCHANGED <<blobs, spent>>
  BY DEF Leave
<1>2. /\ m \in Materials /\ e.group \in Groups \cup {Null}
      /\ Promoted(e) \in [Groups -> GroupRow \cup {Null}]
      /\ \A g \in Groups : Promoted(e)[g] # Null => groups[g] # Null
  BY <1>1, PromotedRows
<1>3. links[m] # Null
  BY <1>1 DEF Inductive, RowsSound, EditSound, Live
<1>4. links[m] \in LinkRow
  BY <1>2, <1>3, LinkFields DEF Inductive
<1>5. /\ [links[m] EXCEPT !.group = Null] \in LinkRow
      /\ [links[m] EXCEPT !.group = Null].id = links[m].id
      /\ [links[m] EXCEPT !.group = Null].current = links[m].current
  BY <1>4 DEF LinkRow
<1>6. /\ left \in [Materials -> LinkRow \cup {Null}]
      /\ \A n \in Materials : left[n] # Null =>
           links[n] # Null /\ left[n].id = links[n].id /\ left[n].current = links[n].current
  BY <1>2, <1>3, <1>5 DEF Inductive, TypeOK
<1> HIDE DEF e, m, left
<1>7. /\ groups' \in [Groups -> GroupRow \cup {Null}]
      /\ \A g \in Groups : groups'[g] # Null => groups[g] # Null
  BY <1>1, <1>2 DEF Emptied
<1>8. \A n \in Materials : left[n] # Null => left[n].id[1] = n
  BY <1>6 DEF Inductive, TypeOK
<1>9. /\ links' \in [Materials -> LinkRow \cup {Null}]
      /\ \A n \in Materials : links'[n] # Null =>
           links[n] # Null /\ links'[n].id = links[n].id /\ links'[n].current = links[n].current
  BY <1>1, <1>6, <1>8, DetachedRows
<1>10. CurrentIsLatest' /\ \A n \in Materials : links'[n] # Null => links'[n].id[1] = n
  BY <1>1, <1>9 DEF Inductive, CurrentIsLatest, TypeOK
<1>11. /\ blobs' \in [Ids -> Seq(0..MaxVersions)] /\ spent' \subseteq Groups
       /\ \A id \in Ids : Len(blobs'[id]) <= MaxVersions
       /\ \A g \in Groups : groups'[g] # Null => g \in spent'
  BY <1>1, <1>7 DEF Inductive, TypeOK, RowsSound
<1> QED
  BY <1>1, <1>7, <1>9, <1>10, <1>11, WriteKeeps

LEMMA CreateGroupStep == ASSUME Inductive, NEW u \in Users, CreateGroup(u) PROVE Inductive'
<1> DEFINE id == edit[u].row
           m == id[1]
           row(g) == [links[m] EXCEPT !.group = g]
<1>1. PICK g \in Groups \ spent :
        /\ groups' = [groups EXCEPT ![g] = [active |-> id]]
        /\ links' = [links EXCEPT ![m] = row(g)]
        /\ spent' = spent \cup {g}
        /\ Live(id) /\ Done(u) /\ UNCHANGED blobs
  BY DEF CreateGroup
<1>2. id \in Ids
  <2>1. edit[u] \in Edit /\ edit[u].row # Null
    BY DEF Inductive, TypeOK, RowsSound, EditSound, CreateGroup
  <2> QED
    BY <2>1 DEF Edit
<1>3. m \in Materials /\ links[m] # Null /\ links[m] \in LinkRow
  BY <1>1, <1>2, IdParts, LinkFields DEF Live, Inductive
<1>4. row(g) \in LinkRow /\ row(g).id = links[m].id /\ row(g).current = links[m].current
  BY <1>3 DEF LinkRow
<1>5. [active |-> id] \in GroupRow
  BY <1>2 DEF GroupRow
<1> HIDE DEF id, m, row
<1>6. /\ links' \in [Materials -> LinkRow \cup {Null}]
      /\ \A n \in Materials : links'[n] # Null =>
           links[n] # Null /\ links'[n].id = links[n].id /\ links'[n].current = links[n].current
  BY <1>1, <1>3, <1>4 DEF Inductive, TypeOK
<1>7. CurrentIsLatest' /\ \A n \in Materials : links'[n] # Null => links'[n].id[1] = n
  BY <1>1, <1>6 DEF Inductive, CurrentIsLatest, TypeOK
<1>8. /\ groups' \in [Groups -> GroupRow \cup {Null}]
      /\ blobs' \in [Ids -> Seq(0..MaxVersions)] /\ spent' \subseteq Groups
      /\ \A i \in Ids : Len(blobs'[i]) <= MaxVersions
      /\ \A h \in Groups : groups'[h] # Null => h \in spent'
  BY <1>1, <1>5 DEF Inductive, TypeOK, RowsSound
<1> QED
  BY <1>1, <1>6, <1>7, <1>8, WriteKeeps

LEMMA JoinStep == ASSUME Inductive, NEW u \in Users, Join(u) PROVE Inductive'
<1> DEFINE e == edit[u]
           m == e.material
<1>1. e \in Edit /\ m \in Materials /\ e.group \in Groups
  <2>1. e \in Edit /\ e.material # Null /\ e.group # Null
    BY DEF Inductive, TypeOK, RowsSound, EditSound, Join
  <2> QED
    BY <2>1 DEF Edit
<1>2. /\ Done(u) /\ groups' = groups /\ spent' = spent
      /\ \A g \in Groups : groups'[g] # Null => g \in spent'
  BY DEF Join, Inductive, RowsSound
<1>3. CASE e.row # Null
  <2> DEFINE row == [links[m] EXCEPT !.group = e.group]
  <2>1. links' = [links EXCEPT ![m] = row] /\ blobs' = blobs
    BY <1>3 DEF Join
  <2>2. \A n \in Materials : links'[n] # Null /\ n # m => links[n] # Null /\ links'[n] = links[n]
    BY <2>1 DEF Inductive, TypeOK
  <2>3. CASE links[m] # Null
    <3>1. links[m] \in LinkRow
      BY <1>1, <2>3, LinkFields DEF Inductive
    <3>2. row \in LinkRow /\ row.id = links[m].id /\ row.current = links[m].current
      BY <1>1, <3>1 DEF LinkRow
    <3> HIDE DEF row, m, e
    <3>3. /\ links' \in [Materials -> LinkRow \cup {Null}]
          /\ \A n \in Materials : links'[n] # Null =>
               links[n] # Null /\ links'[n].id = links[n].id /\ links'[n].current = links[n].current
      BY <1>1, <2>1, <2>3, <3>2 DEF Inductive, TypeOK
    <3>4. CurrentIsLatest' /\ \A n \in Materials : links'[n] # Null => links'[n].id[1] = n
      BY <2>1, <3>3 DEF Inductive, CurrentIsLatest, TypeOK
    <3> QED
      BY <1>2, <2>1, <3>3, <3>4, WriteKeeps DEF Inductive, TypeOK, RowsSound
  <2>4. CASE links[m] = Null
    <3>1. Live(e.row) /\ e.row[1] = m
      BY <1>3 DEF Join, Inductive, RowsSound, EditSound
    <3> QED
      BY <2>4, <3>1 DEF Live
  <2> QED
    BY <2>3, <2>4
<1>4. CASE e.row = Null
  <2>1. PICK id \in NewIds(m) :
          /\ links' = [links EXCEPT ![m] = NewLink(id, e.group)]
          /\ blobs' = [blobs EXCEPT ![id] = <<0>>]
    BY <1>4 DEF Join
  <2>2. id \in Ids /\ id[1] = m
    BY <1>1, <2>1, NewIdParts
  <2>3. NewLink(id, e.group) \in LinkRow /\ NewLink(id, e.group).id = id
        /\ NewLink(id, e.group).current = 1
    BY <1>1, <2>2, ProductAssumption DEF NewLink, LinkRow
  <2>4. <<0>> \in Seq(0..MaxVersions) /\ Len(<<0>>) = 1
    BY ProductAssumption
  <2> HIDE DEF m, e
  <2>5. blobs' \in [Ids -> Seq(0..MaxVersions)] /\ \A i \in Ids : Len(blobs'[i]) <= MaxVersions
    BY <2>1, <2>2, <2>4, ProductAssumption DEF Inductive, TypeOK, RowsSound
  <2>6. /\ links' \in [Materials -> LinkRow \cup {Null}]
        /\ \A n \in Materials : links'[n] # Null => links'[n].id[1] = n
    BY <1>1, <2>1, <2>2, <2>3 DEF Inductive, TypeOK
  <2>7. CurrentIsLatest'
    <3>1. ASSUME NEW n \in Materials, links'[n] # Null
          PROVE  links'[n].current = Len(blobs'[links'[n].id])
      <4>1. CASE n = m
        BY <1>1, <2>1, <2>2, <2>3, <2>4, <4>1 DEF Inductive, TypeOK
      <4>2. CASE n # m
        <5>1. links'[n] = links[n]
          BY <1>1, <2>1, <4>2 DEF Inductive, TypeOK
        <5>2. links[n].id # id /\ links[n].id \in Ids
          BY <2>2, <3>1, <4>2, <5>1, LinkFields DEF Inductive
        <5> QED
          BY <2>1, <2>2, <3>1, <5>1, <5>2 DEF CurrentIsLatest, Inductive, TypeOK
      <4> QED
        BY <4>1, <4>2
    <3> QED
      BY <3>1 DEF CurrentIsLatest
  <2> QED
    BY <1>2, <2>5, <2>6, <2>7, WriteKeeps DEF Inductive, TypeOK, RowsSound
<1> QED
  BY <1>3, <1>4

LEMMA ActivateStep == ASSUME Inductive, NEW u \in Users, Activate(u) PROVE Inductive'
<1> DEFINE g == edit[u].group
           row == [groups[g] EXCEPT !.active = edit[u].row]
<1>1. /\ groups[g] # Null /\ groups' = [groups EXCEPT ![g] = row]
      /\ Done(u) /\ UNCHANGED <<links, blobs, spent>>
  BY DEF Activate
<1>2. edit[u] \in Edit /\ g \in Groups
  <2>1. edit[u] \in Edit /\ edit[u].group # Null
    BY DEF Inductive, TypeOK, RowsSound, EditSound, Activate
  <2> QED
    BY <2>1 DEF Edit
<1>3. row \in GroupRow
  BY <1>1, <1>2 DEF Inductive, TypeOK, GroupRow, Edit
<1> HIDE DEF g, row
<1>4. /\ groups' \in [Groups -> GroupRow \cup {Null}]
      /\ \A h \in Groups : groups'[h] # Null => h \in spent'
  BY <1>1, <1>2, <1>3 DEF Inductive, TypeOK, RowsSound
<1>5. CurrentIsLatest'
  BY <1>1 DEF Inductive, CurrentIsLatest
<1> QED
  BY <1>1, <1>4, <1>5, WriteKeeps DEF Inductive, TypeOK, RowsSound

LEMMA DeleteGroupStep == ASSUME Inductive, NEW u \in Users, DeleteGroup(u) PROVE Inductive'
<1> DEFINE g == edit[u].group
<1>1. /\ groups' = [groups EXCEPT ![g] = Null] /\ links' = Detached(links, g)
      /\ Done(u) /\ UNCHANGED <<blobs, spent>>
  BY DEF DeleteGroup
<1> HIDE DEF g
<1>2. /\ links' \in [Materials -> LinkRow \cup {Null}]
      /\ \A n \in Materials : links'[n] # Null =>
           links[n] # Null /\ links'[n].id = links[n].id /\ links'[n].current = links[n].current
  BY <1>1, DetachedRows DEF Inductive, TypeOK
<1>3. CurrentIsLatest' /\ \A n \in Materials : links'[n] # Null => links'[n].id[1] = n
  BY <1>1, <1>2 DEF Inductive, CurrentIsLatest, TypeOK
<1>4. /\ groups' \in [Groups -> GroupRow \cup {Null}]
      /\ \A h \in Groups : groups'[h] # Null => h \in spent'
  BY <1>1 DEF Inductive, TypeOK, RowsSound
<1> QED
  BY <1>1, <1>2, <1>3, <1>4, WriteKeeps DEF Inductive, TypeOK, RowsSound

\* The steps of an update in between, and the end of a request that failed.
LEMMA EditStep ==
  ASSUME Inductive, NEW u \in Users, NumberUpdate(u) \/ GiveUp(u) PROVE Inductive'
<1>1. edit[u] \in Edit /\ EditSound(edit[u]) /\ edit \in [Users -> Edit]
  BY DEF Inductive, TypeOK, RowsSound
<1>2. CASE NumberUpdate(u)
  <2> DEFINE next == Len(blobs[edit[u].row]) + 1
             e == [edit[u] EXCEPT !.op = "update", !.next = next]
  <2>1. edit[u].op = "number" /\ edit' = [edit EXCEPT ![u] = e]
        /\ UNCHANGED <<links, blobs, groups, spent>>
    BY <1>2 DEF NumberUpdate
  <2>2. edit[u].row \in Ids
    BY <1>1, <2>1 DEF EditSound, Edit
  <2>3. blobs[edit[u].row] \in Seq(0..MaxVersions) /\ Len(blobs[edit[u].row]) <= MaxVersions
    BY <2>2 DEF Inductive, TypeOK, RowsSound
  <2>4. next \in 0..(MaxVersions + 1)
    BY <2>3, ProductAssumption
  <2> HIDE DEF next
  <2>5. e \in Edit /\ e.op = "update" /\ e.row = edit[u].row
    BY <1>1, <2>4 DEF Edit
  <2> HIDE DEF e
  <2>6. EditSound(e) /\ Fresh(e)
    BY <2>2, <2>5, NullIsNothing DEF EditSound, Fresh
  <2> QED
    BY <2>1, <2>5, <2>6, EditKeeps
<1>3. CASE GiveUp(u)
  <2>1. Fresh(NoEdit)
    BY NoEditSound DEF Fresh
  <2> QED
    BY <1>3, <2>1, NoEditSound, EditKeeps DEF GiveUp
<1> QED
  BY <1>2, <1>3

LEMMA StepInductive == Inductive /\ [Next]_vars => Inductive'
<1> SUFFICES ASSUME Inductive, [Next]_vars PROVE Inductive'
  OBVIOUS
<1>1. CASE UNCHANGED vars
  <2>1. UNCHANGED <<links, blobs, groups, spent, edit>>
    BY <1>1 DEF vars
  <2>2. TypeOK' /\ CurrentIsLatest'
    BY <2>1 DEF Inductive, TypeOK, CurrentIsLatest
  <2>3. RowsSound'
    BY <2>1 DEF Inductive, RowsSound, EditSound
  <2>4. ASSUME NEW v \in Users, NEW d, d \in {edit'[v]}, ~d.raced
        PROVE  Fresh(d)'
    <3>1. d \in Edit /\ Fresh(d)
      BY <2>1, <2>4 DEF Inductive, TypeOK, ReadsFresh
    <3> QED
      BY <2>1, <3>1, FreshStays
  <2>5. ReadsFresh'
    BY <2>4 DEF ReadsFresh
  <2> QED
    BY <2>2, <2>3, <2>5 DEF Inductive
<1>2. CASE Next
  <2>1. PICK u \in Users :
          \/ ReadAdd(u) \/ ReadUpdate(u) \/ NumberUpdate(u) \/ ReadRemoval(u)
          \/ ReadCreateGroup(u) \/ ReadJoin(u) \/ ReadActivate(u) \/ ReadDelete(u)
          \/ Writes(u) \/ GiveUp(u)
    BY <1>2 DEF Next
  <2>2. CASE Writes(u)
    BY <2>2, AddStep, UpdateStep, RemoveStep, LeaveStep, CreateGroupStep, JoinStep,
       ActivateStep, DeleteGroupStep DEF Writes
  <2> QED
    BY <2>1, <2>2, ReadStep, EditStep
<1> QED
  BY <1>1, <1>2

\* The invariant holds in every state that the code can reach.
THEOREM InductiveInvariant == Spec => []Inductive
BY InitInductive, StepInductive, PTL DEF Spec

\* Rows, versions and what users have read keep their types.
THEOREM TypeCorrect == Spec => []TypeOK
<1>1. Inductive => TypeOK
  BY DEF Inductive
<1> QED
  BY <1>1, InductiveInvariant, PTL

\* Whoever updates at the same time, a link shows its latest version.
THEOREM CurrentAlwaysLatest == Spec => []CurrentIsLatest
<1>1. Inductive => CurrentIsLatest
  BY DEF Inductive
<1> QED
  BY <1>1, InductiveInvariant, PTL

-----------------------------------------------------------------------------
(* Groups *)

AllSound == \A g \in Groups : Sound(g)

\* What a sound group's active member is.
LEMMA ActiveMember ==
  ASSUME TypeOK, NEW g \in Groups, Sound(g), groups[g] # Null
  PROVE  LET a == groups[g].active
         IN  /\ a \in Ids /\ a[1] \in Materials /\ a # Null
             /\ links[a[1]] # Null /\ links[a[1]].id = a /\ links[a[1]].group = g
<1>1. groups[g].active # Null /\ groups[g].active \in Ids
  BY DEF TypeOK, GroupRow, Sound
<1> QED
  BY <1>1, IdParts DEF Sound, Live

\* A group whose row and whose active member stay as they are stays sound.
LEMMA StaysSound ==
  ASSUME NEW g \in Groups, Sound(g),
         groups'[g] # Null =>
           LET m == groups[g].active[1]
           IN  /\ groups'[g] = groups[g]
               /\ links'[m] # Null /\ links'[m].id = links[m].id /\ links'[m].group = links[m].group
  PROVE  Sound(g)'
BY DEF Sound, Live

LEMMA AddSound ==
  ASSUME Inductive, AllSound, NEW u \in Users, Add(u) PROVE AllSound'
<1> DEFINE m == edit[u].material
<1>1. PICK row : links[m] = Null /\ links' = [links EXCEPT ![m] = row] /\ groups' = groups
  BY DEF Add
<1> HIDE DEF m
<1>2. ASSUME NEW g \in Groups PROVE Sound(g)'
  <2>1. Sound(g)
    BY DEF AllSound
  <2> QED
    BY <1>1, <2>1, ActiveMember, StaysSound DEF Inductive, TypeOK
<1> QED
  BY <1>2 DEF AllSound

LEMMA UpdateSound ==
  ASSUME Inductive, AllSound, NEW u \in Users, Update(u) PROVE AllSound'
<1> DEFINE m == edit[u].row[1]
           row == [links[m] EXCEPT !.current = edit[u].next]
<1>1. links[m] # Null /\ links' = [links EXCEPT ![m] = row] /\ groups' = groups
  BY DEF Update, Live
<1>2. m \in Materials => row # Null /\ row.id = links[m].id /\ row.group = links[m].group
  <2>1. m \in Materials => links[m] \in LinkRow
    BY <1>1, LinkFields DEF Inductive
  <2>2. edit[u].next \in 1..MaxVersions
    <3>1. edit[u].row \in Ids
      BY DEF Inductive, TypeOK, RowsSound, EditSound, Edit, Update
    <3>2. Len(blobs[edit[u].row]) \in Nat
      BY <3>1 DEF Inductive, TypeOK
    <3> QED
      BY <3>2, ProductAssumption DEF Update
  <2>3. m \in Materials => row \in LinkRow
    BY <2>1, <2>2 DEF LinkRow
  <2> QED
    BY <2>1, <2>3, NullIsNothing DEF LinkRow
<1> HIDE DEF m, row
<1>3. ASSUME NEW g \in Groups PROVE Sound(g)'
  <2>1. Sound(g)
    BY DEF AllSound
  <2> QED
    BY <1>1, <1>2, <2>1, ActiveMember, StaysSound DEF Inductive, TypeOK
<1> QED
  BY <1>3 DEF AllSound

LEMMA CreateGroupSound ==
  ASSUME Inductive, AllSound, NEW u \in Users, CreateGroup(u), ~edit[u].raced PROVE AllSound'
<1> DEFINE id == edit[u].row
           m == id[1]
           row(g) == [links[m] EXCEPT !.group = g]
<1>1. PICK g \in Groups \ spent :
        /\ groups' = [groups EXCEPT ![g] = [active |-> id]]
        /\ links' = [links EXCEPT ![m] = row(g)]
        /\ Live(id)
  BY DEF CreateGroup
<1>2. id \in Ids /\ links[m].group = Null
  <2>1. edit[u] \in Edit /\ edit[u].row # Null
    BY DEF Inductive, TypeOK, RowsSound, EditSound, CreateGroup
  <2>2. Fresh(edit[u])
    BY DEF Inductive, ReadsFresh
  <2> QED
    BY <2>1, <2>2 DEF Edit, Fresh, CreateGroup
<1>3. id # Null /\ m \in Materials /\ links[m] # Null /\ links[m].id = id /\ links[m] \in LinkRow
  BY <1>1, <1>2, IdParts, LinkFields DEF Live, Inductive
<1>4. row(g).id = id /\ row(g).group = g /\ row(g) # Null
  <2>1. row(g) \in LinkRow
    BY <1>3 DEF LinkRow
  <2> QED
    BY <1>3, <2>1, NullIsNothing DEF LinkRow
<1> HIDE DEF id, m, row
<1>5. ASSUME NEW h \in Groups PROVE Sound(h)'
  <2>1. Sound(h)
    BY DEF AllSound
  <2>2. CASE h = g
    <3>1. groups'[g] = [active |-> id] /\ links'[m] = row(g)
      BY <1>1, <1>3 DEF Inductive, TypeOK
    <3> QED
      BY <1>3, <1>4, <2>2, <3>1 DEF Sound, Live, m
  <2>3. CASE h # g
    BY <1>1, <1>2, <1>3, <2>1, <2>3, NullIsNothing, ActiveMember, StaysSound DEF Inductive, TypeOK
  <2> QED
    BY <2>2, <2>3
<1> QED
  BY <1>5 DEF AllSound

LEMMA JoinSound ==
  ASSUME Inductive, AllSound, NEW u \in Users, Join(u), ~edit[u].raced PROVE AllSound'
<1> DEFINE m == edit[u].material
<1>1. links[m] # Null => links[m].group = Null
  BY DEF Inductive, ReadsFresh, Fresh, Join
<1>2. PICK row : links' = [links EXCEPT ![m] = row] /\ groups' = groups
  BY DEF Join
<1> HIDE DEF m
<1>3. ASSUME NEW g \in Groups PROVE Sound(g)'
  <2>1. Sound(g)
    BY DEF AllSound
  <2> QED
    BY <1>1, <1>2, <2>1, NullIsNothing, ActiveMember, StaysSound DEF Inductive, TypeOK
<1> QED
  BY <1>3 DEF AllSound

LEMMA ActivateSound ==
  ASSUME Inductive, AllSound, NEW u \in Users, Activate(u), ~edit[u].raced PROVE AllSound'
<1> DEFINE g == edit[u].group
           id == edit[u].row
           row == [groups[g] EXCEPT !.active = id]
<1>1. groups[g] # Null /\ groups' = [groups EXCEPT ![g] = row] /\ links' = links /\ Live(id)
  BY DEF Activate, MayActivate
<1>2. g \in Groups /\ id \in Ids /\ links[id[1]].group = g
  <2>1. edit[u] \in Edit /\ edit[u].group # Null /\ edit[u].row # Null
    BY DEF Inductive, TypeOK, RowsSound, EditSound, Activate
  <2>2. Fresh(edit[u])
    BY DEF Inductive, ReadsFresh
  <2> QED
    BY <2>1, <2>2 DEF Edit, Fresh, Activate
<1>3. row.active = id /\ id # Null
  BY <1>1, <1>2, IdParts DEF Inductive, TypeOK, GroupRow
<1> HIDE DEF g, id, row
<1>4. ASSUME NEW h \in Groups PROVE Sound(h)'
  <2>1. Sound(h)
    BY DEF AllSound
  <2>2. CASE h = g
    BY <1>1, <1>2, <1>3, <2>2 DEF Sound, Live, Inductive, TypeOK
  <2>3. CASE h # g
    BY <1>1, <2>1, <2>3 DEF Sound, Live, Inductive, TypeOK
  <2> QED
    BY <2>2, <2>3
<1> QED
  BY <1>4 DEF AllSound

LEMMA DeleteGroupSound ==
  ASSUME Inductive, AllSound, NEW u \in Users, DeleteGroup(u) PROVE AllSound'
<1> DEFINE g == edit[u].group
<1>1. groups' = [groups EXCEPT ![g] = Null] /\ links' = Detached(links, g) /\ groups[g] # Null
  BY DEF DeleteGroup
<1> HIDE DEF g
<1>2. \A n \in Materials : links[n] # Null =>
        /\ links'[n] # Null /\ links'[n].id = links[n].id
        /\ links'[n].group = IF links[n].group = g THEN Null ELSE links[n].group
  BY <1>1, DetachedRows DEF Inductive, TypeOK
<1>3. ASSUME NEW h \in Groups PROVE Sound(h)'
  <2>1. Sound(h)
    BY DEF AllSound
  <2> QED
    BY <1>1, <1>2, <2>1, ActiveMember, StaysSound DEF Inductive, TypeOK
<1> QED
  BY <1>3 DEF AllSound

\* A material leaves its group: its active member is another one, or the
\* replacement that the removal has read, or the group goes too.
LEMMA RemovalSound ==
  ASSUME Inductive, AllSound, NEW e, e.material \in Materials, e.group \in Groups \cup {Null},
         e.active \in BOOLEAN, e.peers \in BOOLEAN, RemovalHolds(e), RemovalFresh(e),
         NEW gs, groups' = Emptied(e, gs), gs \in [Groups -> GroupRow \cup {Null}],
         \A g \in Groups :
           /\ Promoted(e)[g] = Null => gs[g] = Null
           /\ Promoted(e)[g] # Null /\ Promoted(e)[g].active # e.row => gs[g] = Promoted(e)[g],
         \A n \in Materials : n # e.material /\ links[n] # Null =>
           /\ links'[n] # Null /\ links'[n].id = links[n].id
           /\ e.peers \/ links[n].group # e.group => links'[n].group = links[n].group
  PROVE  AllSound'
<1> DEFINE m == e.material
<1>1. /\ links[m] # Null /\ links[m].id = e.row /\ links[m].group = e.group
      /\ e.active = IsActive(e.row)
      /\ e.peers /\ e.active => \E n \in Members(e.group) \ {m} : e.to = links[n].id
  BY DEF RemovalFresh
<1>2. e.row[1] = m /\ e.row \in Ids
  BY <1>1, LinkFields DEF Inductive
<1>3. groups \in [Groups -> GroupRow \cup {Null}]
  BY DEF Inductive, TypeOK
<1> HIDE DEF m
<1>4. ASSUME NEW h \in Groups, h # e.group PROVE Sound(h)'
  <2>1. Sound(h)
    BY DEF AllSound
  <2>2. groups'[h] = gs[h] /\ Promoted(e)[h] = groups[h]
    BY <1>3, <1>4 DEF Emptied, Promoted
  <2>3. CASE groups[h] = Null
    BY <2>2, <2>3 DEF Sound
  <2>4. CASE groups[h] # Null
    <3> DEFINE a == groups[h].active
    <3>1. /\ a \in Ids /\ a[1] \in Materials /\ links[a[1]] # Null /\ links[a[1]].id = a
          /\ links[a[1]].group = h
      BY <2>1, <2>4, ActiveMember DEF Inductive
    <3>2. a[1] # m /\ a # e.row
      BY <1>1, <1>2, <1>4, <3>1
    <3>3. groups'[h] = groups[h]
      BY <2>2, <2>4, <3>2
    <3> QED
      BY <1>4, <2>1, <3>1, <3>2, <3>3, StaysSound DEF m
  <2> QED
    BY <2>3, <2>4
<1>5. ASSUME e.group \in Groups PROVE Sound(e.group)'
  <2> DEFINE h == e.group
  <2>1. Sound(h) /\ h # Null
    BY <1>5, NullIsNothing DEF AllSound
  <2>2. CASE ~e.peers
    <3>1. groups'[h] = Null
      BY <1>5, <2>1, <2>2 DEF Emptied
    <3> QED
      BY <3>1 DEF Sound
  <2>3. CASE e.peers /\ ~e.active
    <3>1. groups'[h] = gs[h] /\ Promoted(e)[h] = groups[h]
      BY <2>3 DEF Emptied, Promoted
    <3>2. CASE groups[h] = Null
      BY <1>5, <3>1, <3>2 DEF Sound
    <3>3. CASE groups[h] # Null
      <4> DEFINE a == groups[h].active
      <4>1. /\ a \in Ids /\ a[1] \in Materials /\ links[a[1]] # Null /\ links[a[1]].id = a
        BY <1>5, <2>1, <3>3, ActiveMember DEF Inductive
      <4>2. a # e.row
        BY <1>1, <1>5, <2>3, <3>3 DEF IsActive
      <4>3. a[1] # m
        BY <1>1, <4>1, <4>2
      <4>4. groups'[h] = groups[h]
        BY <1>5, <3>1, <3>3, <4>2
      <4> QED
        BY <1>5, <2>1, <2>3, <4>1, <4>3, <4>4, StaysSound DEF m
    <3> QED
      BY <3>2, <3>3
  <2>4. CASE e.peers /\ e.active
    <3>1. PICK n \in Materials :
            n # m /\ links[n] # Null /\ links[n].group = h /\ e.to = links[n].id
      BY <1>1, <2>4 DEF Members
    <3>2. e.to[1] = n /\ e.to # Null /\ e.to \in Ids
      BY <3>1, LinkFields DEF Inductive
    <3>3. groups[h] # Null
      BY <2>1, <2>4 DEF RemovalHolds
    <3> DEFINE row == [groups[h] EXCEPT !.active = e.to]
    <3>4. row.active = e.to /\ row # Null
      <4>1. row \in GroupRow /\ groups[h] \in GroupRow
        BY <1>3, <1>5, <3>2, <3>3 DEF GroupRow
      <4> QED
        BY <4>1, NullIsNothing DEF GroupRow
    <3>5. Promoted(e) = [groups EXCEPT ![h] = row]
      BY <2>1, <2>4 DEF Promoted
    <3> HIDE DEF row
    <3>6. Promoted(e)[h] = row
      BY <1>3, <1>5, <3>5
    <3>7. e.to # e.row
      BY <1>2, <3>1, <3>2
    <3>8. groups'[h] = row
      BY <1>5, <2>4, <3>4, <3>6, <3>7 DEF Emptied
    <3>9. links'[n] # Null /\ links'[n].id = e.to /\ links'[n].group = h
      BY <2>4, <3>1 DEF m
    <3> QED
      BY <3>2, <3>4, <3>8, <3>9 DEF Sound, Live
  <2> QED
    BY <2>2, <2>3, <2>4
<1> QED
  BY <1>4, <1>5 DEF AllSound

LEMMA RemoveSound ==
  ASSUME Inductive, AllSound, NEW u \in Users, Remove(u), ~edit[u].raced PROVE AllSound'
<1> DEFINE e == edit[u]
           m == e.material
           left == [links EXCEPT ![m] = Null]
           gs == Deactivated(Promoted(e), links[m].id)
<1>1. /\ e.op = "remove" /\ RemovalHolds(e) /\ groups' = Emptied(e, gs)
      /\ links' = IF e.group # Null /\ ~e.peers THEN Detached(left, e.group) ELSE left
  BY DEF Remove
<1>2. /\ m \in Materials /\ e.group \in Groups \cup {Null}
      /\ Promoted(e) \in [Groups -> GroupRow \cup {Null}]
  BY <1>1, PromotedRows
<1>3. RemovalFresh(e) /\ links[m].id = e.row
  BY <1>1 DEF Inductive, ReadsFresh, Fresh, RemovalFresh
<1>4. e.active \in BOOLEAN /\ e.peers \in BOOLEAN
  BY DEF Inductive, TypeOK, Edit
<1>5. /\ gs \in [Groups -> GroupRow \cup {Null}]
      /\ \A g \in Groups :
           /\ Promoted(e)[g] = Null => gs[g] = Null
           /\ Promoted(e)[g] # Null /\ Promoted(e)[g].active # e.row => gs[g] = Promoted(e)[g]
  BY <1>2, <1>3, DeactivatedRows
<1>6. /\ left \in [Materials -> LinkRow \cup {Null}] /\ left[m] = Null
      /\ \A n \in Materials : n # m => left[n] = links[n]
      /\ \A n \in Materials : left[n] # Null => left[n].id[1] = n
  BY <1>2 DEF Inductive, TypeOK
<1> HIDE DEF e, m, left, gs
<1>7. \A n \in Materials : n # m /\ links[n] # Null =>
        /\ links'[n] # Null /\ links'[n].id = links[n].id
        /\ e.peers \/ links[n].group # e.group => links'[n].group = links[n].group
  BY <1>1, <1>6, DetachedRows
<1> QED
  BY <1>1, <1>2, <1>3, <1>4, <1>5, <1>7, RemovalSound DEF m

LEMMA LeaveSound ==
  ASSUME Inductive, AllSound, NEW u \in Users, Leave(u), ~edit[u].raced PROVE AllSound'
<1> DEFINE e == edit[u]
           m == e.material
           row == [links[m] EXCEPT !.group = Null]
           left == [links EXCEPT ![m] = row]
<1>1. /\ e.op = "leave" /\ RemovalHolds(e) /\ groups' = Emptied(e, Promoted(e))
      /\ links' = IF ~e.peers THEN Detached(left, e.group) ELSE left
  BY DEF Leave
<1>2. /\ m \in Materials /\ e.group \in Groups \cup {Null}
      /\ Promoted(e) \in [Groups -> GroupRow \cup {Null}]
  BY <1>1, PromotedRows
<1>3. RemovalFresh(e) /\ links[m] # Null
  BY <1>1 DEF Inductive, ReadsFresh, Fresh, RemovalFresh
<1>4. e.active \in BOOLEAN /\ e.peers \in BOOLEAN
  BY DEF Inductive, TypeOK, Edit
<1>5. row \in LinkRow /\ row.id[1] = m
  <2>1. links[m] \in LinkRow /\ links[m].id[1] = m
    BY <1>2, <1>3, LinkFields DEF Inductive
  <2> QED
    BY <2>1 DEF LinkRow
<1> HIDE DEF row
<1>6. /\ left \in [Materials -> LinkRow \cup {Null}]
      /\ \A n \in Materials : n # m => left[n] = links[n]
      /\ \A n \in Materials : left[n] # Null => left[n].id[1] = n
  BY <1>2, <1>5 DEF Inductive, TypeOK
<1> HIDE DEF e, m, left
<1>7. \A n \in Materials : n # m /\ links[n] # Null =>
        /\ links'[n] # Null /\ links'[n].id = links[n].id
        /\ e.peers \/ links[n].group # e.group => links'[n].group = links[n].group
  BY <1>1, <1>6, DetachedRows
<1> QED
  BY <1>1, <1>2, <1>3, <1>4, <1>7, RemovalSound DEF m

\* Groups keep exactly one active member, which is a member, as long as no write
\* comes that somebody else's write has overtaken.
THEOREM GroupsBreakOnlyByRaces == Spec => OnlyRacesBreakGroups
<1>1. ASSUME Inductive, [Next]_vars
      PROVE  [(\A g \in Groups : Sound(g)) /\ (\A u \in Users : Writes(u) => ~edit[u].raced)
                => \A g \in Groups : Sound(g)']_vars
  <2> SUFFICES ASSUME Next, AllSound, \A u \in Users : Writes(u) => ~edit[u].raced
               PROVE  AllSound'
    BY <1>1 DEF AllSound
  <2>1. PICK u \in Users :
          \/ ReadAdd(u) \/ ReadUpdate(u) \/ NumberUpdate(u) \/ ReadRemoval(u)
          \/ ReadCreateGroup(u) \/ ReadJoin(u) \/ ReadActivate(u) \/ ReadDelete(u)
          \/ Writes(u) \/ GiveUp(u)
    BY DEF Next
  <2>2. CASE Writes(u)
    BY <1>1, <2>2, AddSound, UpdateSound, RemoveSound, LeaveSound, CreateGroupSound, JoinSound,
       ActivateSound, DeleteGroupSound DEF Writes
  <2>3. CASE ~Writes(u)
    <3>1. links' = links /\ groups' = groups
      BY <2>1, <2>3 DEF ReadAdd, ReadUpdate, NumberUpdate, ReadRemoval, ReadCreateGroup, ReadJoin,
         ReadActivate, ReadDelete, GiveUp, Reads
    <3> QED
      BY <3>1 DEF AllSound, Sound, Live
  <2> QED
    BY <2>2, <2>3
<1> QED
  BY <1>1, InductiveInvariant, PTL DEF Spec, OnlyRacesBreakGroups

-----------------------------------------------------------------------------
(* When no write is overtaken. *)

\* Then every group there is has exactly one active member, which is one of its
\* members: the checks before the writes are enough.
THEOREM FreshWritesKeepGroups == Spec /\ NoneOvertaken => []OneActivePerGroup
<1> DEFINE Alone == \A u \in Users : Writes(u) => ~edit[u].raced
<1>1. Init => OneActivePerGroup
  BY DEF Init, OneActivePerGroup, Sound
<1>2. ASSUME OneActivePerGroup, [Alone]_vars,
             [(\A g \in Groups : Sound(g)) /\ (\A u \in Users : Writes(u) => ~edit[u].raced)
                => \A g \in Groups : Sound(g)']_vars
      PROVE  OneActivePerGroup'
  <2>1. CASE UNCHANGED vars
    BY <1>2, <2>1 DEF vars, OneActivePerGroup, Sound, Live
  <2>2. CASE Alone
    BY <1>2, <2>2, <2>1 DEF OneActivePerGroup
  <2> QED
    BY <1>2, <2>1, <2>2
<1>3. NoneOvertaken <=> [][Alone]_vars
  BY PTL DEF NoneOvertaken
<1> HIDE DEF Alone
<1> QED
  BY <1>1, <1>2, <1>3, GroupsBreakOnlyByRaces, PTL DEF Spec, OnlyRacesBreakGroups

\* An update that nobody has overtaken is made from the latest version.
UpdatesFresh ==
  \A u \in Users : edit[u].op \in {"number", "update"} /\ ~edit[u].raced =>
    edit[u].base = Len(blobs[edit[u].row])

\* A write leaves no edit that has not been overtaken.
LEMMA DoneOvertakes ==
  ASSUME TypeOK, NEW u \in Users, Done(u)
  PROVE  UpdatesFresh'
<1>1. ASSUME NEW v \in Users
      PROVE  edit'[v].raced \/ edit'[v].op = "none"
  <2>1. edit'[v] = NoEdit \/ edit'[v] = [edit[v] EXCEPT !.raced = TRUE]
    BY DEF Done
  <2>2. [edit[v] EXCEPT !.raced = TRUE].raced
    BY DEF TypeOK, Edit
  <2> QED
    BY <2>1, <2>2, NoEditSound
<1> QED
  BY <1>1 DEF UpdatesFresh

\* What a user reads is the latest version, and numbering it changes none.
LEMMA UpdatesStayFresh == Inductive /\ UpdatesFresh /\ [Next]_vars => UpdatesFresh'
<1> SUFFICES ASSUME Inductive, UpdatesFresh, Next PROVE UpdatesFresh'
  BY DEF vars, UpdatesFresh
<1>0. TypeOK
  BY DEF Inductive
<1>1. PICK u \in Users :
        \/ ReadAdd(u) \/ ReadUpdate(u) \/ NumberUpdate(u) \/ ReadRemoval(u)
        \/ ReadCreateGroup(u) \/ ReadJoin(u) \/ ReadActivate(u) \/ ReadDelete(u)
        \/ Writes(u) \/ GiveUp(u)
  BY DEF Next
<1>2. CASE Writes(u)
  BY <1>0, <1>2, DoneOvertakes
  DEF Writes, Add, Update, Remove, Leave, CreateGroup, Join, Activate, DeleteGroup
<1>3. ASSUME NEW e, edit' = [edit EXCEPT ![u] = e], UNCHANGED blobs,
             e.op \in {"number", "update"} /\ ~e.raced => e.base = Len(blobs[e.row])
      PROVE  UpdatesFresh'
  <2>1. \A v \in Users : edit'[v] = IF v = u THEN e ELSE edit[v]
    BY <1>0, <1>3 DEF TypeOK
  <2> QED
    BY <1>3, <2>1 DEF UpdatesFresh
<1>4. CASE ReadUpdate(u)
  <2>1. PICK m \in Materials :
          /\ links[m] # Null
          /\ Reads(u, [NoEdit EXCEPT !.op = "number", !.row = links[m].id, !.base = links[m].current])
    BY <1>4 DEF ReadUpdate
  <2> DEFINE e == [NoEdit EXCEPT !.op = "number", !.row = links[m].id, !.base = links[m].current]
  <2>2. e.base = links[m].current /\ e.row = links[m].id
    BY DEF NoEdit
  <2>3. edit' = [edit EXCEPT ![u] = e] /\ UNCHANGED blobs
    BY <2>1 DEF Reads
  <2>4. links[m].current = Len(blobs[links[m].id])
    BY <2>1 DEF Inductive, CurrentIsLatest
  <2> HIDE DEF e
  <2> QED
    BY <1>3, <2>2, <2>3, <2>4
<1>5. CASE NumberUpdate(u)
  <2> DEFINE e == [edit[u] EXCEPT !.op = "update", !.next = Len(blobs[edit[u].row]) + 1]
  <2>1. edit' = [edit EXCEPT ![u] = e] /\ UNCHANGED blobs
    BY <1>5 DEF NumberUpdate
  <2>2. e.base = edit[u].base /\ e.row = edit[u].row
    BY <1>0 DEF TypeOK, Edit
  <2>3. e.raced = edit[u].raced
    BY <1>0 DEF TypeOK, Edit
  <2>4. ~e.raced => e.base = Len(blobs[e.row])
    BY <1>5, <2>2, <2>3 DEF NumberUpdate, UpdatesFresh
  <2> HIDE DEF e
  <2> QED
    BY <1>3, <2>1, <2>4
<1>6. ASSUME NEW e, edit' = [edit EXCEPT ![u] = e], UNCHANGED blobs, e.op \notin {"number", "update"}
      PROVE  UpdatesFresh'
  BY <1>3, <1>6
<1>7. CASE ReadAdd(u)
  BY <1>6, <1>7 DEF ReadAdd, Reads, NoEdit
<1>8. CASE ReadRemoval(u)
  BY <1>6, <1>8 DEF ReadRemoval, Reads, NoEdit
<1>9. CASE ReadCreateGroup(u)
  BY <1>6, <1>9 DEF ReadCreateGroup, Reads, NoEdit
<1>10. CASE ReadJoin(u)
  BY <1>6, <1>10 DEF ReadJoin, Reads, NoEdit
<1>11. CASE ReadActivate(u)
  BY <1>6, <1>11 DEF ReadActivate, Reads, NoEdit
<1>12. CASE ReadDelete(u)
  BY <1>6, <1>12 DEF ReadDelete, Reads, NoEdit
<1>13. CASE GiveUp(u)
  BY <1>6, <1>13, NoEditSound DEF GiveUp
<1> QED
  BY <1>1, <1>2, <1>4, <1>5, <1>7, <1>8, <1>9, <1>10, <1>11, <1>12, <1>13

\* A version is added by a new link, or by an update that was read before it.
LEMMA ChainStep ==
  Inductive /\ UpdatesFresh /\ VersionsChain
    /\ [Next]_vars /\ [\A u \in Users : Writes(u) => ~edit[u].raced]_vars => VersionsChain'
<1> SUFFICES ASSUME Inductive, UpdatesFresh, VersionsChain, Next,
                    \A u \in Users : Writes(u) => ~edit[u].raced
             PROVE  VersionsChain'
  BY DEF vars, VersionsChain
<1>0. TypeOK
  BY DEF Inductive
<1>1. PICK u \in Users :
        \/ ReadAdd(u) \/ ReadUpdate(u) \/ NumberUpdate(u) \/ ReadRemoval(u)
        \/ ReadCreateGroup(u) \/ ReadJoin(u) \/ ReadActivate(u) \/ ReadDelete(u)
        \/ Writes(u) \/ GiveUp(u)
  BY DEF Next
<1>2. ASSUME NEW id \in Ids, blobs' = [blobs EXCEPT ![id] = << 0 >>]
      PROVE  VersionsChain'
  <2>1. \A v \in 1..Len(<<0>>) : <<0>>[v] = v - 1
    OBVIOUS
  <2>2. \A i \in Ids : blobs'[i] = IF i = id THEN <<0>> ELSE blobs[i]
    BY <1>0, <1>2 DEF TypeOK
  <2> QED
    BY <2>1, <2>2 DEF VersionsChain
<1>3. CASE Update(u)
  <2> DEFINE id == edit[u].row
             base == edit[u].base
  <2>1. ~edit[u].raced
    BY <1>3 DEF Writes
  <2>2. id \in Ids
    BY <1>3 DEF Inductive, TypeOK, RowsSound, EditSound, Edit, Update
  <2>3. blobs' = [blobs EXCEPT ![id] = Append(@, base)] /\ base = Len(blobs[id])
    BY <1>3, <2>1 DEF Update, UpdatesFresh
  <2>4. blobs[id] \in Seq(0..MaxVersions) /\ \A v \in 1..Len(blobs[id]) : blobs[id][v] = v - 1
    BY <1>0, <2>2 DEF TypeOK, VersionsChain
  <2> HIDE DEF id, base
  <2>5. \A v \in 1..Len(Append(blobs[id], base)) : Append(blobs[id], base)[v] = v - 1
    BY <2>3, <2>4
  <2>6. \A i \in Ids : blobs'[i] = IF i = id THEN Append(blobs[id], base) ELSE blobs[i]
    BY <1>0, <2>2, <2>3 DEF TypeOK
  <2> QED
    BY <2>5, <2>6 DEF VersionsChain
<1>4. CASE Add(u)
  <2>1. edit[u].material \in Materials
    BY <1>4 DEF Inductive, TypeOK, RowsSound, EditSound, Edit, Add
  <2>2. PICK id \in NewIds(edit[u].material) : blobs' = [blobs EXCEPT ![id] = <<0>>]
    BY <1>4 DEF Add
  <2> QED
    BY <1>2, <2>1, <2>2, NewIdParts
<1>5. CASE Join(u)
  <2>1. edit[u].material \in Materials
    BY <1>5 DEF Inductive, TypeOK, RowsSound, EditSound, Edit, Join
  <2>2. CASE blobs' = blobs
    BY <2>2 DEF VersionsChain
  <2>3. CASE blobs' # blobs
    <3>1. PICK id \in NewIds(edit[u].material) : blobs' = [blobs EXCEPT ![id] = <<0>>]
      BY <1>5, <2>3 DEF Join
    <3> QED
      BY <1>2, <2>1, <3>1, NewIdParts
  <2> QED
    BY <2>2, <2>3
<1>6. CASE blobs' = blobs
  BY <1>6 DEF VersionsChain
<1>7. Add(u) \/ Update(u) \/ Join(u) \/ blobs' = blobs
  BY <1>1 DEF ReadAdd, ReadUpdate, NumberUpdate, ReadRemoval, ReadCreateGroup, ReadJoin, ReadActivate,
     ReadDelete, Reads, GiveUp, Writes, Remove, Leave, CreateGroup, Activate, DeleteGroup
<1> QED
  BY <1>3, <1>4, <1>5, <1>6, <1>7

\* Then no update of a link is lost either: each version was made from the one
\* before it.
THEOREM FreshUpdatesChain == Spec /\ NoneOvertaken => []VersionsChain
<1>1. Init => UpdatesFresh /\ VersionsChain
  BY NoEditSound DEF Init, UpdatesFresh, VersionsChain
<1>2. Spec => []UpdatesFresh
  BY <1>1, UpdatesStayFresh, InductiveInvariant, PTL DEF Spec
<1> QED
  BY <1>1, <1>2, ChainStep, InductiveInvariant, PTL DEF Spec, NoneOvertaken

=============================================================================
