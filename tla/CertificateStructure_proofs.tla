---------------------- MODULE CertificateStructure_proofs ----------------------
(***************************************************************************)
(* Proofs about the tree of a certificate, for any tree, ranks and number  *)
(* of edits: type correctness, answered questions stay, and, while one      *)
(* administrator edits, a drag keeps the order of the others and always     *)
(* succeeds for a question, and the ancestors that rows name agree.         *)
(***************************************************************************)
EXTENDS CertificateStructure, TLAPS

-----------------------------------------------------------------------------
(* Levels *)

LEMMA LevelOf ==
    ASSUME NEW level \in Levels, NEW i \in level
    PROVE  Level(i) = level
BY LevelsDistinct DEF Levels, Level, Ids

\* What a row hangs off, level by level.
LEMMA Parents ==
    ASSUME NEW place
    PROVE  /\ Mains # {} => Parent(Mains, place) = Nowhere
           /\ Sections # {} => Parent(Sections, place) = place.main
           /\ Subs # {} => Parent(Subs, place) = place.section
           /\ Questions # {} => Parent(Questions, place) =
                 IF place.sub # Nowhere THEN place.sub ELSE place.section
BY LevelsDistinct DEF Parent

-----------------------------------------------------------------------------
(* The statements keep a tree a tree *)

\* Ranks count from 1, and every row but a main section names its main section.
IsTree(t) ==
    /\ Rows(t) \subseteq Ids /\ t \in [Rows(t) -> Places]
    /\ \A x \in Rows(t) : Counted(t[x]) /\ (x \in Mains \/ t[x].main \in Mains)

\* The same ranks, and the same rows below the same ancestors.
SameRanks(t, u) == Rows(u) = Rows(t) /\ \A x \in Rows(t) : u[x].rank = t[x].rank
SameTree(t, u) ==
    /\ Rows(u) = Rows(t)
    /\ \A x \in Rows(t) :
          u[x].main = t[x].main /\ u[x].section = t[x].section /\ u[x].sub = t[x].sub

LEMMA ClosedRows ==
    ASSUME NEW t, NEW scope, NEW r \in Nat, r >= 1, IsTree(t),
           NEW u, u = Closed(t, scope, r)
    PROVE  /\ IsTree(u) /\ SameTree(t, u)
           /\ \A x \in Rows(t) : u[x].rank =
                 IF x \in scope /\ t[x].rank > r THEN t[x].rank - 1 ELSE t[x].rank
           /\ \A x \in Rows(t) \ scope : u[x] = t[x]
<1>1. u = [x \in Rows(t) |-> IF x \in scope
             THEN [t[x] EXCEPT !.rank = IF t[x].rank > r THEN t[x].rank - 1 ELSE t[x].rank]
             ELSE t[x]]
  BY DEF Closed, Reranked
<1>2. Rows(u) = Rows(t)
  BY <1>1 DEF Rows
<1>3. ASSUME NEW x \in Rows(t)
      PROVE  /\ u[x] \in Places
             /\ Counted(u[x])
             /\ u[x].main = t[x].main /\ u[x].section = t[x].section /\ u[x].sub = t[x].sub
             /\ u[x].rank = IF x \in scope /\ t[x].rank > r THEN t[x].rank - 1 ELSE t[x].rank
             /\ x \notin scope => u[x] = t[x]
  <2>1. t[x] \in Places /\ Counted(t[x])
    BY DEF IsTree
  <2> QED BY <1>1, <2>1 DEF Places, Counted
<1>4. IsTree(u)
  BY <1>1, <1>2, <1>3 DEF IsTree
<1> QED BY <1>2, <1>3, <1>4 DEF SameTree

LEMMA OpenedRows ==
    ASSUME NEW t, NEW scope, NEW r \in Nat, IsTree(t),
           NEW u, u = Opened(t, scope, r)
    PROVE  /\ IsTree(u) /\ SameTree(t, u)
           /\ \A x \in Rows(t) : u[x].rank =
                 IF x \in scope /\ t[x].rank >= r THEN t[x].rank + 1 ELSE t[x].rank
           /\ \A x \in Rows(t) \ scope : u[x] = t[x]
<1>1. u = [x \in Rows(t) |-> IF x \in scope
             THEN [t[x] EXCEPT !.rank = IF t[x].rank >= r THEN t[x].rank + 1 ELSE t[x].rank]
             ELSE t[x]]
  BY DEF Opened, Reranked
<1>2. Rows(u) = Rows(t)
  BY <1>1 DEF Rows
<1>3. ASSUME NEW x \in Rows(t)
      PROVE  /\ u[x] \in Places
             /\ Counted(u[x])
             /\ u[x].main = t[x].main /\ u[x].section = t[x].section /\ u[x].sub = t[x].sub
             /\ u[x].rank = IF x \in scope /\ t[x].rank >= r THEN t[x].rank + 1 ELSE t[x].rank
             /\ x \notin scope => u[x] = t[x]
  <2>1. t[x] \in Places /\ Counted(t[x])
    BY DEF IsTree
  <2> QED BY <1>1, <2>1 DEF Places, Counted
<1>4. IsTree(u)
  BY <1>1, <1>2, <1>3 DEF IsTree
<1> QED BY <1>2, <1>3, <1>4 DEF SameTree

LEMMA SlideIsNat ==
    ASSUME NEW k \in Nat, NEW old \in Nat, NEW new \in Nat, k >= 1, old >= 1
    PROVE  SlideRank(k, old, new) \in Nat /\ SlideRank(k, old, new) >= 1
BY DEF SlideRank

LEMMA SlidRows ==
    ASSUME NEW t, NEW scope, NEW old, NEW new, old \in Nat, new \in Nat, old >= 1, IsTree(t),
           NEW u, u = Slid(t, scope, old, new)
    PROVE  /\ IsTree(u) /\ SameTree(t, u)
           /\ \A x \in Rows(t) : u[x].rank =
                 IF x \in scope THEN SlideRank(t[x].rank, old, new) ELSE t[x].rank
           /\ \A x \in Rows(t) \ scope : u[x] = t[x]
<1>1. u = [x \in Rows(t) |-> IF x \in scope
             THEN [t[x] EXCEPT !.rank = SlideRank(t[x].rank, old, new)] ELSE t[x]]
  BY DEF Slid, Reranked
<1>2. Rows(u) = Rows(t)
  BY <1>1 DEF Rows
<1>3. ASSUME NEW x \in Rows(t)
      PROVE  /\ u[x] \in Places
             /\ Counted(u[x])
             /\ u[x].main = t[x].main /\ u[x].section = t[x].section /\ u[x].sub = t[x].sub
             /\ u[x].rank = IF x \in scope THEN SlideRank(t[x].rank, old, new) ELSE t[x].rank
             /\ x \notin scope => u[x] = t[x]
  <2>1. t[x] \in Places /\ Counted(t[x])
    BY DEF IsTree
  <2>2. SlideRank(t[x].rank, old, new) \in Nat /\ SlideRank(t[x].rank, old, new) >= 1
    BY <2>1, SlideIsNat DEF Places, Counted
  <2> QED BY <1>1, <2>1, <2>2 DEF Places, Counted
<1>4. IsTree(u)
  BY <1>1, <1>2, <1>3 DEF IsTree
<1> QED BY <1>2, <1>3, <1>4 DEF SameTree

\* The shifts of a drag: rows but the dragged one's siblings, old and new, are
\* left alone, and the siblings keep the order they had.
LEMMA SlideKeepsOrder ==
    ASSUME NEW k \in Nat, NEW l \in Nat, NEW old \in Nat, NEW new \in Nat,
           k # old, l # old, k < l
    PROVE  SlideRank(k, old, new) < SlideRank(l, old, new)
BY DEF SlideRank

\* The rank the dragged row goes to is free.
LEMMA SlideFrees ==
    ASSUME NEW k \in Nat, NEW old \in Nat, NEW new \in Nat, k # old
    PROVE  SlideRank(k, old, new) # new
BY DEF SlideRank

LEMMA PutRows ==
    ASSUME NEW t, NEW i \in Ids, NEW place \in Places, IsTree(t),
           Counted(place), i \in Mains \/ place.main \in Mains,
           NEW u, u = Put(t, i, place)
    PROVE  /\ IsTree(u) /\ Rows(u) = Rows(t) \cup {i}
           /\ u[i] = place
           /\ \A x \in Rows(t) \ {i} : u[x] = t[x]
<1>1. u = [x \in Rows(t) \cup {i} |-> IF x = i THEN place ELSE t[x]]
  BY DEF Put
<1>2. Rows(u) = Rows(t) \cup {i} /\ \A x \in Rows(u) : u[x] = IF x = i THEN place ELSE t[x]
  BY <1>1 DEF Rows
<1>3. IsTree(u)
  <2>1. \A x \in Rows(u) :
           u[x] \in Places /\ Counted(u[x]) /\ (x \in Mains \/ u[x].main \in Mains)
    BY <1>2 DEF IsTree
  <2>2. u = [x \in Rows(u) |-> u[x]]
    BY <1>1, <1>2
  <2> QED BY <1>2, <2>1, <2>2 DEF IsTree
<1> QED BY <1>2, <1>3

LEMMA RehungRows ==
    ASSUME NEW t, NEW moved, NEW main, main \in Mains,
           NEW section, section \in Sections \cup {Nowhere}, IsTree(t),
           NEW u, u = Rehung(t, moved, main, section)
    PROVE  IsTree(u) /\ SameRanks(t, u)
<1>1. u = [x \in Rows(t) |-> IF x \notin moved THEN t[x]
             ELSE [t[x] EXCEPT !.main = main,
                               !.section = IF section = Nowhere THEN t[x].section ELSE section]]
  BY DEF Rehung
<1>2. Rows(u) = Rows(t)
  BY <1>1 DEF Rows
<1>3. ASSUME NEW x \in Rows(t)
      PROVE  /\ u[x] \in Places /\ u[x].rank = t[x].rank
             /\ x \in moved => u[x].main = main
             /\ x \notin moved => u[x] = t[x]
  <2>1. t[x] \in Places
    BY DEF IsTree
  <2> DEFINE s == IF section = Nowhere THEN t[x].section ELSE section
             y == [t[x] EXCEPT !.main = main, !.section = s]
  <2>2. s \in Sections \cup {Nowhere}
    BY <2>1 DEF Places
  <2>3. u[x] = IF x \notin moved THEN t[x] ELSE y
    BY <1>1
  <2> HIDE DEF s
  <2>4. /\ y \in Places /\ y.main = main
        /\ y.rank = t[x].rank
    BY <2>1, <2>2 DEF Places
  <2> HIDE DEF y
  <2> QED BY <2>1, <2>3, <2>4
<1>4. IsTree(u)
  BY <1>1, <1>2, <1>3 DEF IsTree, Counted
<1> QED BY <1>2, <1>3, <1>4 DEF SameRanks

LEMMA WithoutRows ==
    ASSUME NEW t, NEW gone, IsTree(t), NEW u, u = Without(t, gone)
    PROVE  IsTree(u)
<1>1. Rows(u) = Rows(t) \ gone
  BY DEF Without, Rows
<1>2. ASSUME NEW x \in Rows(u)
      PROVE  u[x] \in Places /\ Counted(u[x]) /\ (x \in Mains \/ u[x].main \in Mains)
  <2>1. t[x] \in Places /\ Counted(t[x]) /\ (x \in Mains \/ t[x].main \in Mains)
    BY <1>1, <1>2 DEF IsTree
  <2>2. u[x] = IF t[x].sub \in gone THEN [t[x] EXCEPT !.sub = Nowhere] ELSE t[x]
    BY <1>1, <1>2 DEF Without
  <2> QED BY <2>1, <2>2 DEF Places, Counted
<1>3. u = [x \in Rows(u) |-> u[x]]
  BY <1>1 DEF Without
<1> QED BY <1>1, <1>2, <1>3 DEF IsTree

\* The questions of a sub-section that is promoted.
Lifted(t, moved, place) == [x \in Rows(t) |->
    IF x \in moved THEN [place EXCEPT !.rank = t[x].rank] ELSE t[x]]

LEMMA LiftedRows ==
    ASSUME NEW t, NEW moved, NEW place \in Places, place.main \in Mains, IsTree(t),
           NEW u, u = Lifted(t, moved, place)
    PROVE  IsTree(u) /\ Rows(u) = Rows(t)
<1>1. Rows(u) = Rows(t)
  BY DEF Rows, Lifted
<1>2. \A x \in Rows(t) :
         u[x] \in Places /\ Counted(u[x]) /\ (x \in Mains \/ u[x].main \in Mains)
  BY DEF IsTree, Places, Counted, Lifted
<1>3. u = [x \in Rows(t) |-> u[x]]
  BY DEF Lifted
<1> QED BY <1>1, <1>2, <1>3 DEF IsTree

\* The questions of a section that is demoted.
Sunk(t, moved, b) == [x \in Rows(t) |->
    IF x \in moved THEN [t[x] EXCEPT !.sub = b] ELSE t[x]]

LEMMA SunkRows ==
    ASSUME NEW t, NEW moved, NEW b \in Subs, IsTree(t),
           NEW u, u = Sunk(t, moved, b)
    PROVE  IsTree(u) /\ Rows(u) = Rows(t)
<1>1. Rows(u) = Rows(t)
  BY DEF Rows, Sunk
<1>2. \A x \in Rows(t) :
         u[x] \in Places /\ Counted(u[x]) /\ (x \in Mains \/ u[x].main \in Mains)
  BY DEF IsTree, Places, Counted, Sunk
<1>3. u = [x \in Rows(t) |-> u[x]]
  BY DEF Sunk
<1> QED BY <1>1, <1>2, <1>3 DEF IsTree

-----------------------------------------------------------------------------
(* A drag *)

LEMMA ShiftedTree ==
    ASSUME NEW t, NEW i \in Ids, NEW old \in Places, NEW to \in Places, IsTree(t),
           Counted(old),
           NEW u, u = Shifted(t, i, old, to)
    PROVE  /\ IsTree(u) /\ SameTree(t, u)
           /\ \A x \in Rows(t) \ (Level(i) \ {i}) : u[x] = t[x]
<1> DEFINE level == Level(i)
           From == Scope(t, level, Parent(level, old)) \ {i}
           Into == Scope(t, level, Parent(level, to)) \ {i}
<1>1. old.rank \in Nat /\ old.rank >= 1 /\ to.rank \in Nat
  BY DEF Places, Counted
<1>2. From \subseteq level \ {i} /\ Into \subseteq level \ {i}
  BY DEF Scope
<1>3. \/ u = Slid(t, From, old.rank, to.rank)
      \/ u = Opened(Closed(t, From, old.rank), Into, to.rank)
  BY DEF Shifted
<1> HIDE DEF From, Into
<1>4. CASE u = Slid(t, From, old.rank, to.rank)
  <2>1. IsTree(u) /\ SameTree(t, u) /\ \A x \in Rows(t) \ From : u[x] = t[x]
    BY <1>1, <1>4, SlidRows
  <2> QED BY <1>2, <2>1
<1>5. ASSUME NEW c, c = Closed(t, From, old.rank), u = Opened(c, Into, to.rank)
      PROVE  /\ IsTree(u) /\ SameTree(t, u)
             /\ \A x \in Rows(t) \ (level \ {i}) : u[x] = t[x]
  <2>1. IsTree(c) /\ SameTree(t, c) /\ \A x \in Rows(t) \ From : c[x] = t[x]
    BY <1>1, <1>5, ClosedRows
  <2>2. IsTree(u) /\ SameTree(c, u) /\ \A x \in Rows(c) \ Into : u[x] = c[x]
    BY <1>1, <1>5, <2>1, OpenedRows
  <2> QED BY <1>2, <2>1, <2>2 DEF SameTree
<1> QED BY <1>3, <1>4, <1>5

\* The rows beside the dragged one get the ranks of the shift.
LEMMA MovedTree ==
    ASSUME NEW t, NEW i \in Rows(t), NEW old \in Places, NEW to \in Places, IsTree(t),
           i \in Mains \/ to.main \in Mains, Counted(old), Counted(to),
           NEW shifted, shifted = Shifted(t, i, old, to),
           NEW u, u = Moved(t, i, old, to)
    PROVE  /\ IsTree(u) /\ Rows(u) = Rows(t)
           /\ \A x \in Rows(t) \ {i} : u[x].rank = shifted[x].rank
           /\ i \in Questions => u = Put(shifted, i, to)
<1> DEFINE placed == Put(shifted, i, to)
<1>1. i \in Ids
  BY DEF IsTree
<1>2. IsTree(shifted) /\ Rows(shifted) = Rows(t)
  <2>1. IsTree(shifted) /\ SameTree(t, shifted)
    BY <1>1, ShiftedTree
  <2> QED BY <2>1 DEF SameTree
<1>3. \/ u = placed
      \/ i \in Sections /\ u = Rehung(placed, InSection(placed, i), to.main, Nowhere)
      \/ i \in Subs /\ u = Rehung(placed, InSub(placed, i), to.main, to.section)
  BY DEF Moved
<1>4. i \in Sections \cup Subs => i \notin Mains /\ i \notin Questions
  BY LevelsDistinct
<1>5. to.section \in Sections \cup {Nowhere}
  BY DEF Places
<1>6. placed = Put(shifted, i, to)
  OBVIOUS
<1> HIDE DEF placed
<1>7. /\ IsTree(placed) /\ Rows(placed) = Rows(t)
      /\ \A x \in Rows(t) \ {i} : placed[x] = shifted[x]
  <2>1. /\ IsTree(placed) /\ Rows(placed) = Rows(shifted) \cup {i}
        /\ \A x \in Rows(shifted) \ {i} : placed[x] = shifted[x]
    BY <1>1, <1>2, <1>6, PutRows
  <2> QED BY <1>2, <2>1
<1>8. ASSUME NEW moved, NEW main, main \in Mains,
             NEW section, section \in Sections \cup {Nowhere},
             u = Rehung(placed, moved, main, section)
      PROVE  /\ IsTree(u) /\ Rows(u) = Rows(t)
             /\ \A x \in Rows(t) \ {i} : u[x].rank = shifted[x].rank
  <2>1. IsTree(u)
    BY <1>7, <1>8, RehungRows
  <2>2. SameRanks(placed, u)
    BY <1>7, <1>8, RehungRows
  <2> QED BY <1>7, <2>1, <2>2 DEF SameRanks
<1>9. CASE u = placed
  BY <1>6, <1>7, <1>9
<1>10. CASE u # placed
  <2>1. PICK moved, main, section :
           /\ main = to.main /\ section \in Sections \cup {Nowhere}
           /\ u = Rehung(placed, moved, main, section) /\ i \in Sections \cup Subs
    BY <1>3, <1>5, <1>10
  <2>2. main \in Mains
    BY <1>4, <2>1
  <2> QED BY <1>4, <1>8, <2>1, <2>2
<1> QED BY <1>9, <1>10

\* Siblings below the level of main sections have different ranks.
LEMMA SiblingRanks ==
    ASSUME NEW t, Distinct(t), NEW level \in {Sections, Subs, Questions},
           NEW x \in Rows(t) \cap level, NEW y \in Rows(t) \cap level, x # y,
           Parent(level, t[x]) = Parent(level, t[y])
    PROVE  t[x].rank # t[y].rank
<1>1. CASE level = Sections
  BY <1>1, Parents DEF Distinct, Path
<1>2. CASE level \in {Subs, Questions}
  BY <1>2 DEF Distinct
<1> QED BY <1>1, <1>2

\* Two siblings beside the dragged row.
LEMMA ShiftKeepsOrder ==
    ASSUME NEW t, IsTree(t), Distinct(t), NEW i \in Rows(t), NEW to \in Places,
           NEW level \in {Sections, Subs, Questions},
           NEW x \in (Rows(t) \cap level) \ {i}, NEW y \in (Rows(t) \cap level) \ {i},
           Parent(level, t[x]) = Parent(level, t[y]), t[x].rank < t[y].rank,
           NEW u, u = Shifted(t, i, t[i], to)
    PROVE  u[x].rank < u[y].rank
<1> DEFINE old == t[i]
           From == Scope(t, level, Parent(level, old)) \ {i}
           Into == Scope(t, level, Parent(level, to)) \ {i}
<1>1. i \in Ids /\ old \in Places /\ Counted(old) /\ t[x] \in Places /\ t[y] \in Places
  BY DEF IsTree
<1>2. old.rank \in Nat /\ old.rank >= 1 /\ to.rank \in Nat /\ t[x].rank \in Nat /\ t[y].rank \in Nat
  BY <1>1 DEF Places, Counted
<1>3. Level(i) \in Levels /\ i \in Level(i)
  BY <1>1, LevelOf DEF Levels, Ids
<1>4. CASE level # Level(i)
  <2>1. x \notin Level(i) /\ y \notin Level(i)
    BY <1>3, <1>4, LevelOf DEF Levels
  <2>2. u[x] = t[x] /\ u[y] = t[y]
    BY <1>1, <2>1, ShiftedTree
  <2> QED BY <2>2
<1>5. CASE level = Level(i)
  <2>1. (x \in From <=> y \in From) /\ (x \in Into <=> y \in Into)
    BY DEF Scope
  <2>2. x \in From => t[x].rank # old.rank /\ t[y].rank # old.rank
    BY <1>3, <1>5, SiblingRanks DEF Scope
  <2>3. \/ u = Slid(t, From, old.rank, to.rank)
        \/ u = Opened(Closed(t, From, old.rank), Into, to.rank)
    BY <1>5 DEF Shifted
  <2> HIDE DEF From, Into, old
  <2>4. CASE u = Slid(t, From, old.rank, to.rank)
    <3>1. /\ u[x].rank = IF x \in From THEN SlideRank(t[x].rank, old.rank, to.rank) ELSE t[x].rank
          /\ u[y].rank = IF y \in From THEN SlideRank(t[y].rank, old.rank, to.rank) ELSE t[y].rank
      BY <1>2, <2>4, SlidRows
    <3>2. x \in From => SlideRank(t[x].rank, old.rank, to.rank) < SlideRank(t[y].rank, old.rank, to.rank)
      BY <1>2, <2>2, SlideKeepsOrder
    <3> QED BY <2>1, <3>1, <3>2
  <2>5. ASSUME NEW c, c = Closed(t, From, old.rank), u = Opened(c, Into, to.rank)
        PROVE  u[x].rank < u[y].rank
    <3>1. /\ IsTree(c) /\ Rows(c) = Rows(t)
          /\ c[x].rank = IF x \in From /\ t[x].rank > old.rank THEN t[x].rank - 1 ELSE t[x].rank
          /\ c[y].rank = IF y \in From /\ t[y].rank > old.rank THEN t[y].rank - 1 ELSE t[y].rank
      BY <1>2, <2>5, ClosedRows DEF SameTree
    <3>2. c[x].rank < c[y].rank /\ c[x].rank \in Nat /\ c[y].rank \in Nat
      BY <1>2, <2>1, <2>2, <3>1
    <3>3. /\ u[x].rank = IF x \in Into /\ c[x].rank >= to.rank THEN c[x].rank + 1 ELSE c[x].rank
          /\ u[y].rank = IF y \in Into /\ c[y].rank >= to.rank THEN c[y].rank + 1 ELSE c[y].rank
      BY <1>2, <2>5, <3>1, OpenedRows
    <3> QED BY <1>2, <2>1, <3>2, <3>3
  <2> QED BY <2>3, <2>4, <2>5
<1> QED BY <1>4, <1>5

LEMMA DragKeepsOrder ==
    ASSUME NEW t, IsTree(t), Distinct(t), NEW i \in Rows(t), NEW to \in Places,
           Counted(to), i \in Mains \/ to.main \in Mains,
           NEW level \in {Sections, Subs, Questions},
           NEW x \in (Rows(t) \cap level) \ {i}, NEW y \in (Rows(t) \cap level) \ {i},
           Parent(level, t[x]) = Parent(level, t[y]), t[x].rank < t[y].rank,
           NEW u, u = Moved(t, i, t[i], to)
    PROVE  u[x].rank < u[y].rank
<1>1. t[i] \in Places /\ Counted(t[i])
  BY DEF IsTree
<1>2. PICK shifted : shifted = Shifted(t, i, t[i], to)
  OBVIOUS
<1>3. shifted[x].rank < shifted[y].rank
  BY <1>2, ShiftKeepsOrder
<1>4. PICK old : old = t[i]
  OBVIOUS
<1>5. \A z \in Rows(t) \ {i} : u[z].rank = shifted[z].rank
  BY <1>1, <1>2, <1>4, MovedTree
<1> QED BY <1>3, <1>5

-----------------------------------------------------------------------------
(* A dragged question always arrives *)

\* Its new place is below rows of the tree.
Anchored(t, to) == {to.main, to.section, to.sub} \subseteq Rows(t) \cup {Nowhere}

\* The rank asked for is free in the new scope once the others have made room.
LEMMA RoomMade ==
    ASSUME NEW t, IsTree(t), Distinct(t), NEW i \in Rows(t) \cap Questions, NEW to \in Places,
           NEW y \in (Rows(t) \cap Questions) \ {i},
           Parent(Questions, t[y]) = Parent(Questions, to),
           NEW u, u = Shifted(t, i, t[i], to)
    PROVE  u[y].rank # to.rank
<1> DEFINE old == t[i]
           From == Scope(t, Questions, Parent(Questions, old)) \ {i}
           Into == Scope(t, Questions, Parent(Questions, to)) \ {i}
<1>1. i \in Ids /\ old \in Places /\ Counted(old) /\ t[y] \in Places
  BY DEF IsTree
<1>2. old.rank \in Nat /\ old.rank >= 1 /\ to.rank \in Nat /\ t[y].rank \in Nat
  BY <1>1 DEF Places, Counted
<1>3. Level(i) = Questions
  BY LevelOf DEF Levels
<1>4. y \in Into /\ (y \in From <=> Parent(Questions, old) = Parent(Questions, to))
  BY DEF Scope
<1>5. y \in From => t[y].rank # old.rank
  BY SiblingRanks DEF Scope
<1>6. \/ y \in From /\ u = Slid(t, From, old.rank, to.rank)
      \/ y \notin From /\ u = Opened(Closed(t, From, old.rank), Into, to.rank)
  BY <1>3, <1>4 DEF Shifted
<1> HIDE DEF From, Into, old
<1>7. CASE y \in From /\ u = Slid(t, From, old.rank, to.rank)
  <2>1. u[y].rank = SlideRank(t[y].rank, old.rank, to.rank)
    BY <1>2, <1>7, SlidRows
  <2> QED BY <1>2, <1>5, <1>7, <2>1, SlideFrees
<1>8. ASSUME NEW c, c = Closed(t, From, old.rank), u = Opened(c, Into, to.rank), y \notin From
      PROVE  u[y].rank # to.rank
  <2>1. IsTree(c) /\ Rows(c) = Rows(t) /\ c[y].rank = t[y].rank
    BY <1>2, <1>8, ClosedRows DEF SameTree
  <2>2. u[y].rank = IF y \in Into /\ c[y].rank >= to.rank THEN c[y].rank + 1 ELSE c[y].rank
    BY <1>2, <1>8, <2>1, OpenedRows
  <2> QED BY <1>2, <1>4, <2>1, <2>2
<1> QED BY <1>6, <1>7, <1>8

\* What a dragged question leaves of the tree.
LEMMA QuestionDragged ==
    ASSUME NEW t, IsTree(t), NEW i \in Rows(t) \cap Questions, NEW to \in Places,
           Counted(to), to.main \in Mains,
           NEW shifted, shifted = Shifted(t, i, t[i], to),
           NEW u, u = Moved(t, i, t[i], to)
    PROVE  /\ IsTree(u) /\ Rows(u) = Rows(t) /\ u[i] = to
           /\ SameTree(t, shifted)
           /\ \A x \in Rows(t) \ {i} : u[x] = shifted[x]
           /\ \A x \in Rows(t) \ Questions : u[x] = t[x]
<1>1. i \in Ids /\ t[i] \in Places /\ Counted(t[i]) /\ Level(i) = Questions
  BY LevelOf DEF IsTree, Levels
<1>2. /\ IsTree(shifted) /\ SameTree(t, shifted)
      /\ \A x \in Rows(t) \ (Questions \ {i}) : shifted[x] = t[x]
  BY <1>1, ShiftedTree
<1>3. u = Put(shifted, i, to) /\ IsTree(u) /\ Rows(u) = Rows(t)
  BY <1>1, MovedTree
<1>4. Rows(shifted) = Rows(t)
  BY <1>2 DEF SameTree
<1>5. u[i] = to /\ \A x \in Rows(t) \ {i} : u[x] = shifted[x]
  BY <1>1, <1>2, <1>3, <1>4, PutRows
<1> QED BY <1>2, <1>3, <1>5

LEMMA QuestionArrives ==
    ASSUME NEW t, IsTree(t), Legal(t), NEW i \in Rows(t) \cap Questions, NEW to \in Places,
           Counted(to), to.main \in Mains, Anchored(t, to),
           NEW u, u = Moved(t, i, t[i], to)
    PROVE  Legal(u) /\ Rows(u) = Rows(t) /\ u[i] = to
<1>1. PICK shifted : shifted = Shifted(t, i, t[i], to)
  OBVIOUS
<1>2. /\ IsTree(u) /\ Rows(u) = Rows(t) /\ u[i] = to
      /\ SameTree(t, shifted)
      /\ \A x \in Rows(t) \ {i} : u[x] = shifted[x]
      /\ \A x \in Rows(t) \ Questions : u[x] = t[x]
  BY <1>1, QuestionDragged
<1>3. \A x \in Rows(t) \ {i} :
         u[x].main = t[x].main /\ u[x].section = t[x].section /\ u[x].sub = t[x].sub
  BY <1>2 DEF SameTree
<1>4. Related(u)
  BY <1>2, <1>3 DEF Legal, Related, Anchored
<1>5. \A x, y \in Rows(u) \cap Sections : Path(u, x) = Path(u, y) => x = y
  <2>1. \A x \in Rows(u) \cap Sections : u[x] = t[x] /\ t[x].main \in Mains
    BY <1>2, LevelsDistinct DEF IsTree
  <2>2. \A x \in Rows(u) \cap Sections : t[x].main \in Rows(t)
    BY <1>2, <2>1, LevelsDistinct DEF Legal, Related, Ids
  <2>3. \A m \in Rows(t) \cap Mains : u[m] = t[m]
    BY <1>2, LevelsDistinct
  <2>4. \A x \in Rows(u) \cap Sections : Path(u, x) = Path(t, x)
    BY <2>1, <2>2, <2>3 DEF Path
  <2> QED BY <1>2, <2>4 DEF Legal, Distinct
<1>6. ASSUME NEW x \in Rows(u) \cap Subs, NEW y \in Rows(u) \cap Subs,
             Parent(Subs, u[x]) = Parent(Subs, u[y]), u[x].rank = u[y].rank
      PROVE  x = y
  <2>1. u[x] = t[x] /\ u[y] = t[y]
    BY <1>2, LevelsDistinct
  <2> QED BY <1>2, <1>6, <2>1 DEF Legal, Distinct
<1>7. ASSUME NEW x \in Rows(u) \cap Questions, NEW y \in Rows(u) \cap Questions, x # y,
             Parent(Questions, u[x]) = Parent(Questions, u[y])
      PROVE  u[x].rank # u[y].rank
  <2>1. \A z \in (Rows(t) \cap Questions) \ {i} :
           u[z].rank = shifted[z].rank /\ Parent(Questions, u[z]) = Parent(Questions, t[z])
    BY <1>2, <1>3, Parents
  <2>2. CASE x = i
    <3>1. y \in (Rows(t) \cap Questions) \ {i} /\ Parent(Questions, t[y]) = Parent(Questions, to)
      BY <1>2, <1>7, <2>1, <2>2
    <3> QED BY <1>1, <1>2, <2>1, <2>2, <3>1, RoomMade DEF Legal
  <2>3. CASE y = i
    <3>1. x \in (Rows(t) \cap Questions) \ {i} /\ Parent(Questions, t[x]) = Parent(Questions, to)
      BY <1>2, <1>7, <2>1, <2>3
    <3> QED BY <1>1, <1>2, <2>1, <2>3, <3>1, RoomMade DEF Legal
  <2>4. CASE x # i /\ y # i
    <3>1. /\ x \in (Rows(t) \cap Questions) \ {i} /\ y \in (Rows(t) \cap Questions) \ {i}
          /\ Parent(Questions, t[x]) = Parent(Questions, t[y]) /\ t[x] \in Places /\ t[y] \in Places
      BY <1>2, <1>7, <2>1, <2>4 DEF IsTree
    <3>2. t[x].rank # t[y].rank /\ t[x].rank \in Nat /\ t[y].rank \in Nat
      BY <1>7, <3>1, SiblingRanks DEF Legal, Places
    <3>3. shifted \in [Rows(t) -> Places]
      BY <1>1, <3>1, ShiftedTree DEF IsTree, SameTree
    <3>4. shifted[x].rank \in Nat /\ shifted[y].rank \in Nat
      BY <3>1, <3>3 DEF Places
    <3>5. CASE t[x].rank < t[y].rank
      <4>1. shifted[x].rank < shifted[y].rank
        BY <1>1, <3>1, <3>5, ShiftKeepsOrder DEF Legal
      <4> QED BY <2>1, <3>1, <3>4, <4>1
    <3>6. CASE t[y].rank < t[x].rank
      <4>1. shifted[y].rank < shifted[x].rank
        BY <1>1, <3>1, <3>6, ShiftKeepsOrder DEF Legal
      <4> QED BY <2>1, <3>1, <3>4, <4>1
    <3> QED BY <3>2, <3>5, <3>6
  <2> QED BY <2>2, <2>3, <2>4
<1> QED BY <1>2, <1>4, <1>5, <1>6, <1>7 DEF Legal, Distinct

-----------------------------------------------------------------------------
(* The places a request asks for *)

LEMMA RankedPlace ==
    ASSUME NEW t, NEW level, NEW place \in Places, NEW wanted,
           NEW to, to = Ranked(t, level, place, wanted), to.rank \in 1 .. MaxRank
    PROVE  /\ to \in Places /\ Counted(to)
           /\ to.main = place.main /\ to.section = place.section /\ to.sub = place.sub
<1>1. PICK k : to = [place EXCEPT !.rank = k]
  BY DEF Ranked
<1>2. to.rank = k /\ k \in Nat /\ k >= 1
  BY <1>1, Bounds DEF Places
<1> QED BY <1>1, <1>2 DEF Places, Counted

LEMMA BelowPlace ==
    ASSUME NEW t, IsTree(t), NEW p \in Rows(t) \cap (Mains \cup Sections \cup Subs),
           NEW place, place = Below(t, p)
    PROVE  /\ place \in Places /\ place.main \in Mains
           /\ Related(t) => Anchored(t, place)
<1>1. t[p] \in Places /\ (p \in Mains \/ t[p].main \in Mains)
  BY DEF IsTree
<1>2. /\ place.main = IF p \in Mains THEN p ELSE t[p].main
      /\ place.section = IF p \in Sections THEN p ELSE IF p \in Subs THEN t[p].section ELSE Nowhere
      /\ place.sub = IF p \in Subs THEN p ELSE Nowhere
      /\ place = [main |-> place.main, section |-> place.section, sub |-> place.sub, rank |-> 0]
  BY LevelsDistinct DEF Below
<1>3. /\ place.main \in Mains /\ place.section \in Sections \cup {Nowhere}
      /\ place.sub \in Subs \cup {Nowhere}
  BY <1>1, <1>2 DEF Places
<1>4. place \in Places
  BY <1>2, <1>3 DEF Places
<1>5. Related(t) => Anchored(t, place)
  BY <1>2 DEF Related, Anchored
<1> QED BY <1>3, <1>4, <1>5

LEMMA ParentLevels ==
    ASSUME NEW level \in Levels
    PROVE  ParentLevel(level) \subseteq Mains \cup Sections \cup Subs
BY DEF Levels, ParentLevel

-----------------------------------------------------------------------------
(* What holds whoever edits *)

Fits(l, f) ==
    /\ l \in {"insert", "move"} =>
          f.item \in Ids /\ (f.item \in Mains \/ f.to.main \in Mains)
    /\ l \in {"demote", "promoteSub", "demoteSection"} => f.to.main \in Mains
    /\ l \notin {"idle", "delete"} => Counted(f.to)
    /\ l \notin {"idle", "insert"} => Counted(f.old)

Inv ==
    /\ IsTree(at) /\ Legal(at)
    /\ answered \subseteq Live \cap Questions
    /\ pc \in [Editors -> Steps \cup {"idle"}] /\ frame \in [Editors -> Frames]
    /\ \A e \in Editors : Fits(pc[e], frame[e])

LEMMA RootPlace == Root \in Places /\ EmptyFrame \in Frames
BY DEF Root, EmptyFrame, Places, Frames

LEMMA Begins ==
    ASSUME Inv, NEW e \in Editors, NEW l \in Steps, NEW item \in Ids, NEW old \in Places,
           NEW to \in Places, Begin(e, l, item, old, to),
           l \in {"insert", "move"} => item \in Mains \/ to.main \in Mains,
           l \in {"demote", "promoteSub", "demoteSection"} => to.main \in Mains,
           l # "delete" => Counted(to), l # "insert" => Counted(old)
    PROVE  Inv'
<1> DEFINE f == [item |-> item, old |-> old, to |-> to]
<1>1. f \in Frames /\ Fits(l, f)
  BY DEF Frames, Fits
<1>2. pc' = [pc EXCEPT ![e] = l] /\ frame' = [frame EXCEPT ![e] = f]
      /\ UNCHANGED <<at, used, answered>>
  BY DEF Begin
<1> HIDE DEF f
<1>3. pc' \in [Editors -> Steps \cup {"idle"}] /\ frame' \in [Editors -> Frames]
  BY <1>1, <1>2 DEF Inv
<1>4. \A d \in Editors : Fits(pc'[d], frame'[d])
  BY <1>1, <1>2 DEF Inv
<1>5. \A d \in Editors : Fits(pc[d], frame[d])'
  BY <1>4 DEF Fits
<1> QED BY <1>2, <1>3, <1>5 DEF Inv, Live

LEMMA Commits ==
    ASSUME Inv, NEW e \in Editors, NEW t, IsTree(t), Commit(e, t)
    PROVE  Inv'
<1>1. /\ at' = IF Legal(t) /\ answered \subseteq Rows(t) THEN t ELSE at
      /\ pc' = [pc EXCEPT ![e] = "idle"] /\ frame' = [frame EXCEPT ![e] = EmptyFrame]
      /\ answered' = answered
  BY DEF Commit, Finish
<1>2. IsTree(at') /\ Legal(at') /\ answered \subseteq Rows(at') \cap Questions
  BY <1>1 DEF Inv, Live
<1>3. pc' \in [Editors -> Steps \cup {"idle"}] /\ frame' \in [Editors -> Frames]
  BY <1>1, RootPlace DEF Inv
<1>4. \A d \in Editors : Fits(pc'[d], frame'[d])
  BY <1>1 DEF Inv, Fits
<1>5. \A d \in Editors : Fits(pc[d], frame[d])'
  BY <1>4 DEF Fits
<1>6. IsTree(at)' /\ Legal(at)'
  BY <1>2 DEF IsTree, Legal, Related, Distinct, Rows, Path
<1> QED BY <1>1, <1>2, <1>3, <1>5, <1>6 DEF Inv, Live, Rows

\* A place below a row of the tree, or the place of a row, with a rank.
LEMMA AskedPlace ==
    ASSUME Inv, NEW level, NEW place, NEW wanted,
           \/ \E p \in ParentLevel(level) \cap Live : place = Below(at, p)
           \/ \E i \in Live : place = at[i],
           level \in Levels,
           NEW to, to = Ranked(at, level, place, wanted), to.rank \in 1 .. MaxRank
    PROVE  /\ to \in Places /\ Counted(to) /\ to.main = place.main /\ Anchored(at, to)
           /\ (\E p \in ParentLevel(level) \cap Live : place = Below(at, p)) => to.main \in Mains
<1>1. ASSUME NEW p \in ParentLevel(level) \cap Live, place = Below(at, p)
      PROVE  place \in Places /\ place.main \in Mains /\ Anchored(at, place)
  <2>1. p \in Rows(at) \cap (Mains \cup Sections \cup Subs)
    BY ParentLevels DEF Live
  <2> QED BY <1>1, <2>1, BelowPlace DEF Inv, Legal
<1>2. ASSUME NEW i \in Live, place = at[i]
      PROVE  place \in Places /\ Anchored(at, place)
  BY <1>2 DEF Inv, Legal, IsTree, Related, Anchored, Live
<1>3. place \in Places /\ Anchored(at, place)
  BY <1>1, <1>2
<1>4. /\ to \in Places /\ Counted(to)
      /\ to.main = place.main /\ to.section = place.section /\ to.sub = place.sub
  BY <1>3, RankedPlace
<1>5. Anchored(at, to)
  BY <1>3, <1>4 DEF Anchored
<1> QED BY <1>1, <1>4, <1>5

LEMMA LevelIds ==
    /\ \A level \in Levels : level \subseteq Ids
    /\ Live = Rows(at)
BY DEF Levels, Ids, Live

LEMMA Creates ==
    ASSUME Inv, NEW e \in Editors, StartCreate(e)
    PROVE  Inv'
<1>1. PICK level \in Levels, wanted \in 0 .. MaxRank : \E i \in Unused(level) :
        \E place \in {Below(at, p) : p \in ParentLevel(level) \cap Live}
                     \cup (IF level = Mains THEN {Root} ELSE {}) :
            Begin(e, "insert", i, Root, Ranked(at, level, place, wanted))
  BY DEF StartCreate
<1>2. PICK i \in Unused(level),
           place \in {Below(at, p) : p \in ParentLevel(level) \cap Live}
                     \cup (IF level = Mains THEN {Root} ELSE {}) :
        Begin(e, "insert", i, Root, Ranked(at, level, place, wanted))
  BY <1>1
<1>3. PICK to : to = Ranked(at, level, place, wanted)
  OBVIOUS
<1>4. to.rank \in 1 .. MaxRank /\ i \in Ids /\ i \in level
  BY <1>2, <1>3, LevelIds DEF Begin, Unused
<1>5. to \in Places /\ Counted(to) /\ (i \in Mains \/ to.main \in Mains)
  <2>1. CASE \E p \in ParentLevel(level) \cap Live : place = Below(at, p)
    BY <1>3, <1>4, <2>1, AskedPlace
  <2>2. CASE level = Mains /\ place = Root
    BY <1>3, <1>4, <2>2, RankedPlace, RootPlace
  <2> QED BY <2>1, <2>2
<1> QED BY <1>2, <1>3, <1>4, <1>5, Begins, RootPlace DEF Steps

LEMMA Deletes ==
    ASSUME Inv, NEW e \in Editors, StartDelete(e)
    PROVE  Inv'
<1>1. PICK i \in Live : Begin(e, "delete", i, at[i], Root)
  BY DEF StartDelete
<1>2. i \in Ids /\ at[i] \in Places /\ Counted(at[i])
  BY DEF Inv, IsTree, Live
<1> QED BY <1>1, <1>2, Begins, RootPlace DEF Steps

\* A drag goes to a place below rows of the tree as it is read.
LEMMA Drags ==
    ASSUME Inv, NEW e \in Editors, StartMove(e)
    PROVE  /\ Inv'
           /\ \E i \in Live, to \in Places :
                 Begin(e, "move", i, at[i], to) /\ Anchored(at, to)
<1>1. PICK i \in Live, wanted \in 0 .. MaxRank :
        \E place \in {at[i]} \cup {Below(at, p) : p \in ParentLevel(Level(i)) \cap Live} :
            Begin(e, "move", i, at[i], Ranked(at, Level(i), place, wanted))
  BY DEF StartMove
<1>2. PICK place \in {at[i]} \cup {Below(at, p) : p \in ParentLevel(Level(i)) \cap Live} :
        Begin(e, "move", i, at[i], Ranked(at, Level(i), place, wanted))
  BY <1>1
<1>3. PICK to : to = Ranked(at, Level(i), place, wanted)
  OBVIOUS
<1>4. i \in Ids /\ at[i] \in Places /\ Counted(at[i]) /\ (i \in Mains \/ at[i].main \in Mains)
  BY DEF Inv, IsTree, Live
<1>5. Level(i) \in Levels
  BY <1>4, LevelOf DEF Levels, Ids
<1>6. to.rank \in 1 .. MaxRank
  BY <1>2, <1>3 DEF Begin
<1>7. \/ \E p \in ParentLevel(Level(i)) \cap Live : place = Below(at, p)
      \/ place = at[i]
  OBVIOUS
<1>8. to \in Places /\ Counted(to) /\ to.main = place.main /\ Anchored(at, to)
      /\ (i \in Mains \/ to.main \in Mains)
  BY <1>3, <1>4, <1>5, <1>6, <1>7, AskedPlace
<1> QED BY <1>2, <1>3, <1>4, <1>8, Begins DEF Steps

\* The request to make another level of a row.
LEMMA Converts ==
    ASSUME Inv, NEW e \in Editors,
           StartPromote(e) \/ StartDemote(e) \/ StartPromoteSub(e) \/ StartDemoteSection(e)
    PROVE  Inv'
<1>1. ASSUME NEW i \in Live, NEW p \in Live, NEW level \in Levels, p \in ParentLevel(level),
             NEW wanted, NEW l \in {"demote", "promoteSub", "demoteSection"},
             Begin(e, l, i, at[i], Ranked(at, level, Below(at, p), wanted))
      PROVE  Inv'
  <2>1. PICK place, to : place = Below(at, p) /\ to = Ranked(at, level, place, wanted)
    OBVIOUS
  <2>2. to.rank \in 1 .. MaxRank
    BY <1>1, <2>1 DEF Begin
  <2>3. to \in Places /\ Counted(to) /\ to.main \in Mains
    BY <1>1, <2>1, <2>2, AskedPlace
  <2>4. i \in Ids /\ at[i] \in Places /\ Counted(at[i])
    BY DEF Inv, IsTree, Live
  <2> QED BY <1>1, <2>1, <2>3, <2>4, Begins DEF Steps
<1>2. CASE StartPromote(e)
  <2>1. PICK i \in Live \cap Sections, wanted \in 0 .. MaxRank :
          Begin(e, "promote", i, at[i], Ranked(at, Mains, Root, wanted))
    BY <1>2 DEF StartPromote
  <2>2. PICK to : to = Ranked(at, Mains, Root, wanted)
    OBVIOUS
  <2>3. to \in Places /\ Counted(to)
    BY <2>1, <2>2, RankedPlace, RootPlace DEF Begin
  <2>4. i \in Ids /\ at[i] \in Places /\ Counted(at[i])
    BY DEF Inv, IsTree, Live
  <2> QED BY <2>1, <2>2, <2>3, <2>4, Begins DEF Steps
<1>6. ASSUME NEW p \in Live \cap Mains
      PROVE  p \in ParentLevel(Sections)
  <2>1. Sections # Mains /\ Sections # Subs /\ Sections # Questions
    BY LevelsDistinct
  <2> QED BY <2>1 DEF ParentLevel
<1>3. CASE StartDemote(e)
  BY <1>1, <1>3, <1>6 DEF StartDemote, Levels
<1>4. CASE StartPromoteSub(e)
  BY <1>1, <1>4, <1>6 DEF StartPromoteSub, Levels
<1>5. CASE StartDemoteSection(e)
  <2>1. ASSUME NEW p \in Live \cap Sections
        PROVE  p \in ParentLevel(Subs)
    <3>1. Subs # Mains /\ Subs # Sections /\ Subs # Questions
      BY LevelsDistinct
    <3> QED BY <3>1 DEF ParentLevel
  <2> QED BY <1>1, <1>5, <2>1 DEF StartDemoteSection, Levels
<1> QED BY <1>2, <1>3, <1>4, <1>5

\* What a session has read.
LEMMA FrameRead ==
    ASSUME Inv, NEW e \in Editors
    PROVE  /\ Item(e) \in Ids \cup {Nowhere} /\ Old(e) \in Places /\ To(e) \in Places
           /\ To(e).section \in Sections \cup {Nowhere}
           /\ At(e, "insert") \/ At(e, "move") =>
                 Item(e) \in Ids /\ (Item(e) \in Mains \/ To(e).main \in Mains)
           /\ At(e, "demote") \/ At(e, "promoteSub") \/ At(e, "demoteSection") =>
                 To(e).main \in Mains
           /\ ~At(e, "idle") /\ ~At(e, "delete") => Counted(To(e))
           /\ ~At(e, "idle") /\ ~At(e, "insert") => Counted(Old(e))
<1>1. frame[e] \in Frames /\ Fits(pc[e], frame[e])
  BY DEF Inv
<1>2. Item(e) \in Ids \cup {Nowhere} /\ Old(e) \in Places /\ To(e) \in Places
  BY <1>1 DEF Frames, Item, Old, To
<1> QED BY <1>1, <1>2 DEF Fits, At, Item, Old, To, Places

LEMMA ReplacedTree ==
    ASSUME NEW t, NEW level, NEW i, NEW old \in Places, Counted(old), IsTree(t),
           NEW u, u = Replaced(t, level, i, old)
    PROVE  IsTree(u)
<1>1. old.rank \in Nat /\ old.rank >= 1
  BY DEF Places, Counted
<1>2. PICK scope, closed : closed = Closed(t, scope, old.rank)
                           /\ u = Without(closed, Cascade(closed, i))
  BY DEF Replaced
<1>3. IsTree(closed)
  BY <1>1, <1>2, ClosedRows
<1> QED BY <1>2, <1>3, WithoutRows

LEMMA Inserts ==
    ASSUME Inv, NEW e \in Editors, Insert(e)
    PROVE  Inv'
<1>1. PICK i \in Unused(Level(Item(e))) : Commit(e, Put(at, i, To(e)))
  BY DEF Insert
<1>2. /\ Item(e) \in Ids /\ (Item(e) \in Mains \/ To(e).main \in Mains)
      /\ To(e) \in Places /\ Counted(To(e))
  BY FrameRead DEF Insert, At
<1>3. /\ Level(Item(e)) \in Levels
      /\ Item(e) \in Mains => Level(Item(e)) = Mains
  BY <1>2, LevelOf DEF Levels, Ids
<1>4. i \in Ids /\ (i \in Mains \/ To(e).main \in Mains)
  BY <1>1, <1>2, <1>3, LevelIds DEF Unused
<1>5. PICK t : t = Put(at, i, To(e))
  OBVIOUS
<1>6. IsTree(t)
  BY <1>2, <1>4, <1>5, PutRows DEF Inv
<1> QED BY <1>1, <1>5, <1>6, Commits

LEMMA Deleted ==
    ASSUME Inv, NEW e \in Editors, Delete(e)
    PROVE  Inv'
<1>1. PICK gone, t : t = Without(at, gone) /\ Commit(e, t)
  BY DEF Delete
<1>2. IsTree(t)
  BY <1>1, WithoutRows DEF Inv
<1> QED BY <1>1, <1>2, Commits

LEMMA Dragged ==
    ASSUME Inv, NEW e \in Editors, Move(e)
    PROVE  Inv'
<1>1. /\ Item(e) \in Ids /\ (Item(e) \in Mains \/ To(e).main \in Mains)
      /\ Old(e) \in Places /\ To(e) \in Places /\ Counted(Old(e)) /\ Counted(To(e))
  BY FrameRead DEF Move, At
<1>2. PICK t : /\ Commit(e, t)
               /\ \/ Item(e) \in Rows(at) /\ t = Moved(at, Item(e), Old(e), To(e))
                  \/ t = Shifted(at, Item(e), Old(e), To(e))
  BY DEF Move, Live
<1>3. CASE Item(e) \in Rows(at) /\ t = Moved(at, Item(e), Old(e), To(e))
  <2>1. PICK shifted : shifted = Shifted(at, Item(e), Old(e), To(e))
    OBVIOUS
  <2>2. IsTree(t)
    BY <1>1, <1>3, <2>1, MovedTree DEF Inv
  <2> QED BY <1>2, <2>2, Commits
<1>4. CASE t = Shifted(at, Item(e), Old(e), To(e))
  <2>1. IsTree(t)
    BY <1>1, <1>4, ShiftedTree DEF Inv
  <2> QED BY <1>2, <2>1, Commits
<1> QED BY <1>2, <1>3, <1>4

LEMMA Promoted ==
    ASSUME Inv, NEW e \in Editors, Promote(e)
    PROVE  Inv'
<1>1. PICK m, made, moved, hung, t :
        /\ m \in Unused(Mains)
        /\ made = Put(at, m, To(e)) /\ hung = Rehung(made, moved, m, Nowhere)
        /\ t = Replaced(hung, Sections, Item(e), Old(e)) /\ Commit(e, t)
  BY DEF Promote
<1>2. /\ m \in Mains /\ m \in Ids
      /\ To(e) \in Places /\ Old(e) \in Places /\ Counted(To(e)) /\ Counted(Old(e))
  BY <1>1, FrameRead, LevelIds DEF Promote, At, Unused, Levels
<1>3. IsTree(made)
  BY <1>1, <1>2, PutRows DEF Inv
<1>4. IsTree(hung)
  BY <1>1, <1>2, <1>3, RehungRows
<1>5. IsTree(t)
  BY <1>1, <1>2, <1>4, ReplacedTree
<1> QED BY <1>1, <1>5, Commits

LEMMA Demoted ==
    ASSUME Inv, NEW e \in Editors, Demote(e)
    PROVE  Inv'
<1>1. PICK s, made, moved, main, hung, t :
        /\ s \in Unused(Sections)
        /\ made = Put(at, s, To(e)) /\ main = To(e).main
        /\ hung = Rehung(made, moved, main, Nowhere)
        /\ t = Replaced(hung, Mains, Item(e), Old(e)) /\ Commit(e, t)
  BY DEF Demote
<1>2. /\ s \in Ids /\ To(e) \in Places /\ Old(e) \in Places
      /\ Counted(To(e)) /\ Counted(Old(e)) /\ main \in Mains /\ To(e).main \in Mains
  BY <1>1, FrameRead, LevelIds DEF Demote, At, Unused, Levels
<1>3. IsTree(made)
  BY <1>1, <1>2, PutRows DEF Inv
<1>4. IsTree(hung)
  BY <1>1, <1>2, <1>3, RehungRows
<1>5. IsTree(t)
  BY <1>1, <1>2, <1>4, ReplacedTree
<1> QED BY <1>1, <1>5, Commits

LEMMA SubPromoted ==
    ASSUME Inv, NEW e \in Editors, PromoteSub(e)
    PROVE  Inv'
<1>1. PICK s, made, moved, place, lifted, t :
        /\ s \in Unused(Sections)
        /\ made = Put(at, s, To(e)) /\ place = Below(made, s)
        /\ lifted = Lifted(made, moved, place)
        /\ t = Replaced(lifted, Subs, Item(e), Old(e)) /\ Commit(e, t)
  BY DEF PromoteSub, Lifted
<1>2. /\ s \in Ids /\ s \in Sections
      /\ To(e) \in Places /\ Old(e) \in Places /\ To(e).main \in Mains
      /\ Counted(To(e)) /\ Counted(Old(e))
  BY <1>1, FrameRead, LevelIds DEF PromoteSub, At, Unused, Levels
<1>3. IsTree(made) /\ s \in Rows(made)
  BY <1>1, <1>2, PutRows DEF Inv
<1>4. place \in Places /\ place.main \in Mains
  BY <1>1, <1>2, <1>3, BelowPlace
<1>5. IsTree(lifted)
  BY <1>1, <1>3, <1>4, LiftedRows
<1>6. IsTree(t)
  BY <1>1, <1>2, <1>5, ReplacedTree
<1> QED BY <1>1, <1>6, Commits

LEMMA SectionDemoted ==
    ASSUME Inv, NEW e \in Editors, DemoteSection(e)
    PROVE  Inv'
<1>1. PICK b, made, direct, sunk, moved, main, section, hung, t :
        /\ b \in Unused(Subs)
        /\ made = Put(at, b, To(e)) /\ main = To(e).main /\ section = To(e).section
        /\ sunk = Sunk(made, direct, b)
        /\ hung = Rehung(sunk, moved, main, section)
        /\ t = Replaced(hung, Sections, Item(e), Old(e)) /\ Commit(e, t)
  BY DEF DemoteSection, Sunk
<1>2. /\ b \in Ids /\ b \in Subs /\ To(e) \in Places /\ Old(e) \in Places
      /\ Counted(To(e)) /\ Counted(Old(e))
      /\ main \in Mains /\ To(e).main \in Mains /\ section \in Sections \cup {Nowhere}
  BY <1>1, FrameRead, LevelIds DEF DemoteSection, At, Unused, Levels
<1>3. IsTree(made)
  BY <1>1, <1>2, PutRows DEF Inv
<1>4. IsTree(sunk)
  BY <1>1, <1>2, <1>3, SunkRows
<1>5. IsTree(hung)
  BY <1>1, <1>2, <1>4, RehungRows
<1>6. IsTree(t)
  BY <1>1, <1>2, <1>5, ReplacedTree
<1> QED BY <1>1, <1>6, Commits

LEMMA Answers ==
    ASSUME Inv, NEW q, AnswerQuestion(q)
    PROVE  Inv'
<1>1. /\ answered' = answered \cup {q} /\ q \in Live \cap Questions
      /\ UNCHANGED <<at, pc, frame>>
  BY DEF AnswerQuestion
<1>2. \A e \in Editors : Fits(pc[e], frame[e])'
  BY <1>1 DEF Inv, Fits
<1> QED BY <1>1, <1>2 DEF Inv, Live

LEMMA StartsWithInv == Init => Inv
<1> SUFFICES ASSUME Init PROVE Inv
  OBVIOUS
<1>1. at = Tree /\ answered = {}
  BY DEF Init
<1>2. IsTree(at) /\ Legal(at)
  <2>1. IsTree(Tree)
    BY TreeIsLegal DEF IsTree
  <2> QED BY <1>1, <2>1, TreeIsLegal
<1>3. pc \in [Editors -> Steps \cup {"idle"}] /\ frame \in [Editors -> Frames]
  BY RootPlace DEF Init
<1>4. \A e \in Editors : Fits(pc[e], frame[e])
  BY DEF Init, Fits
<1> QED BY <1>1, <1>2, <1>3, <1>4 DEF Inv

LEMMA EditKeepsInv ==
    ASSUME Inv, NEW e \in Editors, Edit(e)
    PROVE  Inv'
BY Creates, Deletes, Drags, Converts, Inserts, Deleted, Dragged, Promoted, Demoted,
   SubPromoted, SectionDemoted DEF Edit

LEMMA StutterKeepsInv ==
    ASSUME Inv, UNCHANGED vars
    PROVE  Inv'
<1>1. UNCHANGED <<at, answered, pc, frame>>
  BY DEF vars
<1>2. \A e \in Editors : Fits(pc[e], frame[e])'
  BY <1>1 DEF Inv, Fits
<1> QED BY <1>1, <1>2 DEF Inv, Live

LEMMA NextKeepsInv == Inv /\ [Next]_vars => Inv'
BY EditKeepsInv, Answers, StutterKeepsInv DEF Next

\* Whoever edits, and whatever the requests read before, the rows form a tree
\* which the schema accepts.
THEOREM Inductive == Spec => []Inv
<1> QED BY StartsWithInv, NextKeepsInv, PTL DEF Spec

\* A question that was answered is never deleted, for any number of editors:
\* the foreign key of the answers, not the count read before the transaction,
\* is what keeps it.
THEOREM AnswersKeepTheirQuestion == Spec => []AnsweredKept
<1>1. Inv => AnsweredKept
  BY DEF Inv, AnsweredKept
<1> QED BY <1>1, Inductive, PTL

\* Where the ids come from, and how many requests there are.
Counts == Live \subseteq used /\ used \subseteq Ids /\ edits \in 0 .. MaxEdits

LEMMA BeginKeepsCounts ==
    ASSUME Counts, NEW e \in Editors,
           Ready(e) /\ \E l, item, old, to : Begin(e, l, item, old, to)
    PROVE  Counts'
BY Bounds DEF Counts, Ready, Begin, Live

LEMMA FinishKeepsCounts ==
    ASSUME Counts, Inv', NEW e \in Editors, NEW t, Commit(e, t)
    PROVE  Counts'
<1>1. /\ used' = used \cup Rows(at') /\ edits' = edits
  BY DEF Commit, Finish
<1>2. Rows(at') \subseteq Ids /\ Live' = Rows(at')
  BY DEF Inv, IsTree, Live, Rows
<1> QED BY <1>1, <1>2 DEF Counts

LEMMA NextKeepsCounts ==
    ASSUME Counts, Inv', [Next]_vars
    PROVE  Counts'
<1>1. ASSUME NEW e \in Editors, Edit(e)
      PROVE  Counts'
  <2>1. CASE \/ StartCreate(e) \/ StartDelete(e) \/ StartMove(e) \/ StartPromote(e)
             \/ StartDemote(e) \/ StartPromoteSub(e) \/ StartDemoteSection(e)
    <3>1. Ready(e) /\ \E l, item, old, to : Begin(e, l, item, old, to)
      BY <2>1 DEF StartCreate, StartDelete, StartMove, StartPromote, StartDemote,
                  StartPromoteSub, StartDemoteSection
    <3> QED BY <3>1, BeginKeepsCounts
  <2>2. CASE \/ Insert(e) \/ Delete(e) \/ Move(e) \/ Promote(e) \/ Demote(e)
             \/ PromoteSub(e) \/ DemoteSection(e)
    <3>1. \E t : Commit(e, t)
      BY <2>2 DEF Insert, Delete, Move, Promote, Demote, PromoteSub, DemoteSection
    <3> QED BY <3>1, FinishKeepsCounts
  <2> QED BY <1>1, <2>1, <2>2 DEF Edit
<1>2. CASE UNCHANGED <<at, used, edits>>
  BY <1>2 DEF Counts, Live
<1>3. (\E q \in Questions : AnswerQuestion(q)) \/ UNCHANGED vars
      => UNCHANGED <<at, used, edits>>
  BY DEF AnswerQuestion, vars
<1> QED BY <1>1, <1>2, <1>3 DEF Next

LEMMA InitCounts == Init => Counts
BY TreeIsLegal, Bounds DEF Init, Counts, Live

\* Ranks count from 1 in every row, a row has an id that was drawn for it, and
\* every session is at a step of its own, whoever edits.
THEOREM TypeCorrectness == Spec => []TypeOK
<1>1. Inv /\ Counts => TypeOK
  BY DEF Inv, Counts, TypeOK, IsTree, Live
<1> QED BY <1>1, InitCounts, Inductive, NextKeepsCounts, PTL DEF Spec

-----------------------------------------------------------------------------
(* What holds while one administrator edits *)

OneEditor == \A e, f \in Editors : e = f

\* What a drag has read is still so when it writes.
Fresh(e) == At(e, "move") =>
    Item(e) \in Live /\ Old(e) = at[Item(e)] /\ Anchored(at, To(e))

IInv == Inv /\ \A e \in Editors : Fresh(e)

\* A session is about to drag only after it has read what it drags.
LEMMA ReadsFirst ==
    ASSUME Inv, NEW e \in Editors, Edit(e), pc'[e] = "move"
    PROVE  StartMove(e)
<1>1. \A l : pc' = [pc EXCEPT ![e] = l] => l = "move"
  BY DEF Inv
<1>2. \A t : ~Commit(e, t)
  BY <1>1 DEF Commit, Finish
<1>3. \A l, item, old, to : Begin(e, l, item, old, to) => l = "move"
  BY <1>1 DEF Begin
<1>4. ~(Insert(e) \/ Delete(e) \/ Move(e) \/ Promote(e) \/ Demote(e) \/ PromoteSub(e)
        \/ DemoteSection(e))
  BY <1>2 DEF Insert, Delete, Move, Promote, Demote, PromoteSub, DemoteSection
<1>5. ~(StartCreate(e) \/ StartDelete(e) \/ StartPromote(e) \/ StartDemote(e)
        \/ StartPromoteSub(e) \/ StartDemoteSection(e))
  BY <1>3 DEF StartCreate, StartDelete, StartPromote, StartDemote, StartPromoteSub,
              StartDemoteSection
<1> QED BY <1>4, <1>5 DEF Edit

LEMMA EditsAlone ==
    ASSUME OneEditor, IInv, NEW e \in Editors, Edit(e)
    PROVE  IInv'
<1>1. Inv'
  BY EditKeepsInv DEF IInv
<1>2. Fresh(e)'
  <2> SUFFICES ASSUME pc'[e] = "move" PROVE Fresh(e)'
    BY DEF Fresh, At
  <2>1. PICK i \in Live, to \in Places : Begin(e, "move", i, at[i], to) /\ Anchored(at, to)
    BY ReadsFirst, Drags DEF IInv
  <2>2. at' = at /\ frame' = [frame EXCEPT ![e] = [item |-> i, old |-> at[i], to |-> to]]
    BY <2>1 DEF Begin
  <2>3. frame'[e] = [item |-> i, old |-> at[i], to |-> to]
    BY <2>2 DEF IInv, Inv
  <2>4. Item(e)' = i /\ Old(e)' = at[i] /\ To(e)' = to
    BY <2>3 DEF Item, Old, To
  <2> QED BY <2>1, <2>2, <2>4 DEF Fresh, Live, Anchored, Rows
<1>3. \A f \in Editors : Fresh(f)'
  BY <1>2 DEF OneEditor
<1> QED BY <1>1, <1>3 DEF IInv

LEMMA NextKeepsIInv ==
    ASSUME OneEditor
    PROVE  IInv /\ [Next]_vars => IInv'
<1> SUFFICES ASSUME IInv, [Next]_vars PROVE IInv'
  OBVIOUS
<1>1. CASE \E e \in Editors : Edit(e)
  BY <1>1, EditsAlone
<1>2. CASE UNCHANGED <<at, pc, frame>>
  <2>1. Inv'
    BY NextKeepsInv DEF IInv
  <2>2. \A e \in Editors : Fresh(e)'
    BY <1>2 DEF IInv, Fresh, At, Item, Old, To, Live, Anchored
  <2> QED BY <2>1, <2>2 DEF IInv
<1>3. (\E q \in Questions : AnswerQuestion(q)) \/ UNCHANGED vars => UNCHANGED <<at, pc, frame>>
  BY DEF AnswerQuestion, vars
<1> QED BY <1>1, <1>2, <1>3 DEF Next

LEMMA Alone == ASSUME OneEditor PROVE Spec => []IInv
<1>1. Init => IInv
  <2>1. Init => \A e \in Editors : Fresh(e)
    BY DEF Init, Fresh, At
  <2> QED BY <2>1, StartsWithInv DEF IInv
<1> QED BY <1>1, NextKeepsIInv, PTL DEF Spec

\* A step that finishes a drag is that drag.
LEMMA MovingMoves ==
    ASSUME OneEditor, IInv, [Next]_vars, NEW e \in Editors, Moving(e)
    PROVE  Move(e)
<1>1. pc[e] = "move" /\ pc'[e] = "idle"
  BY DEF Moving, At
<1>2. Edit(e)
  <2>1. ~UNCHANGED pc
    BY <1>1
  <2> QED BY <2>1 DEF Next, AnswerQuestion, vars, OneEditor
<1>3. ~Ready(e)
  BY <1>1 DEF Ready, At
<1>4. ~(StartCreate(e) \/ StartDelete(e) \/ StartMove(e) \/ StartPromote(e) \/ StartDemote(e)
        \/ StartPromoteSub(e) \/ StartDemoteSection(e))
  BY <1>3 DEF StartCreate, StartDelete, StartMove, StartPromote, StartDemote, StartPromoteSub,
              StartDemoteSection
<1>5. ~(Insert(e) \/ Delete(e) \/ Promote(e) \/ Demote(e) \/ PromoteSub(e) \/ DemoteSection(e))
  BY <1>1 DEF At, Insert, Delete, Promote, Demote, PromoteSub, DemoteSection
<1> QED BY <1>2, <1>4, <1>5 DEF Edit

\* What a drag writes, when what it has read is still so.
LEMMA FreshMove ==
    ASSUME IInv, NEW e \in Editors, Move(e)
    PROVE  \E t, i, to :
              /\ i = Item(e) /\ to = To(e) /\ t = Moved(at, i, at[i], to)
              /\ at' = IF Legal(t) /\ answered \subseteq Rows(t) THEN t ELSE at
              /\ i \in Rows(at) /\ to \in Places /\ Counted(to) /\ (i \in Mains \/ to.main \in Mains)
              /\ Anchored(at, to)
<1>1. Item(e) \in Live /\ Old(e) = at[Item(e)] /\ Anchored(at, To(e)) /\ At(e, "move")
  BY DEF IInv, Fresh, Move
<1>2. Commit(e, Moved(at, Item(e), Old(e), To(e)))
  BY <1>1 DEF Move
<1>3. PICK t : t = Moved(at, Item(e), at[Item(e)], To(e)) /\ Commit(e, t)
  BY <1>1, <1>2
<1>4. at' = IF Legal(t) /\ answered \subseteq Rows(t) THEN t ELSE at
  BY <1>3 DEF Commit, Finish
<1>5. To(e) \in Places /\ Counted(To(e)) /\ (Item(e) \in Mains \/ To(e).main \in Mains)
  BY <1>1, FrameRead DEF IInv, At
<1> QED BY <1>1, <1>3, <1>4, <1>5 DEF Live

\* Dragging leaves the other rows in their order, in every tree that one
\* administrator can make, at any rank.
THEOREM DragsKeepOrder == ASSUME OneEditor PROVE Spec => MovesKeepOrder
<1>1. ASSUME IInv, [Next]_vars, NEW e \in Editors, Moving(e),
             NEW level \in {Sections, Subs, Questions},
             NEW x \in (Live \cap level) \ {Item(e)}, NEW y \in (Live \cap level) \ {Item(e)},
             Parent(level, at[x]) = Parent(level, at[y]), at[x].rank < at[y].rank
      PROVE  at'[x].rank < at'[y].rank
  <2>1. Move(e)
    BY <1>1, MovingMoves
  <2>2. PICK t, i, to :
          /\ i = Item(e) /\ to = To(e) /\ t = Moved(at, i, at[i], to)
          /\ at' = IF Legal(t) /\ answered \subseteq Rows(t) THEN t ELSE at
          /\ i \in Rows(at) /\ to \in Places /\ Counted(to) /\ (i \in Mains \/ to.main \in Mains)
    BY <1>1, <2>1, FreshMove
  <2>3. t[x].rank < t[y].rank
    BY <1>1, <2>2, DragKeepsOrder DEF IInv, Inv, Legal, Live
  <2> QED BY <1>1, <2>2, <2>3
<1>2. IInv /\ [Next]_vars => [\A e \in Editors : Moving(e) =>
         \A level \in {Sections, Subs, Questions} :
             \A x, y \in (Live \cap level) \ {Item(e)} :
                 /\ Parent(level, at[x]) = Parent(level, at[y])
                 /\ at[x].rank < at[y].rank
                 => at'[x].rank < at'[y].rank]_vars
  BY <1>1
<1> QED BY <1>2, Alone, PTL DEF Spec, MovesKeepOrder

\* No drag of a question is refused: the shifts of the questions make room at
\* any rank of any section or sub-section.
THEOREM QuestionsArrive == ASSUME OneEditor PROVE Spec => QuestionsMove
<1>1. ASSUME IInv, [Next]_vars, NEW e \in Editors, Moving(e), Item(e) \in Questions
      PROVE  at'[Item(e)] = To(e)
  <2>1. Move(e)
    BY <1>1, MovingMoves
  <2>2. PICK t, i, to :
          /\ i = Item(e) /\ to = To(e) /\ t = Moved(at, i, at[i], to)
          /\ at' = IF Legal(t) /\ answered \subseteq Rows(t) THEN t ELSE at
          /\ i \in Rows(at) /\ to \in Places /\ Counted(to) /\ (i \in Mains \/ to.main \in Mains)
          /\ Anchored(at, to)
    BY <1>1, <2>1, FreshMove
  <2>3. i \in Rows(at) \cap Questions /\ to.main \in Mains
    BY <1>1, <2>2, LevelsDistinct
  <2>4. Legal(t) /\ Rows(t) = Rows(at) /\ t[i] = to
    BY <1>1, <2>2, <2>3, QuestionArrives DEF IInv, Inv
  <2>5. answered \subseteq Rows(t)
    BY <1>1, <2>4 DEF IInv, Inv, Live
  <2> QED BY <2>2, <2>4, <2>5
<1>2. IInv /\ [Next]_vars => [\A e \in Editors :
         Moving(e) /\ Item(e) \in Questions => at'[Item(e)] = To(e)]_vars
  BY <1>1
<1> QED BY <1>2, Alone, PTL DEF Spec, QuestionsMove
-----------------------------------------------------------------------------
(* While one administrator edits, the ancestors agree *)

\* The rows a request is about to place.
Aim(l, item) ==
    CASE l = "insert" -> Level(item) [] l = "move" -> {item} [] l = "promote" -> Mains
      [] l \in {"demote", "promoteSub"} -> Sections [] l = "demoteSection" -> Subs
      [] OTHER -> {}

\* Where it is about to place them still fits there.
Settled(e) ==
    /\ \A x \in Aim(pc[e], Item(e)) : Hangs(at, x, To(e))
    /\ At(e, "promote") \/ At(e, "demoteSection") => Item(e) \in Sections
    /\ At(e, "demote") => Item(e) \in Mains
    /\ At(e, "promoteSub") => Item(e) \in Subs

AInv == IInv /\ Agree(at) /\ \A e \in Editors : Settled(e)

\* What is left of t when gone is deleted.
Remains(t, u, gone) ==
    /\ Rows(u) = Rows(t) \ gone
    /\ \A x \in Rows(u) : /\ u[x].main = t[x].main /\ u[x].section = t[x].section
                          /\ u[x].sub = IF t[x].sub \in gone THEN Nowhere ELSE t[x].sub

\* The rows in moved, below other rows.
Rehangs(t, u, moved, main, section) ==
    /\ Rows(u) = Rows(t)
    /\ \A x \in Rows(u) :
          /\ u[x].main = IF x \in moved THEN main ELSE t[x].main
          /\ u[x].section = IF x \in moved /\ section # Nowhere THEN section ELSE t[x].section
          /\ u[x].sub = t[x].sub

LEMMA CutRemains ==
    ASSUME NEW t, NEW gone, IsTree(t), NEW u, u = Without(t, gone)
    PROVE  Remains(t, u, gone)
<1>1. Rows(u) = Rows(t) \ gone
  BY DEF Without, Rows
<1>2. ASSUME NEW x \in Rows(u)
      PROVE  /\ u[x].main = t[x].main /\ u[x].section = t[x].section
             /\ u[x].sub = IF t[x].sub \in gone THEN Nowhere ELSE t[x].sub
  <2>1. t[x] \in Places
    BY <1>1, <1>2 DEF IsTree
  <2>2. u[x] = IF t[x].sub \in gone THEN [t[x] EXCEPT !.sub = Nowhere] ELSE t[x]
    BY <1>1, <1>2 DEF Without
  <2> QED BY <2>1, <2>2 DEF Places
<1> QED BY <1>1, <1>2 DEF Remains

LEMMA RehungHangs ==
    ASSUME NEW t, NEW moved, NEW main, NEW section, IsTree(t),
           NEW u, u = Rehung(t, moved, main, section)
    PROVE  Rehangs(t, u, moved, main, section)
<1>1. Rows(u) = Rows(t)
  BY DEF Rehung, Rows
<1>2. ASSUME NEW x \in Rows(u)
      PROVE  /\ u[x].main = IF x \in moved THEN main ELSE t[x].main
             /\ u[x].section = IF x \in moved /\ section # Nowhere THEN section ELSE t[x].section
             /\ u[x].sub = t[x].sub
  <2>1. t[x] \in Places
    BY <1>1, <1>2 DEF IsTree
  <2> DEFINE s == IF section = Nowhere THEN t[x].section ELSE section
             y == [t[x] EXCEPT !.main = main, !.section = s]
  <2>2. u[x] = IF x \notin moved THEN t[x] ELSE y
    BY <1>1, <1>2 DEF Rehung
  <2>3. s = IF section # Nowhere THEN section ELSE t[x].section
    OBVIOUS
  <2> HIDE DEF s
  <2>4. y.main = main /\ y.section = s /\ y.sub = t[x].sub
    BY <2>1 DEF Places
  <2> HIDE DEF y
  <2> QED BY <2>2, <2>3, <2>4
<1> QED BY <1>1, <1>2 DEF Rehangs

\* Only what is deleted leaves, and it takes its own with it.
LEMMA ReplacedRemains ==
    ASSUME NEW t, NEW level, NEW i, NEW old \in Places, Counted(old), IsTree(t),
           NEW u, u = Replaced(t, level, i, old)
    PROVE  \E gone : /\ Remains(t, u, gone) /\ i \in gone
                     /\ \A x \in Rows(t) : t[x].section = i => x \in gone
<1>1. old.rank \in Nat /\ old.rank >= 1
  BY DEF Places, Counted
<1>2. PICK scope, closed : closed = Closed(t, scope, old.rank)
                           /\ u = Without(closed, Cascade(closed, i))
  BY DEF Replaced
<1>3. IsTree(closed) /\ SameTree(t, closed)
  BY <1>1, <1>2, ClosedRows
<1>4. PICK gone : gone = Cascade(closed, i)
  OBVIOUS
<1>5. i \in gone /\ \A x \in Rows(closed) : closed[x].section = i => x \in gone
  BY <1>4 DEF Cascade, InSection
<1>6. Remains(closed, u, gone)
  BY <1>2, <1>3, <1>4, CutRemains
<1>7. Remains(t, u, gone)
  BY <1>3, <1>6 DEF Remains, SameTree
<1> QED BY <1>3, <1>5, <1>7 DEF SameTree

\* A deletion that the schema accepts leaves the remaining rows where they were.
LEMMA RemainsHang ==
    ASSUME NEW t, NEW u, IsTree(t), IsTree(u), Related(u), NEW gone, Remains(t, u, gone),
           NEW x \in Rows(u), Hangs(t, x, t[x])
    PROVE  Hangs(u, x, u[x])
<1>1. /\ u[x].main = t[x].main /\ u[x].section = t[x].section
      /\ u[x].sub # Nowhere => u[x].sub = t[x].sub
  BY DEF Remains
<1>2. /\ u[x].main \in Rows(u) \cup {Nowhere} /\ u[x].section \in Rows(u) \cup {Nowhere}
      /\ u[x].sub \in Rows(u) \cup {Nowhere}
  BY DEF Related
<1>3. Nowhere \notin Rows(t) /\ Nowhere \notin Rows(u)
  BY LevelsDistinct DEF IsTree
<1>4. \A y \in Rows(u) : u[y].main = t[y].main /\ u[y].section = t[y].section
  BY DEF Remains
<1> QED BY <1>1, <1>2, <1>3, <1>4 DEF Hangs

LEMMA RemainsAgree ==
    ASSUME NEW t, NEW u, IsTree(t), IsTree(u), Related(u), NEW gone, Remains(t, u, gone),
           \A x \in Rows(t) \ gone : Hangs(t, x, t[x])
    PROVE  Agree(u)
<1>1. \A x \in Rows(u) : Hangs(t, x, t[x])
  BY DEF Remains
<1> QED BY <1>1, RemainsHang DEF Agree

LEMMA PutAgrees ==
    ASSUME NEW t, IsTree(t), Agree(t), NEW i \in Ids \ Rows(t), NEW place \in Places,
           Counted(place), i \in Mains \/ place.main \in Mains, Hangs(t, i, place),
           NEW u, u = Put(t, i, place)
    PROVE  Agree(u)
<1>1. IsTree(u) /\ Rows(u) = Rows(t) \cup {i} /\ u[i] = place /\ \A x \in Rows(t) \ {i} : u[x] = t[x]
  BY PutRows
<1>2. \A x \in Rows(t) : u[x] = t[x]
  BY <1>1
<1>3. ASSUME NEW x \in Rows(u), NEW p, p = u[x], Hangs(t, x, p)
      PROVE  Hangs(u, x, p)
  BY <1>1, <1>2, <1>3 DEF Hangs
<1>4. \A x \in Rows(u) : Hangs(t, x, u[x])
  BY <1>1, <1>2 DEF Agree
<1> QED BY <1>3, <1>4 DEF Agree

\* What a row names, for the rows of an agreed tree.
LEMMA Ancestors ==
    ASSUME NEW t, IsTree(t), Agree(t), NEW x \in Rows(t)
    PROVE  /\ t[x].section # Nowhere =>
                 /\ x \in Subs \cup Questions /\ t[x].section \in Rows(t) \cap Sections
                 /\ t[x].main = t[t[x].section].main
           /\ t[x].sub # Nowhere =>
                 /\ x \in Questions /\ t[x].sub \in Rows(t) \cap Subs
                 /\ t[t[x].sub].section = t[x].section
           /\ x \in Subs \cup Questions => t[x].section # Nowhere
           /\ x \in Sections => t[x].main \in Rows(t)
           /\ x \in Mains => t[x].main = Nowhere
<1>1. Hangs(t, x, t[x]) /\ t[x] \in Places /\ x \in Ids
  BY DEF Agree, IsTree
<1>2. Nowhere \notin Rows(t)
  BY LevelsDistinct DEF IsTree
<1> QED BY <1>1, <1>2 DEF Hangs, Places, Ids

\* Promotion of a section: what hangs below it goes with it.
LEMMA PromoteAgrees ==
    ASSUME NEW t, IsTree(t), Agree(t), NEW i \in Sections, NEW m \in Mains,
           NEW u, NEW moved, \A x \in moved : t[x].section = i,
           Rehangs(t, u, moved, m, Nowhere)
    PROVE  \A x \in Rows(u) : u[x].section # i => Hangs(u, x, u[x])
<1> SUFFICES ASSUME NEW x \in Rows(u), u[x].section # i PROVE Hangs(u, x, u[x])
  OBVIOUS
<1>1. Rows(u) = Rows(t) /\ \A y \in Rows(t) : u[y].section = t[y].section /\ u[y].sub = t[y].sub
  BY DEF Rehangs
<1>2. \A y \in Rows(t) : y \notin moved => u[y].main = t[y].main
  BY DEF Rehangs
<1>3. x \notin moved
  BY <1>1
<1>4. \A y \in Rows(t) \cap Sections : y \notin moved
  BY Ancestors, LevelsDistinct DEF Ids
<1>5. Hangs(t, x, t[x])
  BY <1>1 DEF Agree
<1>6. t[x].section # Nowhere => u[t[x].section].main = t[t[x].section].main
  BY <1>1, <1>2, <1>4, Ancestors
<1>7. t[x].sub # Nowhere => u[t[x].sub].section = t[t[x].sub].section
  BY <1>1, Ancestors
<1>8. u[x].main = t[x].main /\ u[x].section = t[x].section /\ u[x].sub = t[x].sub
  BY <1>1, <1>2, <1>3
<1>9. x \in Subs \cup Questions => t[x].section # Nowhere
  BY <1>1, Ancestors
<1> QED BY <1>1, <1>5, <1>6, <1>7, <1>8, <1>9 DEF Hangs

\* Demotion of a main section: its rows name the new one, the sections and what
\* is in them alike.
LEMMA DemoteAgrees ==
    ASSUME NEW t, IsTree(t), Agree(t), NEW i \in Mains, NEW main \in Mains \cap Rows(t),
           NEW u, NEW moved, \A x \in Rows(t) : x \in moved <=> t[x].main = i,
           Rehangs(t, u, moved, main, Nowhere)
    PROVE  \A x \in Rows(u) : Hangs(u, x, u[x])
<1> SUFFICES ASSUME NEW x \in Rows(u) PROVE Hangs(u, x, u[x])
  OBVIOUS
<1>1. Rows(u) = Rows(t) /\ \A y \in Rows(t) :
         /\ u[y].section = t[y].section /\ u[y].sub = t[y].sub
         /\ u[y].main = IF t[y].main = i THEN main ELSE t[y].main
  BY DEF Rehangs
<1>2. i # Nowhere
  BY LevelsDistinct DEF Ids
<1>3. t[x].section # Nowhere => u[x].main = u[t[x].section].main
  BY <1>1, Ancestors
<1>4. t[x].sub # Nowhere => u[t[x].sub].section = t[x].section
  BY <1>1, Ancestors
<1>5. (x \in Sections => u[x].main \in Rows(u)) /\ (x \in Mains => u[x].main = Nowhere)
  BY <1>1, <1>2, Ancestors
<1>6. Hangs(t, x, t[x])
  BY <1>1 DEF Agree
<1>7. x \in Subs \cup Questions => t[x].section # Nowhere
  BY <1>1, Ancestors
<1> QED BY <1>1, <1>3, <1>4, <1>5, <1>6, <1>7 DEF Hangs

\* Promotion of a sub-section: its questions hang off the new section.
LEMMA LiftAgrees ==
    ASSUME NEW t, IsTree(t), Agree(t), NEW i \in Subs, NEW s \in Sections \cap Rows(t),
           NEW place \in Places, place.main = t[s].main, place.section = s, place.sub = Nowhere,
           NEW moved, \A x \in Rows(t) : x \in moved <=> t[x].sub = i,
           NEW u, u = Lifted(t, moved, place)
    PROVE  Agree(u)
<1>1. Rows(u) = Rows(t)
  BY DEF Rows, Lifted
<1>2. \A y \in Rows(t) : y \notin moved => u[y] = t[y]
  BY DEF Lifted
<1>3. ASSUME NEW y \in Rows(t), y \in moved
      PROVE  u[y].main = t[s].main /\ u[y].section = s /\ u[y].sub = Nowhere
  BY <1>3 DEF Lifted, Places
<1>4. i # Nowhere
  BY LevelsDistinct DEF Ids
<1>5. \A y \in moved \cap Rows(t) : y \in Questions
  BY <1>4, Ancestors
<1>6. \A y \in Rows(t) : y \in Sections \cup Subs => u[y] = t[y]
  BY <1>2, <1>5, LevelsDistinct
<1>7. ASSUME NEW x \in Rows(t), x \in moved
      PROVE  Hangs(u, x, u[x])
  <2>1. x \in Questions /\ x \notin Mains \cup Sections
    BY <1>5, <1>7, LevelsDistinct
  <2>2. u[s].main = t[s].main
    BY <1>6
  <2> QED BY <1>1, <1>3, <1>7, <2>1, <2>2 DEF Hangs
<1>8. ASSUME NEW x \in Rows(t), x \notin moved
      PROVE  Hangs(u, x, u[x])
  <2>1. u[x] = t[x] /\ Hangs(t, x, t[x])
    BY <1>2, <1>8 DEF Agree
  <2>2. t[x].section # Nowhere => u[t[x].section] = t[t[x].section]
    BY <1>6, Ancestors
  <2>3. t[x].sub # Nowhere => u[t[x].sub] = t[t[x].sub]
    BY <1>6, Ancestors
  <2>4. x \in Subs \cup Questions => t[x].section # Nowhere
    BY Ancestors
  <2> QED BY <1>1, <2>1, <2>2, <2>3, <2>4 DEF Hangs
<1> QED BY <1>1, <1>7, <1>8 DEF Agree

\* Demotion of a section: its sub-sections hang off the section above it, and
\* what still names the section goes.
LEMMA SinkAgrees ==
    ASSUME NEW t, IsTree(t), Agree(t), NEW i \in Sections, NEW p \in Sections \cap Rows(t),
           NEW b, NEW sunk, NEW direct, sunk = Sunk(t, direct, b), IsTree(sunk),
           \A x \in direct : t[x].section = i /\ x \in Questions,
           NEW nested, \A x \in Rows(t) : x \in nested <=> x \in Subs /\ t[x].section = i,
           NEW main, main = t[p].main, NEW u, Rehangs(sunk, u, nested, main, p)
    PROVE  \A x \in Rows(u) : u[x].section # i => Hangs(u, x, u[x])
<1> SUFFICES ASSUME NEW x \in Rows(u), u[x].section # i PROVE Hangs(u, x, u[x])
  OBVIOUS
<1>1. Rows(u) = Rows(t) /\ p # Nowhere
  BY LevelsDistinct DEF Rows, Sunk, Rehangs, Ids
<1>2. ASSUME NEW y \in Rows(t)
      PROVE  /\ sunk[y].main = t[y].main /\ sunk[y].section = t[y].section
             /\ y \notin direct => sunk[y].sub = t[y].sub
  <2>1. t[y] \in Places
    BY <1>2 DEF IsTree
  <2> QED BY <2>1 DEF Sunk, Places
<1>3. ASSUME NEW y \in Rows(t)
      PROVE  /\ u[y].main = IF y \in nested THEN main ELSE t[y].main
             /\ u[y].section = IF y \in nested THEN p ELSE t[y].section
             /\ y \notin direct => u[y].sub = t[y].sub
  BY <1>1, <1>2 DEF Rehangs
<1>4. \A y \in Rows(t) \cap Sections : y \notin nested /\ y \notin direct /\ u[y].main = t[y].main
  BY <1>3, LevelsDistinct
<1>5. CASE x \in nested
  <2>1. x \in Subs /\ x \notin Mains \cup Sections \cup Questions /\ x \notin direct
    BY <1>1, <1>5, LevelsDistinct
  <2>2. u[x].sub = Nowhere
    BY <1>1, <1>3, <2>1, Ancestors
  <2> QED BY <1>1, <1>3, <1>4, <1>5, <2>1, <2>2 DEF Hangs
<1>6. CASE x \notin nested
  <2>1. x \notin direct /\ t[x].section # i
    BY <1>1, <1>3, <1>6
  <2>2. u[x].main = t[x].main /\ u[x].section = t[x].section /\ u[x].sub = t[x].sub
    BY <1>1, <1>3, <1>6, <2>1
  <2>3. t[x].section # Nowhere => u[t[x].section].main = t[t[x].section].main
    BY <1>1, <1>4, Ancestors
  <2>4. t[x].sub # Nowhere => u[t[x].sub].section = t[t[x].sub].section
    BY <1>1, <1>3, <2>1, Ancestors
  <2>5. Hangs(t, x, t[x]) /\ (x \in Subs \cup Questions => t[x].section # Nowhere)
    BY <1>1, Ancestors DEF Agree
  <2> QED BY <1>1, <2>2, <2>3, <2>4, <2>5 DEF Hangs
<1> QED BY <1>5, <1>6

\* A drag, with the cascade that the level of the dragged row needs.
LEMMA DragAgrees ==
    ASSUME NEW t, IsTree(t), Agree(t), NEW i \in Rows(t), NEW to \in Places, Hangs(t, i, to),
           NEW placed, Rows(placed) = Rows(t), placed[i] = to,
           \A x \in Rows(t) \ {i} :
              /\ placed[x].main = t[x].main /\ placed[x].section = t[x].section
              /\ placed[x].sub = t[x].sub,
           NEW moved, NEW main, NEW section, NEW u, Rehangs(placed, u, moved, main, section),
           \/ i \in Sections /\ section = Nowhere /\ main = to.main
              /\ \A x \in Rows(t) : x \in moved <=> placed[x].section = i
           \/ i \in Subs /\ section = to.section /\ main = to.main
              /\ \A x \in Rows(t) : x \in moved <=> placed[x].sub = i
           \/ i \in Mains \cup Questions /\ moved = {}
    PROVE  Agree(u)
<1>1. Rows(u) = Rows(t) /\ i # Nowhere /\ i \in Ids /\ Nowhere \notin Rows(t)
  BY LevelsDistinct DEF Rehangs, IsTree
<1>2. \A x \in Rows(t) :
          /\ u[x].main = IF x \in moved THEN main ELSE placed[x].main
          /\ u[x].section = IF x \in moved /\ section # Nowhere THEN section ELSE placed[x].section
          /\ u[x].sub = placed[x].sub
  BY <1>1 DEF Rehangs
<1>3. /\ i \in Mains \cup Sections => to.section = Nowhere
      /\ i \notin Questions => to.sub = Nowhere
      /\ i \in Subs \cup Questions =>
            to.section \in Rows(t) \cap Sections /\ to.main = t[to.section].main
      /\ to.sub # Nowhere => to.sub \in Rows(t) \cap Subs /\ t[to.sub].section = to.section
  BY <1>1 DEF Hangs, Places
<1>4. i \notin moved
  BY <1>1, <1>3, LevelsDistinct
<1>5. /\ u[i].main = to.main /\ u[i].section = to.section /\ u[i].sub = to.sub
  BY <1>2, <1>4
<1>6. \A s \in (Rows(t) \cap Sections) \ {i} : s \notin moved /\ u[s].main = t[s].main
  BY <1>1, <1>2, Ancestors, LevelsDistinct
<1>7. \A b \in (Rows(t) \cap Subs) \ {i} : u[b].section = t[b].section
  BY <1>1, <1>2, Ancestors, LevelsDistinct
<1>8. Hangs(u, i, u[i])
  <2>1. i \in Subs \cup Questions => to.section # i
    BY <1>3, LevelsDistinct
  <2>2. to.sub # i
    BY <1>1, <1>3, LevelsDistinct
  <2> QED BY <1>1, <1>3, <1>5, <1>6, <1>7, <2>1, <2>2 DEF Hangs
<1>9. ASSUME NEW x \in Rows(t) \ {i}
      PROVE  Hangs(u, x, u[x])
  <2>1. Hangs(t, x, t[x]) /\ (x \in Subs \cup Questions => t[x].section # Nowhere)
    BY Ancestors DEF Agree
  <2>2. CASE i \in Sections
    <3>1. u[x].section = t[x].section /\ u[x].sub = t[x].sub
      BY <1>2, <1>3, <2>2, LevelsDistinct
    <3>2. u[x].main = IF t[x].section = i THEN u[i].main ELSE t[x].main
      BY <1>2, <1>5, <2>2, LevelsDistinct
    <3>3. t[x].section # Nowhere => u[t[x].section].main = u[x].main
      BY <1>6, <3>2, Ancestors
    <3>4. t[x].sub # Nowhere => u[t[x].sub].section = t[x].section
      BY <1>7, <2>2, Ancestors, LevelsDistinct
    <3>5. x \in Mains \cup Sections => u[x].main = t[x].main
      BY <1>1, <3>2, <2>1 DEF Hangs
    <3> QED BY <1>1, <2>1, <3>1, <3>3, <3>4, <3>5 DEF Hangs
  <2>3. CASE i \in Subs /\ t[x].sub = i
    <3>1. x \in Questions /\ x \notin Mains \cup Sections \cup Subs
      BY <1>1, <2>3, Ancestors, LevelsDistinct
    <3>2. u[x].main = to.main /\ u[x].section = to.section /\ u[x].sub = i
      BY <1>1, <1>2, <1>3, <2>3, LevelsDistinct
    <3>3. u[to.section].main = to.main
      BY <1>3, <1>6, <2>3, LevelsDistinct
    <3> QED BY <1>1, <1>3, <1>5, <2>3, <3>1, <3>2, <3>3 DEF Hangs
  <2>4. CASE i \notin Sections /\ (i \in Subs => t[x].sub # i)
    <3>1. u[x].main = t[x].main /\ u[x].section = t[x].section /\ u[x].sub = t[x].sub
      BY <1>2, <2>4, LevelsDistinct
    <3>2. t[x].section # Nowhere => u[t[x].section].main = t[t[x].section].main
      BY <1>6, <2>4, Ancestors
    <3>3. t[x].sub # Nowhere => u[t[x].sub].section = t[t[x].sub].section
      BY <1>7, <2>4, Ancestors
    <3> QED BY <1>1, <2>1, <3>1, <3>2, <3>3 DEF Hangs
  <2> QED BY <2>2, <2>3, <2>4
<1> QED BY <1>1, <1>8, <1>9 DEF Agree

\* A place below a row of the tree is one for the rows of the next level.
LEMMA BelowHangs ==
    ASSUME NEW t, IsTree(t), Agree(t), NEW level \in Levels,
           NEW p \in ParentLevel(level) \cap Rows(t), NEW place, place = Below(t, p),
           NEW x \in level
    PROVE  Hangs(t, x, place)
<1>1. /\ place.main = IF p \in Mains THEN p ELSE t[p].main
      /\ place.section = IF p \in Sections THEN p ELSE IF p \in Subs THEN t[p].section ELSE Nowhere
      /\ place.sub = IF p \in Subs THEN p ELSE Nowhere
  BY LevelsDistinct DEF Below
<1>2. \/ level = Sections /\ p \in Mains
      \/ level = Subs /\ p \in Sections
      \/ level = Questions /\ p \in Sections \cup Subs
  BY LevelsDistinct DEF ParentLevel, Levels
<1>3. Nowhere \notin Rows(t)
  BY LevelsDistinct DEF IsTree
<1>4. p \in Subs => /\ t[p].section \in Rows(t)
                    /\ t[p].main = t[t[p].section].main
  BY Ancestors
<1> QED BY <1>1, <1>2, <1>3, <1>4, LevelsDistinct DEF Hangs

\* The rank does not matter.
LEMMA RankedHangs ==
    ASSUME NEW t, NEW x, NEW level, NEW place \in Places, Hangs(t, x, place), NEW wanted,
           NEW to, to = Ranked(t, level, place, wanted)
    PROVE  Hangs(t, x, to)
<1>1. PICK k : to = [place EXCEPT !.rank = k]
  BY DEF Ranked
<1>2. to.main = place.main /\ to.section = place.section /\ to.sub = place.sub
  BY <1>1 DEF Places
<1> QED BY <1>2 DEF Hangs

\* What a request asks for, as it asks.
Asks(l, item, to) ==
    /\ \A x \in Aim(l, item) : Hangs(at, x, to)
    /\ l \in {"promote", "demoteSection"} => item \in Sections
    /\ l = "demote" => item \in Mains
    /\ l = "promoteSub" => item \in Subs

LEMMA AsksBelow ==
    ASSUME AInv, NEW level \in Levels, NEW p \in ParentLevel(level) \cap Live,
           NEW place, place = Below(at, p), NEW wanted, NEW x \in level,
           NEW to, to = Ranked(at, level, place, wanted)
    PROVE  Hangs(at, x, to)
<1>1. IsTree(at) /\ Agree(at) /\ p \in Rows(at) \cap (Mains \cup Sections \cup Subs)
  BY ParentLevels DEF AInv, IInv, Inv, Live
<1>2. place \in Places
  BY <1>1, BelowPlace
<1>3. Hangs(at, x, place)
  BY <1>1, BelowHangs
<1> QED BY <1>2, <1>3, RankedHangs

LEMMA AsksRoot ==
    ASSUME NEW wanted, NEW x \in Mains, NEW to, to = Ranked(at, Mains, Root, wanted)
    PROVE  Hangs(at, x, to)
<1>1. Hangs(at, x, Root)
  BY LevelsDistinct DEF Hangs, Root
<1> QED BY <1>1, RootPlace, RankedHangs

LEMMA CreateAsks ==
    ASSUME AInv, NEW e \in Editors, StartCreate(e)
    PROVE  \E l, item, old, to : Begin(e, l, item, old, to) /\ Asks(l, item, to)
<1>1. PICK level \in Levels, wanted \in 0 .. MaxRank : \E i \in Unused(level) :
        \E place \in {Below(at, p) : p \in ParentLevel(level) \cap Live}
                     \cup (IF level = Mains THEN {Root} ELSE {}) :
            Begin(e, "insert", i, Root, Ranked(at, level, place, wanted))
  BY DEF StartCreate
<1>2. PICK i \in Unused(level),
           place \in {Below(at, p) : p \in ParentLevel(level) \cap Live}
                     \cup (IF level = Mains THEN {Root} ELSE {}) :
        Begin(e, "insert", i, Root, Ranked(at, level, place, wanted))
  BY <1>1
<1>3. PICK to : to = Ranked(at, level, place, wanted)
  OBVIOUS
<1>4. Level(i) = level
  BY LevelOf DEF Unused
<1>5. ASSUME NEW x \in level PROVE Hangs(at, x, to)
  BY <1>3, <1>5, AsksBelow, AsksRoot
<1>6. Asks("insert", i, to)
  BY <1>4, <1>5 DEF Asks, Aim
<1> QED BY <1>2, <1>3, <1>6

LEMMA MoveAsks ==
    ASSUME AInv, NEW e \in Editors, StartMove(e)
    PROVE  \E l, item, old, to : Begin(e, l, item, old, to) /\ Asks(l, item, to)
<1>1. PICK i \in Live, wanted \in 0 .. MaxRank :
        \E place \in {at[i]} \cup {Below(at, p) : p \in ParentLevel(Level(i)) \cap Live} :
            Begin(e, "move", i, at[i], Ranked(at, Level(i), place, wanted))
  BY DEF StartMove
<1>2. PICK place \in {at[i]} \cup {Below(at, p) : p \in ParentLevel(Level(i)) \cap Live} :
        Begin(e, "move", i, at[i], Ranked(at, Level(i), place, wanted))
  BY <1>1
<1>3. PICK to : to = Ranked(at, Level(i), place, wanted)
  OBVIOUS
<1>4. i \in Ids /\ at[i] \in Places /\ Hangs(at, i, at[i])
  BY DEF AInv, IInv, Inv, IsTree, Agree, Live
<1>5. Level(i) \in Levels /\ i \in Level(i)
  BY <1>4, LevelOf DEF Levels, Ids
<1>6. Hangs(at, i, to)
  <2>1. place = at[i] => Hangs(at, i, to)
    BY <1>3, <1>4, RankedHangs
  <2>2. (\E p \in ParentLevel(Level(i)) \cap Live : place = Below(at, p)) => Hangs(at, i, to)
    BY <1>3, <1>5, AsksBelow
  <2> QED BY <1>2, <2>1, <2>2
<1>7. Asks("move", i, to)
  BY <1>6 DEF Asks, Aim
<1> QED BY <1>2, <1>3, <1>7

LEMMA ConvertAsks ==
    ASSUME AInv, NEW e \in Editors,
           StartPromote(e) \/ StartDemote(e) \/ StartPromoteSub(e) \/ StartDemoteSection(e)
    PROVE  \E l, item, old, to : Begin(e, l, item, old, to) /\ Asks(l, item, to)
<1>1. Mains \subseteq ParentLevel(Sections) /\ (Sections # {} => Sections \subseteq ParentLevel(Subs))
  BY LevelsDistinct DEF ParentLevel
<1>2. CASE StartPromote(e)
  <2>1. PICK i \in Live \cap Sections, wanted \in 0 .. MaxRank :
          Begin(e, "promote", i, at[i], Ranked(at, Mains, Root, wanted))
    BY <1>2 DEF StartPromote
  <2>2. PICK to : to = Ranked(at, Mains, Root, wanted)
    OBVIOUS
  <2>3. Asks("promote", i, to)
    BY <2>2, AsksRoot DEF Asks, Aim
  <2> QED BY <2>1, <2>2, <2>3
<1>3. ASSUME NEW p \in Live \cap Mains, NEW i, NEW wanted,
             NEW l, \/ l = "demote" /\ i \in Mains
                    \/ l = "promoteSub" /\ i \in Subs,
             Begin(e, l, i, at[i], Ranked(at, Sections, Below(at, p), wanted))
      PROVE  \E k, item, old, to : Begin(e, k, item, old, to) /\ Asks(k, item, to)
  <2>1. PICK place, to : place = Below(at, p) /\ to = Ranked(at, Sections, place, wanted)
    OBVIOUS
  <2>2. ASSUME NEW x \in Sections PROVE Hangs(at, x, to)
    BY <1>1, <2>1, <2>2, AsksBelow DEF Levels
  <2>3. Asks(l, i, to)
    BY <1>3, <2>2 DEF Asks, Aim
  <2> QED BY <1>3, <2>1, <2>3
<1>4. CASE StartDemoteSection(e)
  <2>1. PICK i \in Live \cap Sections, p \in Live \cap Sections, wanted \in 0 .. MaxRank :
          Begin(e, "demoteSection", i, at[i], Ranked(at, Subs, Below(at, p), wanted))
    BY <1>4 DEF StartDemoteSection
  <2>2. PICK place, to : place = Below(at, p) /\ to = Ranked(at, Subs, place, wanted)
    OBVIOUS
  <2>3. ASSUME NEW x \in Subs PROVE Hangs(at, x, to)
    BY <1>1, <2>2, <2>3, AsksBelow DEF Levels
  <2>4. Asks("demoteSection", i, to)
    BY <2>3 DEF Asks, Aim
  <2> QED BY <2>1, <2>2, <2>4
<1> QED BY <1>2, <1>3, <1>4 DEF StartDemote, StartPromoteSub

LEMMA BeginSettles ==
    ASSUME AInv, IInv', NEW e \in Editors, NEW l, NEW item, NEW old, NEW to,
           Begin(e, l, item, old, to), Asks(l, item, to)
    PROVE  Agree(at)' /\ Settled(e)'
<1>1. at' = at /\ pc'[e] = l /\ frame'[e] = [item |-> item, old |-> old, to |-> to]
  BY DEF Begin, AInv, IInv, Inv
<1>2. Item(e)' = item /\ To(e)' = to
  BY <1>1 DEF Item, To
<1>3. Agree(at)'
  BY <1>1 DEF AInv, Agree, Hangs, Rows
<1>4. \A x \in Aim(l, item) : Hangs(at, x, To(e))'
  BY <1>1, <1>2 DEF Asks, Hangs, Rows
<1> QED BY <1>1, <1>2, <1>3, <1>4 DEF Settled, Asks, At

LEMMA CommitSettles ==
    ASSUME AInv, NEW e \in Editors, NEW t, Commit(e, t), Legal(t) => Agree(t)
    PROVE  Agree(at)' /\ Settled(e)'
<1>1. at' = (IF Legal(t) /\ answered \subseteq Rows(t) THEN t ELSE at) /\ pc'[e] = "idle"
  BY DEF Commit, Finish, AInv, IInv, Inv
<1>2. Agree(at')
  BY <1>1 DEF AInv
<1>3. Agree(at)'
  BY <1>2 DEF Agree, Hangs, Rows
<1> QED BY <1>1, <1>3 DEF Settled, Aim, At

LEMMA InsertSettles ==
    ASSUME AInv, Counts, NEW e \in Editors, Insert(e)
    PROVE  Agree(at)' /\ Settled(e)'
<1>1. PICK i \in Unused(Level(Item(e))) : Commit(e, Put(at, i, To(e)))
  BY DEF Insert
<1>2. /\ Item(e) \in Ids /\ (Item(e) \in Mains \/ To(e).main \in Mains)
      /\ To(e) \in Places /\ Counted(To(e))
  BY FrameRead DEF Insert, At, AInv, IInv
<1>3. /\ Level(Item(e)) \in Levels
      /\ Item(e) \in Mains => Level(Item(e)) = Mains
  BY <1>2, LevelOf DEF Levels, Ids
<1>4. i \in Ids \ Rows(at) /\ (i \in Mains \/ To(e).main \in Mains)
  BY <1>1, <1>2, <1>3, LevelIds DEF Unused, Counts
<1>5. Hangs(at, i, To(e))
  <2>1. pc[e] = "insert" /\ i \in Level(Item(e))
    BY <1>1 DEF Insert, At, Unused
  <2> QED BY <2>1 DEF AInv, Settled, Aim
<1>6. PICK t : t = Put(at, i, To(e))
  OBVIOUS
<1>7. Agree(t)
  BY <1>2, <1>4, <1>5, <1>6, PutAgrees DEF AInv, IInv, Inv
<1> QED BY <1>1, <1>6, <1>7, CommitSettles

LEMMA DeleteSettles ==
    ASSUME AInv, NEW e \in Editors, Delete(e)
    PROVE  Agree(at)' /\ Settled(e)'
<1>1. PICK gone, t : t = Without(at, gone) /\ Commit(e, t)
  BY DEF Delete
<1>2. IsTree(at) /\ Agree(at)
  BY DEF AInv, IInv, Inv
<1>3. IsTree(t) /\ Remains(at, t, gone)
  BY <1>1, <1>2, WithoutRows, CutRemains
<1>4. \A x \in Rows(at) \ gone : Hangs(at, x, at[x])
  BY <1>2 DEF Agree
<1>5. Related(t) => Agree(t)
  BY <1>2, <1>3, <1>4, RemainsAgree
<1> QED BY <1>1, <1>5, CommitSettles DEF Legal

LEMMA PromoteSettles ==
    ASSUME AInv, Counts, NEW e \in Editors, Promote(e)
    PROVE  Agree(at)' /\ Settled(e)'
<1>1. PICK m, made, moved, hung, t :
        /\ m \in Unused(Mains)
        /\ made = Put(at, m, To(e)) /\ moved = InSection(made, Item(e))
        /\ hung = Rehung(made, moved, m, Nowhere)
        /\ t = Replaced(hung, Sections, Item(e), Old(e)) /\ Commit(e, t)
  BY DEF Promote
<1>2. pc[e] = "promote"
  BY DEF Promote, At
<1>3. /\ m \in Mains /\ m \in Ids \ Rows(at) /\ Item(e) \in Sections
      /\ To(e) \in Places /\ Old(e) \in Places /\ Counted(To(e)) /\ Counted(Old(e))
  BY <1>1, <1>2, FrameRead, LevelIds DEF At, Unused, Levels, AInv, IInv, Settled, Counts
<1>4. Hangs(at, m, To(e))
  BY <1>2, <1>3 DEF AInv, Settled, Aim
<1>5. IsTree(at) /\ Agree(at)
  BY DEF AInv, IInv, Inv
<1>6. IsTree(made) /\ Agree(made)
  BY <1>1, <1>3, <1>4, <1>5, PutRows, PutAgrees
<1>7. IsTree(hung) /\ Rehangs(made, hung, moved, m, Nowhere)
  BY <1>1, <1>3, <1>6, RehungRows, RehungHangs
<1>8. \A x \in Rows(hung) : hung[x].section # Item(e) => Hangs(hung, x, hung[x])
  <2>1. \A x \in moved : made[x].section = Item(e)
    BY <1>1 DEF InSection
  <2> QED BY <1>3, <1>6, <1>7, <2>1, PromoteAgrees
<1>9. PICK gone : /\ Remains(hung, t, gone)
                  /\ \A x \in Rows(hung) : hung[x].section = Item(e) => x \in gone
  BY <1>1, <1>3, <1>7, ReplacedRemains
<1>10. IsTree(t)
  BY <1>1, <1>3, <1>7, ReplacedTree
<1>11. Related(t) => Agree(t)
  BY <1>7, <1>8, <1>9, <1>10, RemainsAgree
<1> QED BY <1>1, <1>11, CommitSettles DEF Legal

LEMMA DemoteSettles ==
    ASSUME AInv, Counts, NEW e \in Editors, Demote(e)
    PROVE  Agree(at)' /\ Settled(e)'
<1>1. PICK s, made, moved, main, hung, t :
        /\ s \in Unused(Sections)
        /\ made = Put(at, s, To(e)) /\ moved = InMain(made, Item(e)) /\ main = To(e).main
        /\ hung = Rehung(made, moved, main, Nowhere)
        /\ t = Replaced(hung, Mains, Item(e), Old(e)) /\ Commit(e, t)
  BY DEF Demote
<1>2. pc[e] = "demote"
  BY DEF Demote, At
<1>3. /\ s \in Sections /\ s \in Ids \ Rows(at) /\ Item(e) \in Mains
      /\ To(e) \in Places /\ Old(e) \in Places /\ Counted(To(e)) /\ Counted(Old(e))
      /\ main \in Mains /\ To(e).main \in Mains
  BY <1>1, <1>2, FrameRead, LevelIds DEF At, Unused, Levels, AInv, IInv, Settled, Counts
<1>4. Hangs(at, s, To(e))
  BY <1>2, <1>3 DEF AInv, Settled, Aim
<1>5. IsTree(at) /\ Agree(at)
  BY DEF AInv, IInv, Inv
<1>6. IsTree(made) /\ Agree(made) /\ main \in Rows(made)
  <2>1. IsTree(made) /\ Agree(made) /\ Rows(made) = Rows(at) \cup {s}
    BY <1>1, <1>3, <1>4, <1>5, PutRows, PutAgrees
  <2> QED BY <1>1, <1>3, <1>4, <2>1 DEF Hangs
<1>7. IsTree(hung) /\ Rehangs(made, hung, moved, main, Nowhere)
  BY <1>1, <1>3, <1>6, RehungRows, RehungHangs
<1>8. \A x \in Rows(hung) : Hangs(hung, x, hung[x])
  <2>1. \A x \in Rows(made) : x \in moved <=> made[x].main = Item(e)
    BY <1>1 DEF InMain
  <2> QED BY <1>3, <1>6, <1>7, <2>1, DemoteAgrees
<1>9. PICK gone : Remains(hung, t, gone)
  BY <1>1, <1>3, <1>7, ReplacedRemains
<1>10. IsTree(t)
  BY <1>1, <1>3, <1>7, ReplacedTree
<1>11. Related(t) => Agree(t)
  BY <1>7, <1>8, <1>9, <1>10, RemainsAgree
<1> QED BY <1>1, <1>11, CommitSettles DEF Legal

LEMMA PromoteSubSettles ==
    ASSUME AInv, Counts, NEW e \in Editors, PromoteSub(e)
    PROVE  Agree(at)' /\ Settled(e)'
<1>1. PICK s, made, moved, place, lifted, t :
        /\ s \in Unused(Sections)
        /\ made = Put(at, s, To(e)) /\ place = Below(made, s)
        /\ moved = InSub(made, Item(e)) /\ lifted = Lifted(made, moved, place)
        /\ t = Replaced(lifted, Subs, Item(e), Old(e)) /\ Commit(e, t)
  BY DEF PromoteSub, Lifted
<1>2. pc[e] = "promoteSub"
  BY DEF PromoteSub, At
<1>3. /\ s \in Sections /\ s \in Ids \ Rows(at) /\ Item(e) \in Subs
      /\ To(e) \in Places /\ Old(e) \in Places /\ Counted(To(e)) /\ Counted(Old(e))
      /\ To(e).main \in Mains
  BY <1>1, <1>2, FrameRead, LevelIds DEF At, Unused, Levels, AInv, IInv, Settled, Counts
<1>4. Hangs(at, s, To(e))
  BY <1>2, <1>3 DEF AInv, Settled, Aim
<1>5. IsTree(at) /\ Agree(at)
  BY DEF AInv, IInv, Inv
<1>6. IsTree(made) /\ Agree(made) /\ s \in Rows(made)
  BY <1>1, <1>3, <1>4, <1>5, PutRows, PutAgrees
<1>7. /\ place \in Places /\ place.main \in Mains
      /\ place.main = made[s].main /\ place.section = s /\ place.sub = Nowhere
  <2>1. place \in Places /\ place.main \in Mains
    BY <1>1, <1>3, <1>6, BelowPlace
  <2>2. s \notin Mains /\ s \notin Subs
    BY <1>3, LevelsDistinct
  <2> QED BY <1>1, <1>3, <2>1, <2>2 DEF Below
<1>8. IsTree(lifted) /\ Agree(lifted)
  <2>1. \A x \in Rows(made) : x \in moved <=> made[x].sub = Item(e)
    BY <1>1 DEF InSub
  <2> QED BY <1>1, <1>3, <1>6, <1>7, <2>1, LiftedRows, LiftAgrees
<1>9. PICK gone : Remains(lifted, t, gone)
  BY <1>1, <1>3, <1>8, ReplacedRemains
<1>10. IsTree(t)
  BY <1>1, <1>3, <1>8, ReplacedTree
<1>11. Related(t) => Agree(t)
  BY <1>8, <1>9, <1>10, RemainsAgree DEF Agree
<1> QED BY <1>1, <1>11, CommitSettles DEF Legal

LEMMA DemoteSectionSettles ==
    ASSUME AInv, Counts, NEW e \in Editors, DemoteSection(e)
    PROVE  Agree(at)' /\ Settled(e)'
<1>1. PICK b, made, direct, sunk, nested, main, section, hung, t :
        /\ b \in Unused(Subs)
        /\ made = Put(at, b, To(e)) /\ main = To(e).main /\ section = To(e).section
        /\ direct = {x \in InSection(made, Item(e)) \cap Questions : made[x].sub = Nowhere}
        /\ sunk = Sunk(made, direct, b)
        /\ nested = InSection(sunk, Item(e)) \cap Subs
        /\ hung = Rehung(sunk, nested, main, section)
        /\ t = Replaced(hung, Sections, Item(e), Old(e)) /\ Commit(e, t)
  BY DEF DemoteSection, Sunk
<1>2. pc[e] = "demoteSection"
  BY DEF DemoteSection, At
<1>3. /\ b \in Subs /\ b \in Ids \ Rows(at) /\ Item(e) \in Sections
      /\ To(e) \in Places /\ Old(e) \in Places /\ Counted(To(e)) /\ Counted(Old(e))
      /\ main \in Mains /\ To(e).main \in Mains /\ section \in Sections \cup {Nowhere}
  BY <1>1, <1>2, FrameRead, LevelIds DEF At, Unused, Levels, AInv, IInv, Settled, Counts
<1>4. Hangs(at, b, To(e))
  BY <1>2, <1>3 DEF AInv, Settled, Aim
<1>5. IsTree(at) /\ Agree(at)
  BY DEF AInv, IInv, Inv
<1>6. /\ IsTree(made) /\ Agree(made) /\ Rows(made) = Rows(at) \cup {b}
      /\ made[b] = To(e) /\ \A x \in Rows(at) : made[x] = at[x]
  BY <1>1, <1>3, <1>4, <1>5, PutRows, PutAgrees
<1>7. section \in Sections \cap Rows(made) /\ main = made[section].main
  <2>1. section \in Rows(at) /\ main = at[section].main
    BY <1>1, <1>3, <1>4 DEF Hangs
  <2> QED BY <1>3, <1>5, <1>6, <2>1, LevelsDistinct DEF IsTree
<1>8. IsTree(sunk) /\ Rows(sunk) = Rows(made)
  BY <1>1, <1>3, <1>6, SunkRows
<1>9. IsTree(hung) /\ Rehangs(sunk, hung, nested, main, section)
  BY <1>1, <1>3, <1>8, RehungRows, RehungHangs
<1>10. \A x \in Rows(hung) : hung[x].section # Item(e) => Hangs(hung, x, hung[x])
  <2>1. \A x \in direct : made[x].section = Item(e) /\ x \in Questions
    BY <1>1 DEF InSection
  <2>2. ASSUME NEW x \in Rows(made)
        PROVE  sunk[x].section = made[x].section
    <3>1. made[x] \in Places
      BY <1>6 DEF IsTree
    <3> QED BY <1>1, <3>1 DEF Sunk, Places
  <2>3. \A x \in Rows(made) : x \in nested <=> x \in Subs /\ made[x].section = Item(e)
    BY <1>1, <1>8, <2>2 DEF InSection
  <2>4. PICK i : i = Item(e)
    OBVIOUS
  <2>5. /\ i \in Sections /\ sunk = Sunk(made, direct, b) /\ IsTree(sunk)
        /\ IsTree(made) /\ Agree(made)
        /\ \A x \in direct : made[x].section = i /\ x \in Questions
        /\ \A x \in Rows(made) : x \in nested <=> x \in Subs /\ made[x].section = i
    BY <1>1, <1>3, <1>6, <1>8, <2>1, <2>3, <2>4
  <2>6. \A x \in Rows(hung) : hung[x].section # i => Hangs(hung, x, hung[x])
    BY <1>7, <1>9, <2>5, SinkAgrees
  <2> QED BY <2>4, <2>6
<1>11. PICK gone : /\ Remains(hung, t, gone)
                   /\ \A x \in Rows(hung) : hung[x].section = Item(e) => x \in gone
  <2>1. t = Replaced(hung, Sections, Item(e), Old(e))
    BY <1>1
  <2> QED BY <1>3, <1>9, <2>1, ReplacedRemains
<1>12. IsTree(t)
  BY <1>1, <1>3, <1>9, ReplacedTree
<1>13. Related(t) => Agree(t)
  BY <1>9, <1>10, <1>11, <1>12, RemainsAgree
<1> QED BY <1>1, <1>13, CommitSettles DEF Legal

LEMMA MovedAgrees ==
    ASSUME NEW t, IsTree(t), Agree(t), NEW i \in Rows(t), NEW to \in Places, Counted(to),
           Hangs(t, i, to), i \in Mains \/ to.main \in Mains,
           NEW u, u = Moved(t, i, t[i], to)
    PROVE  Agree(u)
<1>1. PICK old, shifted, placed :
         old = t[i] /\ shifted = Shifted(t, i, old, to) /\ placed = Put(shifted, i, to)
  OBVIOUS
<1>2. i \in Ids /\ old \in Places /\ Counted(old)
  BY <1>1 DEF IsTree
<1>3. IsTree(shifted) /\ SameTree(t, shifted)
  BY <1>1, <1>2, ShiftedTree
<1>4. /\ IsTree(placed) /\ Rows(placed) = Rows(t) /\ placed[i] = to
      /\ \A x \in Rows(t) \ {i} :
            /\ placed[x].main = t[x].main /\ placed[x].section = t[x].section
            /\ placed[x].sub = t[x].sub
  <2>1. /\ IsTree(placed) /\ Rows(placed) = Rows(shifted) \cup {i} /\ placed[i] = to
        /\ \A x \in Rows(shifted) \ {i} : placed[x] = shifted[x]
    BY <1>1, <1>2, <1>3, PutRows
  <2> QED BY <1>3, <2>1 DEF SameTree
<1>5. /\ i \in Sections /\ old.main # to.main =>
            u = Rehung(placed, InSection(placed, i), to.main, Nowhere)
      /\ i \in Subs /\ old.section # to.section =>
            u = Rehung(placed, InSub(placed, i), to.main, to.section)
      /\ ~(i \in Sections /\ old.main # to.main) /\ ~(i \in Subs /\ old.section # to.section)
         => u = placed
  BY <1>1, LevelsDistinct DEF Moved
<1>6. /\ \A x \in Rows(t) : x \in InSection(placed, i) <=> placed[x].section = i
      /\ \A x \in Rows(t) : x \in InSub(placed, i) <=> placed[x].sub = i
  BY <1>4 DEF InSection, InSub
<1>7. /\ i # Nowhere /\ (i \in Sections => to.section = Nowhere) /\ (i \in Subs => to.sub = Nowhere)
      /\ i \in Subs => to.section # Nowhere /\ to.main = t[to.section].main
  BY <1>2, LevelsDistinct DEF Hangs, IsTree
<1>8. CASE i \in Sections
  <2>1. PICK moved : moved = InSection(placed, i)
    OBVIOUS
  <2>2. Rehangs(placed, u, moved, to.main, Nowhere)
    <3>1. CASE old.main # to.main
      BY <1>4, <1>5, <1>8, <2>1, <3>1, RehungHangs
    <3>2. CASE old.main = to.main
      <4>1. u = placed
        BY <1>5, <1>8, <3>2, LevelsDistinct
      <4>2. \A x \in Rows(t) : x \in moved => x # i /\ t[x].section = i
        BY <1>4, <1>6, <1>7, <1>8, <2>1
      <4>3. \A x \in Rows(t) : x \in moved => placed[x].main = to.main
        BY <1>1, <1>4, <1>7, <3>2, <4>2, Ancestors
      <4> QED BY <1>4, <4>1, <4>3 DEF Rehangs
    <3> QED BY <3>1, <3>2
  <2> QED BY <1>4, <1>6, <1>8, <2>1, <2>2, DragAgrees
<1>9. CASE i \in Subs
  <2>1. PICK moved : moved = InSub(placed, i)
    OBVIOUS
  <2>2. Rehangs(placed, u, moved, to.main, to.section)
    <3>1. CASE old.section # to.section
      BY <1>4, <1>5, <1>9, <2>1, <3>1, RehungHangs
    <3>2. CASE old.section = to.section
      <4>1. u = placed
        BY <1>5, <1>9, <3>2, LevelsDistinct
      <4>2. \A x \in Rows(t) : x \in moved => x # i /\ t[x].sub = i
        BY <1>4, <1>6, <1>7, <1>9, <2>1
      <4>3. \A x \in Rows(t) : x \in moved => placed[x].section = to.section
        BY <1>1, <1>4, <1>7, <3>2, <4>2, Ancestors
      <4>4. \A x \in Rows(t) : x \in moved => placed[x].main = to.main
        BY <1>4, <1>7, <1>9, <4>2, <4>3, Ancestors
      <4> QED BY <1>4, <4>1, <4>3, <4>4 DEF Rehangs
    <3> QED BY <3>1, <3>2
  <2> QED BY <1>4, <1>6, <1>9, <2>1, <2>2, DragAgrees
<1>10. CASE i \in Mains \cup Questions
  <2>1. u = placed
    BY <1>5, <1>10, LevelsDistinct
  <2>2. Rehangs(placed, u, {}, to.main, Nowhere)
    BY <2>1 DEF Rehangs
  <2> QED BY <1>4, <1>10, <2>2, DragAgrees
<1> QED BY <1>2, <1>8, <1>9, <1>10 DEF Ids

LEMMA MoveSettles ==
    ASSUME AInv, NEW e \in Editors, Move(e)
    PROVE  Agree(at)' /\ Settled(e)'
<1>1. Item(e) \in Live /\ Old(e) = at[Item(e)] /\ pc[e] = "move" /\ IsTree(at) /\ Agree(at)
  BY DEF AInv, IInv, Inv, Fresh, Move, At
<1>2. PICK i, to, t : /\ i = Item(e) /\ to = To(e) /\ t = Moved(at, i, at[i], to)
                      /\ Commit(e, t)
  BY <1>1 DEF Move
<1>3. i \in Rows(at) /\ to \in Places /\ Counted(to) /\ (i \in Mains \/ to.main \in Mains)
  BY <1>1, <1>2, FrameRead DEF AInv, IInv, At, Live
<1>4. Hangs(at, i, to)
  BY <1>1, <1>2 DEF AInv, Settled, Aim
<1>5. Agree(t)
  BY <1>1, <1>2, <1>3, <1>4, MovedAgrees
<1> QED BY <1>2, <1>5, CommitSettles

LEMMA EditSettles ==
    ASSUME OneEditor, AInv, Counts, NEW e \in Editors, Edit(e)
    PROVE  AInv'
<1>1. IInv'
  BY EditsAlone DEF AInv
<1>2. CASE StartDelete(e)
  <2>1. PICK i \in Live : Begin(e, "delete", i, at[i], Root)
    BY <1>2 DEF StartDelete
  <2>2. Asks("delete", i, Root)
    BY DEF Asks, Aim
  <2> QED BY <1>1, <2>1, <2>2, BeginSettles DEF AInv, OneEditor
<1>3. CASE \/ StartCreate(e) \/ StartMove(e) \/ StartPromote(e) \/ StartDemote(e)
           \/ StartPromoteSub(e) \/ StartDemoteSection(e)
  <2>1. \E l, item, old, to : Begin(e, l, item, old, to) /\ Asks(l, item, to)
    BY <1>3, CreateAsks, MoveAsks, ConvertAsks
  <2> QED BY <1>1, <2>1, BeginSettles DEF AInv, OneEditor
<1>4. CASE \/ Insert(e) \/ Delete(e) \/ Move(e) \/ Promote(e) \/ Demote(e)
           \/ PromoteSub(e) \/ DemoteSection(e)
  <2>1. Agree(at)' /\ Settled(e)'
    BY <1>4, InsertSettles, DeleteSettles, MoveSettles, PromoteSettles, DemoteSettles,
       PromoteSubSettles, DemoteSectionSettles
  <2> QED BY <1>1, <2>1 DEF AInv, OneEditor
<1> QED BY <1>2, <1>3, <1>4 DEF Edit

LEMMA NextSettles ==
    ASSUME OneEditor, AInv, Counts, [Next]_vars
    PROVE  AInv'
<1>1. CASE \E e \in Editors : Edit(e)
  BY <1>1, EditSettles
<1>2. CASE UNCHANGED <<at, pc, frame>>
  <2>1. IInv'
    BY NextKeepsIInv DEF AInv
  <2>2. Agree(at)' /\ \A e \in Editors : Settled(e)'
    BY <1>2 DEF AInv, Agree, Hangs, Rows, Settled, At, Item, To
  <2> QED BY <2>1, <2>2 DEF AInv
<1>3. (\E q \in Questions : AnswerQuestion(q)) \/ UNCHANGED vars => UNCHANGED <<at, pc, frame>>
  BY DEF AnswerQuestion, vars
<1> QED BY <1>1, <1>2, <1>3 DEF Next

\* While one administrator edits, the ancestors a row names are its parent's,
\* for every tree and any number of drags, promotions, demotions and deletions.
THEOREM AncestorsAgree == ASSUME OneEditor PROVE Spec => []ParentsAgree
<1>1. Init => AInv
  <2>1. Init => IInv
    <3>1. Init => \A e \in Editors : Fresh(e)
      BY DEF Init, Fresh, At
    <3> QED BY <3>1, StartsWithInv DEF IInv
  <2>2. Init => Agree(at) /\ \A e \in Editors : Settled(e)
    BY TreeIsLegal DEF Init, Settled, Aim, At
  <2> QED BY <2>1, <2>2 DEF AInv
<1>2. AInv => ParentsAgree
  BY DEF AInv, ParentsAgree
<1>3. Spec => []Counts
  BY InitCounts, NextKeepsCounts, Inductive, PTL DEF Spec
<1> QED BY <1>1, <1>2, <1>3, NextSettles, PTL DEF Spec
=============================================================================
