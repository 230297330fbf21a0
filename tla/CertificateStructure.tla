------------------------ MODULE CertificateStructure ------------------------
(***************************************************************************)
(* The tree of one certificate: main sections, sections, sub-sections and  *)
(* questions, each a row that names its ancestors and has a rank among its *)
(* siblings.  Administrators create rows, delete them, drag them to another *)
(* rank or parent and turn one level into another; applicants answer        *)
(* questions meanwhile.  A request reads the rows it needs and then writes, *)
(* in a transaction that a broken constraint of the schema rolls back.     *)
(* Short codes are not kept: each is the path of ranks of its row, and is   *)
(* rewritten by every reorder.                                              *)
(***************************************************************************)
EXTENDS Naturals, FiniteSets, FiniteSetsExt

CONSTANTS
    Mains, Sections, Subs, Questions,  \* the ids rows may get
    Nowhere,                           \* the NULL of a parent column
    Tree,                              \* the rows at the start
    Editors,                           \* administrators' sessions
    MaxRank,                           \* the largest rank a request may ask for
    MaxEdits, MaxAnswers               \* how many requests of each kind there are

Ids == Mains \cup Sections \cup Subs \cup Questions

ASSUME LevelsDistinct ==
    /\ Nowhere \notin Ids /\ {} \notin {Mains, Sections, Subs, Questions}
    /\ Mains \cap (Sections \cup Subs \cup Questions) = {}
    /\ Sections \cap (Subs \cup Questions) = {}
    /\ Subs \cap Questions = {}
ASSUME Bounds == MaxRank \in Nat /\ MaxEdits \in Nat /\ MaxAnswers \in Nat

VARIABLES
    at,        \* where each row is: its ancestors and its rank
    used,      \* ids a row has or had: a new row gets another
    answered,  \* questions of which assessment_queries has a row
    pc, frame, \* the step each session is at, and what it has read
    edits      \* how many requests were begun

vars == <<at, used, answered, pc, frame, edits>>

Places == [main: Mains \cup {Nowhere}, section: Sections \cup {Nowhere},
           sub: Subs \cup {Nowhere}, rank: Nat]
Root == [main |-> Nowhere, section |-> Nowhere, sub |-> Nowhere, rank |-> 0]
Counted(place) == place.rank >= 1
Steps == {"insert", "delete", "move", "promote", "demote", "promoteSub", "demoteSection"}

\* item: the row the request is about, of which old is the place it was read
\* at; to: the place it, or the row made of it, shall have.
Frames == [item: Ids \cup {Nowhere}, old: Places, to: Places]
EmptyFrame == [item |-> Nowhere, old |-> Root, to |-> Root]

Rows(t) == DOMAIN t
Live == Rows(at)
Levels == {Mains, Sections, Subs, Questions}
Level(i) == CHOOSE level \in Levels : i \in level
Unused(level) == level \ used

-----------------------------------------------------------------------------
(* The tree *)

\* A question hangs off its sub-section when it is of the third level, and off
\* its section otherwise.
Parent(level, place) ==
    CASE level = Mains     -> Nowhere
      [] level = Sections  -> place.main
      [] level = Subs      -> place.section
      [] level = Questions -> IF place.sub # Nowhere THEN place.sub ELSE place.section

ParentLevel(level) ==
    CASE level = Mains -> {} [] level = Sections -> Mains [] level = Subs -> Sections
      [] level = Questions -> Sections \cup Subs

Scope(t, level, p) == {x \in Rows(t) \cap level : Parent(level, t[x]) = p}

\* The place of a child of p, read off p's row.
Below(t, p) ==
    [main    |-> IF p \in Mains THEN p ELSE t[p].main,
     section |-> CASE p \in Sections -> p [] p \in Subs -> t[p].section [] OTHER -> Nowhere,
     sub     |-> IF p \in Subs THEN p ELSE Nowhere,
     rank    |-> 0]

\* new_rank, or else the last rank of the scope and one.
Ranked(t, level, place, wanted) ==
    LET ranks == {t[x].rank : x \in Scope(t, level, Parent(level, place))}
    IN  [place EXCEPT !.rank = IF wanted # 0 THEN wanted ELSE Max({0} \cup ranks) + 1]

\* Foreign keys; then the unique indexes on short codes and question ranks.
Related(t) == \A x \in Rows(t) :
    {t[x].main, t[x].section, t[x].sub} \subseteq Rows(t) \cup {Nowhere}
Path(t, s) == <<t[t[s].main].rank, t[s].rank>>
Distinct(t) ==
    /\ \A x, y \in Rows(t) \cap Sections : Path(t, x) = Path(t, y) => x = y
    /\ \A level \in {Subs, Questions} : \A x, y \in Rows(t) \cap level :
          Parent(level, t[x]) = Parent(level, t[y]) /\ t[x].rank = t[y].rank => x = y
Legal(t) == Related(t) /\ Distinct(t)

\* A place of row x in t: its ancestors are there, and those its parent names.
Hangs(t, x, place) ==
    /\ x \in Mains => place.main = Nowhere
    /\ x \in Sections => place.main \in Rows(t)
    /\ x \in Mains \cup Sections => place.section = Nowhere
    /\ x \in Subs \cup Questions =>
          place.section \in Rows(t) /\ place.main = t[place.section].main
    /\ place.sub # Nowhere =>
          x \in Questions /\ place.sub \in Rows(t) /\ t[place.sub].section = place.section
Agree(t) == \A x \in Rows(t) : Hangs(t, x, t[x])

\* Ranks count from 1, and every row but a main section names its main section.
ASSUME TreeIsLegal ==
    /\ Rows(Tree) \subseteq Ids /\ Tree \in [Rows(Tree) -> Places]
    /\ \A x \in Rows(Tree) : Counted(Tree[x])
    /\ \A x \in Rows(Tree) : x \in Mains \/ Tree[x].main \in Mains
    /\ Legal(Tree) /\ Agree(Tree)

-----------------------------------------------------------------------------
(* Statements *)

Reranked(t, scope, by(_)) == [x \in Rows(t) |->
    IF x \in scope THEN [t[x] EXCEPT !.rank = by(@)] ELSE t[x]]

\* Makes room at rank r, closes the gap at rank r, slides the rows between an
\* item's old rank and its new one.
OpenedAbove(t, scope, r) ==   \* a variant: the row at r stays there
    LET by(k) == IF k > r THEN k + 1 ELSE k IN Reranked(t, scope, by)
Opened(t, scope, r) == LET by(k) == IF k >= r THEN k + 1 ELSE k IN Reranked(t, scope, by)
ClosedOnto(t, scope, r) ==   \* a variant: a row that shared the rank moves too
    LET by(k) == IF k >= r THEN k - 1 ELSE k IN Reranked(t, scope, by)
Closed(t, scope, r) == LET by(k) == IF k > r THEN k - 1 ELSE k IN Reranked(t, scope, by)
SlideRankSwap(k, old, new) ==   \* a variant: the item trades places with one row
    IF k = new THEN old ELSE k
SlideRank(k, old, new) ==
    IF old < new /\ k > old /\ k <= new THEN k - 1
    ELSE IF old > new /\ k >= new /\ k < old THEN k + 1 ELSE k
Slid(t, scope, old, new) == LET by(k) == SlideRank(k, old, new) IN Reranked(t, scope, by)

Put(t, i, place) == [x \in Rows(t) \cup {i} |-> IF x = i THEN place ELSE t[x]]

\* UPDATE ... SET main (and section) of the rows in moved.
Rehung(t, moved, main, section) == [x \in Rows(t) |->
    IF x \notin moved THEN t[x]
    ELSE [t[x] EXCEPT !.main = main, !.section = IF section = Nowhere THEN @ ELSE section]]

InMain(t, m) == {x \in Rows(t) : t[x].main = m}
InSection(t, s) == {x \in Rows(t) : t[x].section = s}
InSub(t, b) == {x \in Rows(t) : t[x].sub = b}
Inside(t, i) == InMain(t, i) \cup InSection(t, i) \cup InSub(t, i)

\* DELETE of a row, and what ON DELETE CASCADE takes with it; a question whose
\* sub-section alone goes stays (ON DELETE SET NULL).
Cascade(t, i) ==
    LET direct == {i} \cup InMain(t, i) \cup InSection(t, i)
    IN  direct \cup UNION {InSection(t, s) : s \in direct \cap Sections}
Without(t, gone) == [x \in Rows(t) \ gone |->
    IF t[x].sub \in gone THEN [t[x] EXCEPT !.sub = Nowhere] ELSE t[x]]

\* Closes the gap that row i leaves in its old place, and deletes it.
Replaced(t, level, i, old) ==
    LET closed == Closed(t, Scope(t, level, Parent(level, old)) \ {i}, old.rank)
    IN  Without(closed, Cascade(closed, i))

-----------------------------------------------------------------------------
(* Requests *)

At(e, l) == pc[e] = l
Item(e) == frame[e].item
Old(e) == frame[e].old
To(e) == frame[e].to

Ready(e) == At(e, "idle") /\ edits < MaxEdits
Begin(e, l, item, old, to) ==
    /\ l # "delete" => to.rank \in 1 .. MaxRank
    /\ edits' = edits + 1
    /\ pc' = [pc EXCEPT ![e] = l]
    /\ frame' = [frame EXCEPT ![e] = [item |-> item, old |-> old, to |-> to]]
    /\ UNCHANGED <<at, used, answered>>

Finish(e, t) ==
    /\ at' = t
    /\ used' = used \cup Rows(t)
    /\ pc' = [pc EXCEPT ![e] = "idle"]
    /\ frame' = [frame EXCEPT ![e] = EmptyFrame]
    /\ UNCHANGED <<answered, edits>>

\* COMMIT, or the ROLLBACK of a transaction whose result t the schema refuses:
\* a question with answers cannot be deleted.
CommitUnrestricted(e, t) ==   \* a variant: the answers do not hold their question
    Finish(e, IF Legal(t) THEN t ELSE at)
Commit(e, t) == Finish(e, IF Legal(t) /\ answered \subseteq Rows(t) THEN t ELSE at)

\* An applicant's first answer to a question.
AnswerQuestion(q) ==
    /\ q \in Live \cap Questions
    /\ Cardinality(answered) < MaxAnswers
    /\ answered' = answered \cup {q}
    /\ UNCHANGED <<at, used, pc, frame, edits>>

(* createMainSections, createSubsections, addQuestions *)
StartCreate(e) == Ready(e) /\ \E level \in Levels, wanted \in 0 .. MaxRank :
    \E i \in Unused(level) : \E place \in {Below(at, p) : p \in ParentLevel(level) \cap Live}
                 \cup (IF level = Mains THEN {Root} ELSE {}) :
        Begin(e, "insert", i, Root, Ranked(at, level, place, wanted))

Insert(e) ==
    /\ At(e, "insert")
    /\ \E i \in Unused(Level(Item(e))) : Commit(e, Put(at, i, To(e)))

(* deleteMainSection, deleteSection, deleteSubSection, deleteQuestion: the
   answers are counted before the transaction. *)
StartDelete(e) == Ready(e) /\ \E i \in Live :
    /\ answered \cap ({i} \cup Inside(at, i)) = {}
    /\ Begin(e, "delete", i, at[i], Root)

Delete(e) ==
    /\ At(e, "delete")
    /\ Commit(e, Without(at, Cascade(at, Item(e)) \cup Inside(at, Item(e))))

(* reorderMainSection, reorderSection, reorderSubSection, reorderQuestion *)
StartMove(e) == Ready(e) /\ \E i \in Live, wanted \in 0 .. MaxRank :
    \E place \in {at[i]} \cup {Below(at, p) : p \in ParentLevel(Level(i)) \cap Live} :
        Begin(e, "move", i, at[i], Ranked(at, Level(i), place, wanted))

Shifted(t, i, old, to) ==
    LET level == Level(i)
        From == Scope(t, level, Parent(level, old)) \ {i}
        Into == Scope(t, level, Parent(level, to)) \ {i}
    IN  IF Parent(level, old) = Parent(level, to) THEN Slid(t, From, old.rank, to.rank)
        ELSE Opened(Closed(t, From, old.rank), Into, to.rank)

Moved(t, i, old, to) ==
    LET placed == Put(Shifted(t, i, old, to), i, to)
    IN  CASE i \in Sections /\ old.main # to.main ->
               Rehung(placed, InSection(placed, i), to.main, Nowhere)
          [] i \in Subs /\ old.section # to.section ->
               Rehung(placed, InSub(placed, i), to.main, to.section)
          [] OTHER -> placed

\* A row deleted since it was read is not there to be updated; the shifts are.
Move(e) ==
    /\ At(e, "move")
    /\ Commit(e, IF Item(e) \in Live THEN Moved(at, Item(e), Old(e), To(e))
                 ELSE Shifted(at, Item(e), Old(e), To(e)))

(* promoteSectionToMainSection *)
StartPromote(e) == Ready(e) /\ \E i \in Live \cap Sections, wanted \in 0 .. MaxRank :
    Begin(e, "promote", i, at[i], Ranked(at, Mains, Root, wanted))

Promote(e) ==
    /\ At(e, "promote")
    /\ \E m \in Unused(Mains) :
          LET made == Put(at, m, To(e))
              hung == Rehung(made, InSection(made, Item(e)), m, Nowhere)
          IN  Commit(e, Replaced(hung, Sections, Item(e), Old(e)))

(* demoteMainSectionToSection *)
StartDemote(e) == Ready(e) /\ \E i, p \in Live \cap Mains, wanted \in 0 .. MaxRank :
    Begin(e, "demote", i, at[i], Ranked(at, Sections, Below(at, p), wanted))

Demote(e) ==
    /\ At(e, "demote")
    /\ \E s \in Unused(Sections) :
          LET made == Put(at, s, To(e))
              hung == Rehung(made, InMain(made, Item(e)), To(e).main, Nowhere)
          IN  Commit(e, Replaced(hung, Mains, Item(e), Old(e)))

(* promoteSubSectionToSection *)
StartPromoteSub(e) == Ready(e) /\ \E i \in Live \cap Subs, p \in Live \cap Mains :
    \E wanted \in 0 .. MaxRank :
        Begin(e, "promoteSub", i, at[i], Ranked(at, Sections, Below(at, p), wanted))

PromoteSubInPlace(e) ==   \* a variant: the questions keep their old main section
    /\ At(e, "promoteSub")
    /\ \E s \in Unused(Sections) :
          LET made == Put(at, s, To(e))
              lifted == [x \in Rows(made) |-> IF x \in InSub(made, Item(e))
                           THEN [made[x] EXCEPT !.section = s, !.sub = Nowhere] ELSE made[x]]
          IN  Commit(e, Replaced(lifted, Subs, Item(e), Old(e)))

PromoteSub(e) ==
    /\ At(e, "promoteSub")
    /\ \E s \in Unused(Sections) :
          LET made == Put(at, s, To(e))
              lifted == [x \in Rows(made) |-> IF x \in InSub(made, Item(e))
                           THEN [Below(made, s) EXCEPT !.rank = made[x].rank] ELSE made[x]]
          IN  Commit(e, Replaced(lifted, Subs, Item(e), Old(e)))

(* demoteSectionToSubSection *)
StartDemoteSection(e) == Ready(e) /\ \E i, p \in Live \cap Sections, wanted \in 0 .. MaxRank :
    Begin(e, "demoteSection", i, at[i], Ranked(at, Subs, Below(at, p), wanted))

\* The questions get the new sub-section and keep their section, which goes.
DemoteSection(e) ==
    /\ At(e, "demoteSection")
    /\ \E b \in Unused(Subs) :
          LET made == Put(at, b, To(e))
              Direct == {x \in InSection(made, Item(e)) \cap Questions : made[x].sub = Nowhere}
              sunk == [x \in Rows(made) |->
                         IF x \in Direct THEN [made[x] EXCEPT !.sub = b] ELSE made[x]]
              Nested == InSection(sunk, Item(e)) \cap Subs
              hung == Rehung(sunk, Nested, To(e).main, To(e).section)
          IN  Commit(e, Replaced(hung, Sections, Item(e), Old(e)))

-----------------------------------------------------------------------------
Init ==
    /\ at = Tree
    /\ used = Rows(Tree)
    /\ answered = {}
    /\ pc = [e \in Editors |-> "idle"]
    /\ frame = [e \in Editors |-> EmptyFrame]
    /\ edits = 0

Edit(e) ==
    \/ StartCreate(e) \/ Insert(e)
    \/ StartDelete(e) \/ Delete(e)
    \/ StartMove(e) \/ Move(e)
    \/ StartPromote(e) \/ Promote(e)
    \/ StartDemote(e) \/ Demote(e)
    \/ StartPromoteSub(e) \/ PromoteSub(e)
    \/ StartDemoteSection(e) \/ DemoteSection(e)

Next ==
    \/ \E e \in Editors : Edit(e)
    \/ \E q \in Questions : AnswerQuestion(q)

Spec == Init /\ [][Next]_vars

-----------------------------------------------------------------------------
(* Properties *)

\* Every row is at a place of the tree, counted from 1, and every session at a
\* step of its own.
TypeOK ==
    /\ Live \subseteq used /\ used \subseteq Ids
    /\ at \in [Live -> Places] /\ \A i \in Live : Counted(at[i])
    /\ answered \subseteq Questions
    /\ pc \in [Editors -> Steps \cup {"idle"}]
    /\ frame \in [Editors -> Frames]
    /\ edits \in 0 .. MaxEdits

\* While one administrator edits, the ancestors a row names are there, and are
\* those its parent names: the columns that the cascades of a move, a promotion
\* or a demotion copy down the tree stay true.
ParentsAgree == Agree(at)

\* A question that an applicant has answered is never deleted, whatever came
\* between the count of its answers and the transaction that deletes.
AnsweredKept == answered \subseteq Live

Moving(e) == At(e, "move") /\ pc'[e] = "idle"

\* While one administrator edits, dragging a row leaves the others in the order
\* they had: of two rows that were and stay siblings, the first stays the first.
\* (Main sections may share a rank, and then a drag can make two more of them tie.)
MovesKeepOrder == [][\A e \in Editors : Moving(e) =>
    \A level \in {Sections, Subs, Questions} :
        \A x, y \in (Live \cap level) \ {Item(e)} :
            /\ Parent(level, at[x]) = Parent(level, at[y])
            /\ at[x].rank < at[y].rank
            => at'[x].rank < at'[y].rank]_vars

\* While one administrator edits, a question dragged to any rank of any section
\* or sub-section gets there: no unique index refuses the move.
QuestionsMove == [][\A e \in Editors :
    Moving(e) /\ Item(e) \in Questions => at'[Item(e)] = To(e)]_vars

\* A question goes only when somebody deletes it or what it is in: dragging,
\* promoting and demoting keep every question.
QuestionsKept == [][\A q \in Live \cap Questions :
    q \notin DOMAIN at' => \E e \in Editors : At(e, "delete") /\ pc'[e] = "idle"]_vars
=============================================================================
