---------------------------- MODULE ListPagesProofs ---------------------------
(***************************************************************************)
(* Theorems about the lists of the web client, for any rows, sizes of a    *)
(* page and number of requests: what is selected is listed, and the list   *)
(* is in the end the one that the controls ask for.                        *)
(***************************************************************************)
EXTENDS ListPages, FiniteSetTheorems, WellFoundedInduction, TLAPS

Step == ListNext \/ UNCHANGED listVars

Doings == {"list", "block", "permission", "preview", "toggle", "delete", "force", "unlink"}
CallRecord == [n : Nat, do : Doings, ids : SUBSET Rows, q : Queries, had : SUBSET Rows,
               got : SUBSET Rows, all : Int, at : {"server", "client"}]

Typed == ListTypeOK /\ calls \subseteq CallRecord /\ clicks \in Nat /\ newest \in Nat

-----------------------------------------------------------------------------
(* The table of lists.                                                     *)

\* What a row or a batch may be subjected to, and what is particular of a list that takes
\* a deleted row away instead of loading itself anew.
LEMMA EveryList ==
    \A l \in DOMAIN ListOf :
        /\ l # "none"
        /\ ListOf[l].acts \subseteq (Doings \cup {"edit", "open"}) \ {"list"}
        /\ ListOf[l].batch \subseteq Doings \ {"list"}
        /\ ListOf[l].then \in {"reload", "remove"} /\ ListOf[l].locks \in BOOLEAN
        /\ ListOf[l].defers => ListOf[l].then = "reload"
        /\ ListOf[l].then = "remove" =>
             ListOf[l].batch = {} /\ ~ListOf[l].tools /\ ListOf[l].acts = MyShareCard
<1>1. /\ List.acts = {} /\ List.batch = {} /\ List.then = "reload"
      /\ SelectList.acts = {} /\ SelectList.batch = {"delete"} /\ SelectList.then = "reload"
  BY DEF List, SelectList
<1>2. /\ UserList.acts = UserRow /\ UserList.batch = {"delete"} /\ UserList.then = "reload"
      /\ FileList.acts = FileRow /\ FileList.batch = FileBatch /\ FileList.then = "reload"
  BY DEF List, SelectList, UserList, FileList
<1>3. /\ ShareList.acts = ShareRow /\ ShareList.batch = {"delete"} /\ ShareList.then = "reload"
      /\ DownloadList.acts = DownloadRow /\ DownloadList.batch = {"delete"}
      /\ DownloadList.then = "reload"
  BY DEF List, SelectList, ShareList, DownloadList
<1>4. /\ TaskList.acts = TaskRow /\ TaskList.batch = {"delete"} /\ TaskList.then = "reload"
      /\ GroupList.acts = GroupRow /\ GroupList.batch = {} /\ GroupList.then = "reload"
  BY DEF List, SelectList, TaskList, GroupList
<1>5. /\ PolicyList.acts = PolicyRow /\ PolicyList.batch = {} /\ PolicyList.then = "reload"
      /\ NodeList.acts = NodeRow /\ NodeList.batch = {} /\ NodeList.then = "reload"
  BY DEF List, PolicyList, NodeList
<1>6. /\ MyShareList.acts = MyShareCard /\ MyShareList.batch = {}
      /\ MyShareList.then = "remove" /\ ~MyShareList.tools
  BY DEF List, MyShareList
<1>7. /\ SearchList.acts = SearchCard /\ SearchList.batch = {} /\ SearchList.then = "reload"
      /\ TasksList.acts = {} /\ TasksList.batch = {} /\ TasksList.then = "reload"
  BY DEF List, SearchList, TasksList
<1>8. /\ DOMAIN ListOf = {"user", "file", "share", "download", "task", "group", "policy",
                          "node", "myshare", "search", "tasks"}
      /\ ListOf["user"] = UserList /\ ListOf["file"] = FileList /\ ListOf["share"] = ShareList
      /\ ListOf["download"] = DownloadList /\ ListOf["task"] = TaskList
      /\ ListOf["group"] = GroupList /\ ListOf["policy"] = PolicyList
      /\ ListOf["node"] = NodeList /\ ListOf["myshare"] = MyShareList
      /\ ListOf["search"] = SearchList /\ ListOf["tasks"] = TasksList
  BY DEF ListOf
<1>9. /\ UserList.locks \in BOOLEAN /\ FileList.locks \in BOOLEAN /\ ShareList.locks \in BOOLEAN
      /\ DownloadList.locks \in BOOLEAN /\ TaskList.locks \in BOOLEAN
      /\ NodeList.locks \in BOOLEAN /\ GroupList.locks \in BOOLEAN
      /\ PolicyList.locks \in BOOLEAN /\ MyShareList.locks \in BOOLEAN
      /\ SearchList.locks \in BOOLEAN /\ TasksList.locks \in BOOLEAN
  BY DEF List, SelectList, UserList, FileList, ShareList, DownloadList, TaskList, NodeList,
         GroupList, PolicyList, MyShareList, SearchList, TasksList
<1>10. /\ UserRow \cup FileRow \cup ShareRow \cup DownloadRow \cup TaskRow \cup GroupRow
           \cup PolicyRow \cup NodeRow \cup MyShareCard \cup SearchCard
            \subseteq (Doings \cup {"edit", "open"}) \ {"list"}
      /\ FileBatch \cup {"delete"} \subseteq Doings \ {"list"}
  BY DEF UserRow, FileRow, ShareRow, DownloadRow, TaskRow, GroupRow, PolicyRow, NodeRow,
         MyShareCard, SearchCard, FileBatch, Doings
<1>11. \A l \in DOMAIN ListOf : ListOf[l].locks \in BOOLEAN
  BY <1>8, <1>9
<1>12. ~MyShareList.defers
  BY DEF List, MyShareList
<1>13. \A l \in DOMAIN ListOf : ListOf[l].defers => ListOf[l].then = "reload"
  BY <1>1, <1>2, <1>3, <1>4, <1>5, <1>6, <1>7, <1>8, <1>12
<1> QED
  BY <1>1, <1>2, <1>3, <1>4, <1>5, <1>6, <1>7, <1>8, <1>10, <1>11, <1>13

-----------------------------------------------------------------------------
(* The selection.                                                          *)

\* A list whose rows may be taken away one by one has nothing selected.
SelectedInv ==
    /\ list \in {"none"} \cup DOMAIN ListOf
    /\ list = "none" => selected = {}
    /\ list # "none" /\ L.batch = {} => selected = {}
    /\ SelectedListed

LEMMA SelectedStep == SelectedInv /\ Step => SelectedInv'
<1> SUFFICES ASSUME SelectedInv, Step
             PROVE  SelectedInv'
  OBVIOUS
<1> USE DEF SelectedInv, SelectedListed
<1>1. CASE UNCHANGED <<list, rows, selected>> /\ stray \subseteq stray'
  BY <1>1 DEF L
<1>2. ASSUME NEW l \in DOMAIN ListOf, OpenList(l)
      PROVE  SelectedInv'
  BY <1>2 DEF OpenList
<1>3. CASE Select
  BY <1>3 DEF Select, L
<1>4. ASSUME NEW c \in calls, ListAnswered(c)
      PROVE  SelectedInv'
  BY <1>4 DEF ListAnswered
<1>5. ASSUME NEW c \in calls, PatchAnswered(c)
      PROVE  SelectedInv'
  <2>1. UNCHANGED <<list, selected>> /\ (rows' = rows \/ "putback" \in stray')
    BY <1>5 DEF PatchAnswered
  <2>2. stray \subseteq stray'
    BY <1>5 DEF PatchAnswered
  <2> QED
    BY <2>1, <2>2 DEF L
<1>6. ASSUME NEW c \in calls, RemoveAnswered(c)
      PROVE  SelectedInv'
  <2>1. L.then = "remove" /\ UNCHANGED <<list, selected>>
    BY <1>6 DEF RemoveAnswered
  <2>2. selected = {}
    BY <2>1, EveryList DEF L
  <2> QED
    BY <2>1, <2>2
<1>7. CASE list # "none" /\ (Turn \/ Resize \/ Reorder \/ Refilter)
  BY <1>1, <1>7 DEF Turn, Resize, Reorder, Refilter, ChangeQuery
<1>8. CASE Refresh
  BY <1>1, <1>8 DEF Refresh
<1>9. CASE list # "none" /\ \E do \in L.acts \cup L.batch, ids \in SUBSET Rows : Act(do, ids)
  BY <1>1, <1>9 DEF Act
<1>10. CASE \E c \in calls : Serve(c) \/ ActAnswered(c) \/ CallFailed(c)
  BY <1>1, <1>10 DEF Serve, ActAnswered, CallFailed
<1>11. CASE UNCHANGED listVars \/ \E some \in SUBSET doomed : DeleteDoomed(some)
  BY <1>1, <1>11 DEF listVars, DeleteDoomed
<1> QED
  BY <1>2, <1>3, <1>4, <1>5, <1>6, <1>7, <1>8, <1>9, <1>10, <1>11 DEF Step, ListNext

\* ListSpec => []SelectedListed: a batch is about rows that are on show, whatever order
\* lists arrive in, unless an earlier list has been put back.
THEOREM Selected == ListSpec => []SelectedListed
<1>1. ListInit => SelectedInv
  BY DEF ListInit, SelectedInv, SelectedListed
<1>2. SelectedInv => SelectedListed
  BY DEF SelectedInv
<1> QED
  BY <1>1, <1>2, SelectedStep, PTL DEF ListSpec, Step

-----------------------------------------------------------------------------
(* What the server lists.                                                  *)

LEMMA ListedRows == \A q, b : Listed(q, b) \subseteq b
  BY DEF Listed, Matching

\* A row taken away from a page leaves the others of the page on it.
LEMMA RowRemoved ==
    ASSUME NEW q \in Queries, NEW b \in SUBSET Rows, NEW y \in Listed(q, b)
    PROVE  Listed(q, b) \ {y} \subseteq Listed(q, b \ {y})
<1> SUFFICES ASSUME NEW r \in Listed(q, b), r # y
             PROVE  r \in Listed(q, b \ {y})
  OBVIOUS
<1> DEFINE lo == (q.page - 1) * q.size
           hi == q.page * q.size
           m == Matching(q, b)
           A == {x \in m : Before(x, r, q)}
           B == {x \in m : Before(x, y, q)}
           A2 == {x \in Matching(q, b \ {y}) : Before(x, r, q)}
<1>1. lo \in Int /\ hi \in Int
  <2>1. q.page \in Int /\ q.size \in Int
    <3>1. q.page \in Nat /\ q.size \in Sizes
      BY DEF Queries
    <3>2. \A s \in Sizes : s \in Int
      BY ListAssumption
    <3> QED
      BY <3>1, <3>2
  <2> QED
    BY <2>1
<1>2. /\ r \in m /\ y \in m
      /\ Cardinality(A) >= lo /\ Cardinality(A) < hi /\ Cardinality(B) >= lo
  BY DEF Listed
<1>3. m \subseteq Rows /\ Matching(q, b \ {y}) = m \ {y}
  BY DEF Matching
<1>4. A2 = A \ {y}
  BY <1>3
<1>5. IsFiniteSet(A) /\ IsFiniteSet(A2) /\ IsFiniteSet(B)
  BY <1>3, <1>4, ListAssumption, FS_Subset
<1>6. Cardinality(A) \in Nat /\ Cardinality(A2) \in Nat /\ Cardinality(B) \in Nat
  BY <1>5, FS_CardinalityType
<1> HIDE DEF A, B, A2
<1>7. Cardinality(A2) >= lo /\ Cardinality(A2) < hi
  <2>1. CASE y \notin A
    BY <1>2, <1>4, <2>1
  <2>2. CASE y \in A
    <3>1. Cardinality(A2) = Cardinality(A) - 1
      BY <1>4, <1>5, <2>2, FS_RemoveElement
    <3>2. B \subseteq A2
      <4>1. ASSUME NEW x \in B
            PROVE  x \in A /\ x # y
        <5>1. x \in m /\ x \in Nat /\ y \in Nat /\ r \in Nat
          BY <1>2, <1>3, ListAssumption DEF B
        <5>2. Before(x, y, q) /\ Before(y, r, q)
          BY <2>2 DEF A, B
        <5>3. Before(x, r, q) /\ x # y
          BY <5>1, <5>2 DEF Before
        <5> QED
          BY <5>1, <5>3 DEF A
      <4> QED
        BY <1>4, <4>1
    <3>3. Cardinality(B) <= Cardinality(A2)
      BY <1>5, <3>2, FS_Subset
    <3> QED
      BY <1>1, <1>2, <1>6, <3>1, <3>3
  <2> QED
    BY <2>1, <2>2
<1>8. r \in Matching(q, b \ {y})
  BY <1>2, <1>3
<1> QED
  BY <1>7, <1>8 DEF Listed, A2

-----------------------------------------------------------------------------
(* Types.                                                                  *)

LEMMA CallTyped ==
    ASSUME Typed, clicks' \in Nat, NEW do \in Doings, NEW ids \in SUBSET Rows, NEW q \in Queries
    PROVE  /\ Call(do, ids, q) \in CallRecord
           /\ calls \cup {Call(do, ids, q)} \subseteq CallRecord
<1>1. Call(do, ids, q) \in CallRecord
  <2>1. rows \in SUBSET Rows /\ {} \in SUBSET Rows /\ 0 \in Int
    BY DEF Typed, ListTypeOK
  <2> QED
    BY <2>1 DEF Call, CallRecord
<1> QED
  BY <1>1 DEF Typed

LEMMA Clicked == Typed /\ Click => clicks' \in Nat
  BY DEF Typed, Click

LEMMA QueryTyped ==
    ASSUME NEW q \in Queries, Typed, ChangeQuery(q)
    PROVE  Typed'
<1>1. clicks' \in Nat
  BY Clicked DEF ChangeQuery
<1>2. calls' \subseteq CallRecord
  BY <1>1, CallTyped DEF ChangeQuery, Load, Doings
<1> QED
  BY <1>1, <1>2 DEF ChangeQuery, Typed, ListTypeOK

\* The controls make queries of queries.
LEMMA ControlsTyped ==
    ASSUME Typed, Turn \/ Resize \/ Reorder \/ Refilter
    PROVE  \E q \in Queries : ChangeQuery(q)
<1>1. query \in Queries
  BY DEF Typed, ListTypeOK
<1>2. CASE Turn
  <2>1. PICK n \in 1 .. Pages(query.size) : ChangeQuery([query EXCEPT !.page = n])
    BY <1>2 DEF Turn
  <2>2. n \in Nat \ {0}
    BY <2>1
  <2>3. [query EXCEPT !.page = n] \in Queries
    BY <1>1, <2>2 DEF Queries
  <2> QED
    BY <2>1, <2>3
<1>3. CASE Resize
  <2>1. PICK s \in Sizes : ChangeQuery([query EXCEPT !.size = s, !.page = 1])
    BY <1>3 DEF Resize
  <2>2. [query EXCEPT !.size = s, !.page = 1] \in Queries
    <3>1. s \in Sizes /\ 1 \in Nat \ {0}
      BY <2>1
    <3> QED
      BY <1>1, <3>1 DEF Queries
  <2> QED
    BY <2>1, <2>2
<1>4. CASE Reorder
  <2>1. PICK c \in L.columns : ChangeQuery([query EXCEPT !.id = (c = "id"), !.desc = ~@])
    BY <1>4 DEF Reorder
  <2>2. [query EXCEPT !.id = (c = "id"), !.desc = ~@] \in Queries
    BY <1>1 DEF Queries
  <2> QED
    BY <2>1, <2>2
<1>5. CASE Refilter
  <2>1. PICK f \in {"all", "odd"} : ChangeQuery([query EXCEPT !.filter = f])
    BY <1>5 DEF Refilter
  <2>2. [query EXCEPT !.filter = f] \in Queries
    BY <1>1 DEF Queries
  <2> QED
    BY <2>1, <2>2
<1> QED
  BY <1>2, <1>3, <1>4, <1>5

LEMMA MatchingCount == \A q : \A b \in SUBSET Rows : Cardinality(Matching(q, b)) \in Nat
<1> SUFFICES ASSUME NEW q, NEW b \in SUBSET Rows
             PROVE  Cardinality(Matching(q, b)) \in Nat
  OBVIOUS
<1>1. Matching(q, b) \subseteq Rows
  BY DEF Matching
<1> QED
  BY <1>1, ListAssumption, FS_Subset, FS_CardinalityType

LEMMA TypedStep == Typed /\ Step => Typed'
<1> SUFFICES ASSUME Typed, Step
             PROVE  Typed'
  OBVIOUS
<1> USE DEF Typed
<1>1. ASSUME NEW l \in DOMAIN ListOf, OpenList(l)
      PROVE  Typed'
  <2>1. query \in Queries /\ clicks' \in Nat
    BY <1>1 DEF OpenList, ListTypeOK
  <2>2. calls' \subseteq CallRecord
    BY <1>1, <2>1, CallTyped DEF OpenList, Load, Doings
  <2> QED
    BY <1>1, <2>1, <2>2 DEF OpenList, ListTypeOK
<1>2. CASE list # "none" /\ (Turn \/ Resize \/ Reorder \/ Refilter)
  BY <1>2, ControlsTyped, QueryTyped
<1>3. CASE Refresh
  <2>1. query \in Queries /\ clicks' \in Nat
    BY <1>3, Clicked DEF Refresh, ListTypeOK
  <2>2. calls' \subseteq CallRecord
    BY <1>3, <2>1, CallTyped DEF Refresh, Load, Doings
  <2> QED
    BY <1>3, <2>1, <2>2 DEF Refresh, ListTypeOK
<1>4. CASE Select
  <2>1. selected' \subseteq Rows
    BY <1>4 DEF Select, ListTypeOK
  <2> QED
    BY <1>4, <2>1 DEF Select, ListTypeOK
<1>5. ASSUME NEW do \in L.acts \cup L.batch, NEW ids \in SUBSET Rows, list # "none", Act(do, ids)
      PROVE  Typed'
  <2>1. do \in Doings /\ L.locks \in BOOLEAN
    <3>1. do \in L.acts \ {"edit", "open"} \/ do \in L.batch
      BY <1>5 DEF Act
    <3>2. list \in DOMAIN ListOf
      BY <1>5 DEF ListTypeOK
    <3> QED
      BY <3>1, <3>2, EveryList DEF L
  <2>2. query \in Queries /\ clicks' \in Nat
    BY <1>5, Clicked DEF Act, ListTypeOK
  <2>3. calls' \subseteq CallRecord
    BY <1>5, <2>1, <2>2, CallTyped DEF Act
  <2> QED
    BY <1>5, <2>1, <2>2, <2>3 DEF Act, ListTypeOK
<1>6. ASSUME NEW c \in calls, Serve(c)
      PROVE  Typed'
  <2>1. [c EXCEPT !.at = "client", !.got = Listed(c.q, base),
                  !.all = Cardinality(Matching(c.q, base))] \in CallRecord
    <3>1. Listed(c.q, base) \subseteq Rows /\ Cardinality(Matching(c.q, base)) \in Int
      BY ListedRows, MatchingCount DEF ListTypeOK
    <3> QED
      BY <3>1 DEF CallRecord
  <2>2. calls' \subseteq CallRecord
    BY <1>6, <2>1 DEF Serve
  <2>3. base' \subseteq Rows /\ doomed' \subseteq Rows
    BY <1>6 DEF Serve, ListTypeOK
  <2> QED
    BY <1>6, <2>2, <2>3 DEF Serve, ListTypeOK
<1>7. ASSUME NEW c \in calls, ListAnswered(c)
      PROVE  Typed'
  <2>1. c.got \subseteq Rows /\ c.all \in Int /\ c.n \in Nat
    BY DEF CallRecord
  <2> QED
    BY <1>7, <2>1 DEF ListAnswered, ListTypeOK
<1>8. ASSUME NEW c \in calls, ActAnswered(c)
      PROVE  Typed'
  <2>1. c.q \in Queries /\ clicks' \in Nat
    BY <1>8 DEF ActAnswered, CallRecord
  <2>2. calls' \subseteq CallRecord
    BY <1>8, <2>1, CallTyped DEF ActAnswered, Load, Doings
  <2> QED
    BY <1>8, <2>1, <2>2 DEF ActAnswered, ListTypeOK
<1>9. ASSUME NEW c \in calls, PatchAnswered(c)
      PROVE  Typed'
  <2>1. c.had \subseteq Rows
    BY DEF CallRecord
  <2> QED
    BY <1>9, <2>1 DEF PatchAnswered, ListTypeOK
<1>10. ASSUME NEW c \in calls, RemoveAnswered(c)
       PROVE  Typed'
  <2>1. [query EXCEPT !.page = 1] \in Queries /\ clicks' \in Nat
    <3>1. query \in Queries /\ clicks' = clicks + 1
      BY <1>10 DEF RemoveAnswered, ListTypeOK
    <3> QED
      BY <3>1 DEF Queries
  <2>2. calls' \subseteq CallRecord
    BY <1>10, <2>1, CallTyped DEF RemoveAnswered, Load, Doings
  <2>3. rows' \subseteq Rows /\ total' \in Int
    BY <1>10 DEF RemoveAnswered, ListTypeOK
  <2> QED
    BY <1>10, <2>1, <2>2, <2>3 DEF RemoveAnswered, ListTypeOK
<1>11. ASSUME NEW c \in calls, CallFailed(c)
       PROVE  Typed'
  BY <1>11 DEF CallFailed, ListTypeOK
<1>12. CASE UNCHANGED listVars
  BY <1>12 DEF listVars, ListTypeOK
<1>13. ASSUME NEW some \in SUBSET doomed, DeleteDoomed(some)
       PROVE  Typed'
  BY <1>13 DEF DeleteDoomed, ListTypeOK
<1> QED
  BY <1>1, <1>2, <1>3, <1>4, <1>5, <1>6, <1>7, <1>8, <1>9, <1>10, <1>11, <1>12, <1>13
     DEF Step, ListNext

-----------------------------------------------------------------------------
(* The list.                                                               *)

\* Calls have numbers of their own, given in order.
Numbered ==
    /\ \A c \in calls : c.n <= clicks
    /\ \A c, d \in calls : c.n = d.n => c = d
    /\ newest <= clicks

\* Calls whose answer has the list loaded anew.
Reloads(c) == c.do \notin {"list", "block", "permission", "preview"}
Reloading == \E c \in calls : Reloads(c)

\* The latest list asked for is the one of the query, and under way.
LatestComing ==
    \E c \in calls :
        /\ c.do = "list" /\ c.q = query /\ (c.at = "client" => c.got = Listed(query, base))
        /\ c.n > newest /\ \A d \in calls : d.do = "list" => d.n <= c.n
OthersOld == \A d \in calls : d.do = "list" => d.n < newest

\* A list that is loaded anew after a change.
ReloadInv ==
    /\ \A c \in calls : Reloads(c) => c.q = query
    /\ Reloading \/ LatestComing \/ (rows = Listed(query, base) /\ OthersOld)

\* A list that takes a deleted row away: deletions are the only call there is.
Left(c) == IF c.at = "client" THEN rows \ c.ids ELSE rows
Removal(c) ==
    /\ calls = {c} /\ Left(c) \subseteq Listed(query, base)
    /\ c.at = "server" => \E r \in rows : c.ids = {r}
RemoveInv ==
    /\ \A c \in calls : Reloads(c) => Removal(c)
    /\ Reloading \/ LatestComing \/ (rows \subseteq Listed(query, base) /\ OthersOld)

Quiet == IF L.then = "reload" THEN ReloadInv ELSE RemoveInv
ListInv ==
    /\ Typed /\ Numbered
    /\ list = "none" => calls = {} /\ clicks = 0 /\ newest = 0 /\ doomed = {}
    /\ doomed # {} => L.defers
    /\ list # "none" /\ stray = {} => Quiet

\* What has just been asked for is the latest, and the only one of its number.
LEMMA Asked ==
    ASSUME Typed, Numbered, NEW old \in SUBSET calls, NEW do, NEW ids, NEW q, clicks' = clicks + 1,
           calls' = old \cup {Call(do, ids, q)}, newest' = newest
    PROVE  /\ Numbered'
           /\ do = "list" /\ q = query' => LatestComing'
<1> DEFINE new == Call(do, ids, q)
<1>1. clicks \in Nat /\ clicks' = clicks + 1 /\ newest \in Nat
  BY DEF Typed
<1>2. new.n = clicks + 1 /\ new.do = do /\ new.q = q /\ new.at = "server"
  BY DEF Call
<1>3. calls' = old \cup {new}
  OBVIOUS
<1>4. \A d \in old : d.n \in Nat /\ d.n <= clicks
  BY DEF Typed, CallRecord, Numbered
<1> HIDE DEF new
<1>5. Numbered'
  BY <1>1, <1>2, <1>3, <1>4 DEF Numbered
<1>6. \A d \in calls' : d.n <= new.n
  BY <1>1, <1>2, <1>3, <1>4
<1>7. new.n > newest
  BY <1>1, <1>2 DEF Numbered
<1> QED
  BY <1>2, <1>3, <1>5, <1>6, <1>7 DEF LatestComing

LEMMA QueryList ==
    ASSUME ListInv, Typed', list # "none", NEW q \in Queries, ChangeQuery(q)
    PROVE  ListInv'
<1>1. /\ clicks' = clicks + 1 /\ query' = q /\ calls' = calls \cup {Load(q)}
      /\ UNCHANGED <<list, rows, base, doomed, newest>>
  BY DEF ChangeQuery, Click
<1>2. Numbered' /\ LatestComing'
  BY <1>1, Asked DEF ListInv, Load
<1>3. stray' = {} => \A c \in calls' : ~Reloads(c)
  <2>1. stray' = {} => \A c \in calls : c.do = "list"
    BY DEF ChangeQuery
  <2>2. Load(q).do = "list"
    BY DEF Load, Call
  <2> QED
    BY <1>1, <2>1, <2>2 DEF Reloads
<1> QED
  BY <1>1, <1>2, <1>3 DEF ListInv, Quiet, ReloadInv, RemoveInv, L

LEMMA RefreshedList ==
    ASSUME ListInv, Typed', Refresh
    PROVE  ListInv'
<1>1. /\ clicks' = clicks + 1 /\ calls' = calls \cup {Load(query)} /\ list # "none" /\ L.tools
      /\ UNCHANGED <<list, query, rows, base, doomed, newest, stray>>
  BY DEF Refresh, Click
<1>2. Numbered' /\ LatestComing'
  BY <1>1, Asked DEF ListInv, Load
<1>3. L.then = "reload"
  BY <1>1, EveryList DEF ListInv, Typed, ListTypeOK, L
<1>4. Load(query).q = query
  BY DEF Load, Call
<1>5. stray = {} => \A c \in calls' : Reloads(c) => c.q = query
  BY <1>1, <1>3, <1>4 DEF ListInv, Quiet, ReloadInv
<1> QED
  BY <1>1, <1>2, <1>3, <1>5 DEF ListInv, Quiet, ReloadInv, L

LEMMA OpenedList ==
    ASSUME ListInv, Typed', NEW l \in DOMAIN ListOf, OpenList(l)
    PROVE  ListInv'
<1>1. /\ list = "none" /\ calls = {} /\ clicks = 0 /\ newest = 0 /\ doomed = {}
      /\ clicks' = 1 /\ calls' = {Load(query)} /\ list' = l
      /\ UNCHANGED <<query, rows, base, doomed, newest, stray>>
  BY DEF ListInv, OpenList
<1>2. clicks' = clicks + 1 /\ calls' = {} \cup {Load(query)}
  BY <1>1
<1>3. Numbered' /\ LatestComing'
  BY <1>1, <1>2, Asked DEF ListInv, Load
<1>4. Load(query).do = "list"
  BY DEF Load, Call
<1>5. \A c \in calls' : ~Reloads(c)
  BY <1>1, <1>4 DEF Reloads
<1>6. list' # "none"
  BY <1>1, EveryList
<1> QED
  BY <1>1, <1>3, <1>5, <1>6 DEF ListInv, Quiet, ReloadInv, RemoveInv

LEMMA ActList ==
    ASSUME ListInv, Typed', list # "none", NEW do \in L.acts \cup L.batch, NEW ids \in SUBSET Rows,
           Act(do, ids)
    PROVE  ListInv'
<1> PICK new : new = Call(do, ids, query)
  OBVIOUS
<1>1. /\ clicks' = clicks + 1 /\ calls' = calls \cup {new}
      /\ UNCHANGED <<list, query, rows, base, doomed, newest>>
  BY DEF Act, Click
<1>2. Numbered'
  BY <1>1, Asked DEF ListInv
<1>3. new.do = do /\ new.q = query /\ new.ids = ids /\ new.at = "server"
  BY DEF Call
<1>4. list \in DOMAIN ListOf
  BY DEF ListInv, Typed, ListTypeOK
<1>5. do # "list"
  BY <1>4, EveryList DEF L
<1>6. stray' = {} => stray = {} /\ (L.then = "remove" => calls = {})
  BY DEF Act
<1>7. Reloading => Reloading'
  BY <1>1 DEF Reloading, Reloads
<1>8. LatestComing => LatestComing'
  BY <1>1, <1>3, <1>5 DEF LatestComing
<1>9. OthersOld => OthersOld'
  BY <1>1, <1>3, <1>5 DEF OthersOld
<1>10. ASSUME stray' = {}, L.then = "reload"
       PROVE  Quiet'
  <2>1. ReloadInv
    BY <1>6, <1>10 DEF ListInv, Quiet
  <2>2. ReloadInv'
    BY <1>1, <1>3, <1>7, <1>8, <1>9, <2>1 DEF ReloadInv, Reloads
  <2> QED
    BY <1>1, <1>10, <2>2 DEF Quiet, L
<1>11. ASSUME stray' = {}, L.then # "reload"
       PROVE  Quiet'
  <2>1. L.then = "remove" /\ L.batch = {}
    BY <1>4, <1>11, EveryList DEF L
  <2>2. calls = {} /\ RemoveInv
    BY <1>6, <1>11, <2>1 DEF ListInv, Quiet
  <2>3. rows \subseteq Listed(query, base)
    BY <2>2 DEF RemoveInv, Reloading, LatestComing
  <2>4. \E x \in rows : ids = {x}
    BY <2>1 DEF Act
  <2>5. calls' = {new}
    BY <1>1, <2>2
  <2>6. Removal(new)'
    <3>1. new.at # "client" /\ rows' = rows /\ Listed(query, base)' = Listed(query, base)
      BY <1>1, <1>3
    <3>2. Left(new)' = rows
      BY <3>1 DEF Left
    <3>3. \E x \in rows' : new.ids = {x}
      BY <1>3, <2>4, <3>1
    <3> QED
      BY <2>3, <2>5, <3>1, <3>2, <3>3 DEF Removal
  <2>7. OthersOld'
    BY <1>3, <1>5, <2>5 DEF OthersOld
  <2>8. RemoveInv'
    BY <1>1, <2>3, <2>5, <2>6, <2>7 DEF RemoveInv
  <2> QED
    BY <1>1, <1>11, <2>8 DEF Quiet, L
<1> QED
  BY <1>1, <1>2, <1>10, <1>11 DEF ListInv, L

LEMMA ServedList ==
    ASSUME ListInv, Typed', NEW c \in calls, Serve(c)
    PROVE  ListInv'
<1> PICK new : new = [c EXCEPT !.at = "client", !.got = Listed(c.q, base),
                               !.all = Cardinality(Matching(c.q, base))]
  OBVIOUS
<1>1. c \in CallRecord /\ Typed /\ Numbered
  BY DEF ListInv, Typed
<1>2. /\ new.n = c.n /\ new.do = c.do /\ new.q = c.q /\ new.ids = c.ids
      /\ new.at = "client" /\ new.got = Listed(c.q, base)
  BY <1>1 DEF CallRecord
<1>3. /\ calls' = (calls \ {c}) \cup {new} /\ c.at = "server"
      /\ UNCHANGED <<list, query, rows, clicks, newest, stray>>
  BY DEF Serve
<1>4. base' = base \/ (base' = base \ c.ids /\ Reloads(c))
  BY DEF Serve, Reloads, Deletions
<1>9. doomed' # {} => L.defers'
  BY <1>3 DEF Serve, ListInv, L
<1>5. Numbered'
  <2>1. \A d \in calls : d.n \in Nat /\ d.n <= clicks
    BY <1>1 DEF Typed, CallRecord, Numbered
  <2>2. \A d \in calls' : d.n <= clicks'
    BY <1>2, <1>3, <2>1
  <2>3. ASSUME NEW d \in calls', NEW e \in calls', d.n = e.n
        PROVE  d = e
    <3>1. \A x, y \in calls : x.n = y.n => x = y
      BY <1>1 DEF Numbered
    <3>2. d \in calls \ {c} \/ d = new
      BY <1>3
    <3>3. e \in calls \ {c} \/ e = new
      BY <1>3
    <3>4. c \in calls
      OBVIOUS
    <3> QED
      BY <1>2, <2>3, <3>1, <3>2, <3>3, <3>4
  <2> QED
    BY <1>1, <1>3, <2>2, <2>3 DEF Numbered
<1>6. list # "none"
  BY DEF ListInv
<1>7. CASE Reloads(c)
  <2>1. Reloading'
    BY <1>2, <1>3, <1>7 DEF Reloading, Reloads
  <2>2. ReloadInv => ReloadInv'
    BY <1>2, <1>3, <2>1 DEF ReloadInv, Reloads
  <2>3. ASSUME RemoveInv
        PROVE  RemoveInv'
    <3>1. Removal(c)
      BY <1>7, <2>3 DEF RemoveInv
    <3>2. calls' = {new} /\ rows \subseteq Listed(query, base)
      BY <1>3, <3>1 DEF Removal, Left
    <3>3. PICK x \in rows : c.ids = {x}
      BY <1>3, <3>1 DEF Removal
    <3>4. query \in Queries /\ base \in SUBSET Rows /\ x \in Listed(query, base)
      BY <1>1, <3>2 DEF Typed, ListTypeOK
    <3>5. Listed(query, base) \ {x} \subseteq Listed(query, base \ {x})
      BY <3>4, RowRemoved
    <3>6. rows \ c.ids \subseteq Listed(query, base')
      BY <1>4, <3>2, <3>3, <3>5
    <3>7. Removal(new)'
      BY <1>2, <1>3, <3>2, <3>6 DEF Removal, Left
    <3> QED
      BY <2>1, <3>2, <3>7 DEF RemoveInv
  <2> QED
    BY <1>3, <1>5, <1>6, <1>9, <2>2, <2>3 DEF ListInv, Quiet, L
<1>8. CASE ~Reloads(c)
  <2>1. base' = base /\ ~Reloads(new)
    BY <1>2, <1>4, <1>8 DEF Reloads
  <2>2. Reloading => Reloading'
    BY <1>3, <1>8 DEF Reloading, Reloads
  <2>3. ASSUME LatestComing
        PROVE  LatestComing'
    <3>1. PICK x \in calls :
             /\ x.do = "list" /\ x.q = query
             /\ (x.at = "client" => x.got = Listed(query, base))
             /\ x.n > newest /\ \A d \in calls : d.do = "list" => d.n <= x.n
      BY <2>3 DEF LatestComing
    <3>2. \A d \in calls' : d.do = "list" => d.n <= x.n
      BY <1>2, <1>3, <3>1
    <3>3. CASE x = c
      <4>1. /\ new \in calls' /\ new.do = "list" /\ new.q = query
            /\ new.got = Listed(query, base) /\ new.n > newest
            /\ \A d \in calls' : d.do = "list" => d.n <= new.n
        BY <1>2, <1>3, <3>1, <3>2, <3>3
      <4> QED
        BY <1>3, <2>1, <4>1 DEF LatestComing
    <3>4. CASE x # c
      BY <1>3, <2>1, <3>1, <3>2, <3>4 DEF LatestComing
    <3> QED
      BY <3>3, <3>4
  <2>4. OthersOld => OthersOld'
    BY <1>2, <1>3 DEF OthersOld
  <2>5. ReloadInv => ReloadInv'
    BY <1>3, <2>1, <2>2, <2>3, <2>4 DEF ReloadInv, Reloads
  <2>6. ASSUME RemoveInv
        PROVE  RemoveInv'
    <3>1. \A d \in calls : ~Reloads(d)
      BY <1>8, <2>6 DEF RemoveInv, Removal
    <3>2. \A d \in calls' : ~Reloads(d)
      BY <1>3, <2>1, <3>1
    <3>3. LatestComing' \/ (rows \subseteq Listed(query, base) /\ OthersOld)'
      BY <1>3, <2>1, <2>3, <2>4, <2>6, <3>1 DEF RemoveInv, Reloading
    <3> QED
      BY <3>2, <3>3 DEF RemoveInv, Reloads
  <2> QED
    BY <1>3, <1>5, <1>6, <1>9, <2>5, <2>6 DEF ListInv, Quiet, L
<1> QED
  BY <1>7, <1>8

LEMMA AnsweredList ==
    ASSUME ListInv, Typed', NEW c \in calls, ListAnswered(c)
    PROVE  ListInv'
<1>1. Typed /\ Numbered /\ list # "none" /\ \A d \in calls : d.n \in Nat
  BY DEF ListInv, Typed, CallRecord
<1>2. /\ calls' = calls \ {c} /\ rows' = c.got /\ newest' = c.n
      /\ c.at = "client" /\ c.do = "list" /\ ~Reloads(c)
      /\ UNCHANGED <<list, query, base, doomed, clicks>>
  BY DEF ListAnswered, Reloads
<1>3. Numbered'
  BY <1>1, <1>2 DEF Numbered
<1>4. stray' = {} => stray = {} /\ ~(c.n < newest)
  BY DEF ListAnswered
<1>5. Reloading => Reloading'
  BY <1>2 DEF Reloading, Reloads
<1>6. OthersOld => c.n < newest
  BY <1>2 DEF OthersOld
<1>7. ASSUME LatestComing
      PROVE  LatestComing' \/ (rows = Listed(query, base) /\ OthersOld)'
  <2>1. PICK x \in calls :
           /\ x.do = "list" /\ x.q = query
           /\ (x.at = "client" => x.got = Listed(query, base))
           /\ x.n > newest /\ \A d \in calls : d.do = "list" => d.n <= x.n
    BY <1>7 DEF LatestComing
  <2>2. \A d \in calls : d.do = "list" /\ d # x => d.n < x.n
    BY <1>1, <2>1 DEF Numbered
  <2>3. CASE x = c
    BY <1>2, <2>1, <2>2, <2>3 DEF OthersOld
  <2>4. CASE x # c
    <3>1. /\ x \in calls' /\ c.n < x.n /\ x.n > newest'
          /\ \A d \in calls' : d.do = "list" => d.n <= x.n
      BY <1>1, <1>2, <2>1, <2>2, <2>4
    <3> QED
      BY <1>2, <2>1, <3>1 DEF LatestComing
  <2> QED
    BY <2>3, <2>4
<1>8. ASSUME stray' = {}, ReloadInv
      PROVE  ReloadInv'
  BY <1>2, <1>4, <1>5, <1>6, <1>7, <1>8 DEF ReloadInv, Reloads
<1>9. ASSUME stray' = {}, RemoveInv
      PROVE  RemoveInv'
  <2>1. \A d \in calls : ~Reloads(d)
    BY <1>2, <1>9 DEF RemoveInv, Removal
  <2>2. LatestComing
    BY <1>4, <1>6, <1>9, <2>1 DEF RemoveInv, Reloading
  <2> QED
    BY <1>2, <1>7, <2>1, <2>2 DEF RemoveInv, Reloads
<1> QED
  BY <1>1, <1>2, <1>3, <1>4, <1>8, <1>9 DEF ListInv, Quiet, L

LEMMA ActAnsweredList ==
    ASSUME ListInv, Typed', NEW c \in calls, ActAnswered(c)
    PROVE  ListInv'
<1>1. /\ clicks' = clicks + 1 /\ calls' = (calls \ {c}) \cup {Load(c.q)}
      /\ UNCHANGED <<list, query, rows, base, doomed, newest, stray>>
      /\ Reloads(c) /\ L.then = "reload" /\ list # "none"
  BY DEF ActAnswered, Reloads, ListInv
<1>2. Numbered' /\ (c.q = query => LatestComing')
  BY <1>1, Asked DEF ListInv, Load
<1>3. Load(c.q).q = c.q
  BY DEF Load, Call
<1>4. ASSUME stray' = {}
      PROVE  ReloadInv'
  <2>1. ReloadInv
    BY <1>1, <1>4 DEF ListInv, Quiet
  <2>2. c.q = query
    BY <1>1, <2>1 DEF ReloadInv
  <2> QED
    BY <1>1, <1>2, <1>3, <2>1, <2>2 DEF ReloadInv, Reloads
<1> QED
  BY <1>1, <1>2, <1>4 DEF ListInv, Quiet, L

LEMMA PatchedList ==
    ASSUME ListInv, Typed', NEW c \in calls, PatchAnswered(c)
    PROVE  ListInv'
<1>1. /\ calls' = calls \ {c} /\ c.do # "list" /\ ~Reloads(c) /\ list # "none"
      /\ UNCHANGED <<list, query, base, doomed, clicks, newest>>
      /\ stray' = {} => stray = {} /\ rows' = rows
  BY DEF PatchAnswered, Reloads, ListInv
<1>2. Numbered'
  BY <1>1 DEF ListInv, Numbered
<1>3. Reloading => Reloading'
  BY <1>1 DEF Reloading, Reloads
<1>4. LatestComing => LatestComing'
  BY <1>1 DEF LatestComing
<1>5. OthersOld => OthersOld'
  BY <1>1 DEF OthersOld
<1>6. ASSUME stray' = {}, ReloadInv
      PROVE  ReloadInv'
  BY <1>1, <1>3, <1>4, <1>5, <1>6 DEF ReloadInv, Reloads
<1>7. ASSUME stray' = {}, RemoveInv
      PROVE  RemoveInv'
  <2>1. \A d \in calls : ~Reloads(d)
    BY <1>1, <1>7 DEF RemoveInv, Removal
  <2> QED
    BY <1>1, <1>3, <1>4, <1>5, <1>7, <2>1 DEF RemoveInv, Reloads
<1> QED
  BY <1>1, <1>2, <1>6, <1>7 DEF ListInv, Quiet, L

LEMMA RemovedList ==
    ASSUME ListInv, Typed', NEW c \in calls, RemoveAnswered(c)
    PROVE  ListInv'
<1> DEFINE load == Load([query EXCEPT !.page = 1])
<1>1. /\ clicks' = clicks + 1 /\ rows' = rows \ c.ids
      /\ calls' = (calls \ {c}) \cup (IF rows' = {} THEN {load} ELSE {})
      /\ UNCHANGED <<list, query, base, doomed, newest>>
      /\ c.at = "client" /\ L.then = "remove" /\ Reloads(c) /\ list # "none"
  BY DEF RemoveAnswered, Reloads, ListInv
<1>2. stray' = {} => stray = {} /\ (rows' = {} => query.page = 1)
  BY DEF RemoveAnswered
<1>3. load = Call("list", {}, [query EXCEPT !.page = 1])
  BY DEF Load
<1>4. query \in Queries /\ (query.page = 1 => [query EXCEPT !.page = 1] = query)
  BY DEF ListInv, Typed, ListTypeOK, Queries
<1>5. load.do = "list"
  BY <1>3 DEF Call
<1> HIDE DEF load
<1>6. Numbered' /\ (rows' = {} /\ query.page = 1 => LatestComing')
  <2>1. CASE rows' = {}
    BY <1>1, <1>3, <1>4, <2>1, Asked DEF ListInv
  <2>2. CASE rows' # {}
    BY <1>1, <2>2 DEF ListInv, Typed, CallRecord, Numbered
  <2> QED
    BY <2>1, <2>2
<1>7. ASSUME stray' = {}
      PROVE  RemoveInv'
  <2>1. Removal(c)
    BY <1>1, <1>2, <1>7 DEF ListInv, Quiet, RemoveInv
  <2>2. calls' = IF rows' = {} THEN {load} ELSE {}
    BY <1>1, <2>1 DEF Removal
  <2>3. rows' \subseteq Listed(query, base)
    BY <1>1, <2>1 DEF Removal, Left
  <2>4. \A d \in calls' : ~Reloads(d)
    BY <1>5, <2>2 DEF Reloads
  <2>5. LatestComing' \/ OthersOld'
    BY <1>2, <1>6, <1>7, <2>2 DEF OthersOld
  <2> QED
    BY <1>1, <2>3, <2>4, <2>5 DEF RemoveInv, Reloads
<1> QED
  BY <1>1, <1>6, <1>7 DEF ListInv, Quiet, L

\* What the server deletes afterwards leaves the page as it should be, as long as the list
\* asked for last is still to be made up.
LEMMA DoomedList ==
    ASSUME ListInv, Typed', NEW some \in SUBSET doomed, DeleteDoomed(some)
    PROVE  ListInv'
<1>1. /\ UNCHANGED <<list, query, rows, calls, clicks, newest>>
      /\ doomed # {} /\ doomed' \subseteq doomed
  BY DEF DeleteDoomed
<1>2. L.defers /\ list # "none" /\ L' = L
  BY <1>1 DEF ListInv, L
<1>3. L.then = "reload"
  BY <1>2, EveryList DEF ListInv, Typed, ListTypeOK, L
<1>4. Numbered'
  BY <1>1 DEF ListInv, Numbered
<1>5. ASSUME stray' = {}
      PROVE  ReloadInv'
  <2>1. stray = {} /\ (base' = base \/ Unseen)
    BY <1>5 DEF DeleteDoomed
  <2>2. ReloadInv
    BY <1>2, <1>3, <2>1 DEF ListInv, Quiet
  <2>3. \A c \in calls' : Reloads(c) => c.q = query'
    BY <1>1, <2>2 DEF ReloadInv
  <2>4. Reloading => Reloading'
    BY <1>1 DEF Reloading
  <2>5. CASE base' = base
    BY <1>1, <2>2, <2>3, <2>4, <2>5 DEF ReloadInv, LatestComing, OthersOld
  <2>6. CASE \E c \in calls : c.do \in Deletions
    <3>1. Reloading
      BY <2>6 DEF Reloading, Reloads, Deletions
    <3> QED
      BY <2>3, <2>4, <3>1 DEF ReloadInv
  <2>7. ASSUME NEW c \in calls, c.do = "list", c.at = "server", c.n > newest,
               \A d \in calls : d.do = "list" => d.n <= c.n
        PROVE  ReloadInv'
    <3>1. Reloading \/ LatestComing
      <4>1. c.n \in Nat /\ newest \in Nat
        BY DEF ListInv, Typed, CallRecord
      <4>2. ~OthersOld
        BY <2>7, <4>1 DEF OthersOld
      <4> QED
        BY <2>2, <4>2 DEF ReloadInv
    <3>2. ASSUME LatestComing
          PROVE  LatestComing'
      <4>1. PICK x \in calls :
               /\ x.do = "list" /\ x.q = query /\ x.n > newest
               /\ \A d \in calls : d.do = "list" => d.n <= x.n
        BY <3>2 DEF LatestComing
      <4>2. x.n \in Nat /\ c.n \in Nat
        BY DEF ListInv, Typed, CallRecord
      <4>3. x.n <= c.n /\ c.n <= x.n
        BY <2>7, <4>1
      <4>4. x = c
        BY <4>2, <4>3 DEF ListInv, Numbered
      <4> QED
        BY <1>1, <2>7, <4>1, <4>4 DEF LatestComing
    <3> QED
      BY <2>3, <2>4, <3>1, <3>2 DEF ReloadInv
  <2> QED
    BY <2>1, <2>5, <2>6, <2>7 DEF Unseen
<1> QED
  BY <1>1, <1>2, <1>3, <1>4, <1>5 DEF ListInv, Quiet

LEMMA ListStep == ListInv /\ Step => ListInv'
<1> SUFFICES ASSUME ListInv, Step
             PROVE  ListInv'
  OBVIOUS
<1>0. Typed /\ Typed'
  BY TypedStep DEF ListInv
<1>1. CASE \E l \in DOMAIN ListOf : OpenList(l)
  BY <1>0, <1>1, OpenedList
<1>2. CASE list # "none" /\ (Turn \/ Resize \/ Reorder \/ Refilter)
  BY <1>0, <1>2, ControlsTyped, QueryList
<1>3. CASE Refresh
  BY <1>0, <1>3, RefreshedList
<1>4. CASE list # "none" /\ \E do \in L.acts \cup L.batch, ids \in SUBSET Rows : Act(do, ids)
  BY <1>0, <1>4, ActList
<1>5. CASE Select \/ UNCHANGED listVars
  <2>1. UNCHANGED <<list, query, rows, base, doomed, calls, clicks, newest, stray>>
    BY <1>5 DEF Select, listVars
  <2> QED
    BY <1>0, <2>1 DEF ListInv, Numbered, Quiet, ReloadInv, RemoveInv, Reloading, Reloads,
                      LatestComing, OthersOld, Removal, Left, L
<1>6. ASSUME NEW c \in calls,
             \/ Serve(c) \/ ListAnswered(c) \/ ActAnswered(c) \/ PatchAnswered(c)
             \/ RemoveAnswered(c)
      PROVE  ListInv'
  BY <1>0, <1>6, ServedList, AnsweredList, ActAnsweredList, PatchedList, RemovedList
<1>7. ASSUME NEW c \in calls, CallFailed(c)
      PROVE  ListInv'
  BY <1>0, <1>7 DEF CallFailed, ListInv, Numbered, L
<1>8. CASE \E some \in SUBSET doomed : DeleteDoomed(some)
  BY <1>0, <1>8, DoomedList
<1> QED
  BY <1>1, <1>2, <1>3, <1>4, <1>5, <1>6, <1>7, <1>8 DEF Step, ListNext

\* ListSpec => []ListCurrent: when nothing is under way any more, the page shows what its
\* controls ask for, as the server has it, unless what stray records has happened.
THEOREM Current == ListSpec => []ListCurrent
<1>1. ListInit => ListInv
  <2> SUFFICES ASSUME ListInit
               PROVE  ListInv
    OBVIOUS
  <2>1. query \in Queries
    <3>1. SmallestSize \in Sizes
      <4>1. Sizes \subseteq Nat /\ Sizes # {}
        BY ListAssumption
      <4>2. \E n \in Sizes : \A z \in Sizes : n <= z
        <5> DEFINE R == OpToRel(<, Nat)
        <5>1. IsWellFoundedOn(R, Nat)
          BY NatLessThanWellFounded
        <5>2. \A x, y \in Nat : x < y => <<x, y>> \in R
          BY DEF OpToRel
        <5> HIDE DEF R
        <5>3. PICK n \in Sizes : \A z \in Sizes : ~(<<z, n>> \in R)
          BY <4>1, <5>1, WFMin
        <5>4. \A z \in Sizes : n \in Nat /\ z \in Nat /\ ~(z < n)
          BY <4>1, <5>2, <5>3
        <5> QED
          BY <5>4
      <4> QED
        BY <4>2 DEF SmallestSize
    <3> QED
      BY <3>1 DEF ListInit, FirstQuery, Queries
  <2>2. ListTypeOK
    <3>1. rows = {} /\ selected = {} /\ base = Rows /\ doomed = {} /\ list = "none" /\ total = 0
      BY DEF ListInit
    <3>2. waits \in BOOLEAN
      BY DEF ListInit
    <3> QED
      BY <2>1, <3>1, <3>2 DEF ListTypeOK
  <2>3. Typed
    BY <2>2 DEF ListInit, Typed
  <2> QED
    BY <2>3 DEF ListInit, ListInv, Numbered
<1>2. ListInv => ListCurrent
  <2> SUFFICES ASSUME ListInv, list # "none", calls = {}, stray = {}
               PROVE  /\ rows \subseteq Listed(query, base)
                      /\ L.then = "reload" => rows = Listed(query, base)
    BY DEF ListCurrent
  <2>1. ~Reloading /\ ~LatestComing /\ Quiet
    BY DEF ListInv, Reloading, LatestComing
  <2> QED
    BY <2>1 DEF Quiet, ReloadInv, RemoveInv
<1> QED
  BY <1>1, <1>2, ListStep, PTL DEF ListSpec, Step
=============================================================================
