--------------------------- MODULE FileBrowserProofs --------------------------
(***************************************************************************)
(* Theorems about the file manager, for any objects, folders, page sizes   *)
(* and number of requests: what is selected is listed, the page exists,    *)
(* the dialogs are freed, and the list is in the end the one of the path.  *)
(***************************************************************************)
EXTENDS FileBrowser, FiniteSetTheorems, TLAPS

Step == BrowserNext \/ UNCHANGED browserVars

Selectable == Objects \cup Paths
FetchRecord == [n : Nat, of : Paths, got : SUBSET Objects, at : {"server", "client"}]
WorkRecord == [n : Nat, do : DOMAIN DialogOf, objs : SUBSET Selectable, to : Paths,
               served : BOOLEAN]

Typed ==
    /\ BrowserTypeOK
    /\ fetches \subseteq FetchRecord /\ works \subseteq WorkRecord
    /\ \A w \in works : w.do = "move" => w.to \in Folders
    /\ sent \in Nat /\ fresh \in Nat /\ timers \in Nat

-----------------------------------------------------------------------------
(* Operators.                                                              *)

LEMMA DialogNames ==
    /\ DOMAIN DialogOf = {"remove", "move", "rename", "folder", "file", "copy", "compress",
                          "decompress", "share", "download"}
    /\ \A d \in {"remove"} : DialogOf[d].then = "refresh later"
    /\ \A d \in {"move", "rename", "folder", "file", "copy"} : DialogOf[d].then = "refresh"
    /\ \A d \in {"compress", "decompress", "download"} : DialogOf[d].then = "close"
    /\ \A d \in {"share"} : DialogOf[d].then = "stay"
<1>1. Dialog.then = "refresh" /\ RemoveDialog.then = "refresh later"
  BY DEF Dialog, RemoveDialog
<1>2. /\ MoveDialog.then = "refresh" /\ RenameDialog.then = "refresh"
      /\ CreateFolderDialog.then = "refresh" /\ CreateFileDialog.then = "refresh"
      /\ CopyDialog.then = "refresh"
  BY
  DEF Dialog, MoveDialog, RenameDialog, CreateFolderDialog, CreateFileDialog,
      CopyDialog
<1>3. /\ CompressDialog.then = "close" /\ DecompressDialog.then = "close"
      /\ DownloadDialog.then = "close" /\ ShareDialog.then = "stay"
  BY DEF Dialog, CompressDialog, DecompressDialog, DownloadDialog, ShareDialog
<1>4. DOMAIN DialogOf = {"remove", "move", "rename", "folder", "file", "copy", "compress",
                         "decompress", "share", "download"}
  BY DEF DialogOf
<1>5. /\ DialogOf["remove"] = RemoveDialog /\ DialogOf["move"] = MoveDialog
      /\ DialogOf["rename"] = RenameDialog /\ DialogOf["folder"] = CreateFolderDialog
      /\ DialogOf["file"] = CreateFileDialog /\ DialogOf["copy"] = CopyDialog
  BY DEF DialogOf
<1>6. /\ DialogOf["compress"] = CompressDialog /\ DialogOf["decompress"] = DecompressDialog
      /\ DialogOf["share"] = ShareDialog /\ DialogOf["download"] = DownloadDialog
  BY DEF DialogOf
<1> QED
  BY <1>1, <1>2, <1>3, <1>4, <1>5, <1>6

\* A change of the page, or of both fields, is one of paging.
Paging == [page : Nat \ {0}, size : PageSizes]

LEMMA PagingChanged ==
    /\ \A s \in PageSizes, n \in Nat \ {0} : [page |-> n, size |-> s] \in Paging
    /\ \A p \in Paging, n \in Nat \ {0} : [p EXCEPT !.page = n] \in Paging
    /\ \A p \in Paging : p.page \in Nat \ {0} /\ p.size \in PageSizes
  BY DEF Paging

LEMMA ContentObjects == \A p : Content(p) \subseteq Objects
  BY DEF Content

\* There is a last page, and a page whose objects all fit in the list comes before it.
LEMMA LastPages ==
    ASSUME NEW s \in SUBSET Objects, NEW size \in PageSizes
    PROVE  /\ LastPage(s, size) \in Nat \ {0}
           /\ size = -1 => LastPage(s, size) = 1
           /\ \A n \in Nat \ {0} : n = 1 \/ (~(n * size > Cardinality(s)) /\ size # -1)
                  => n <= LastPage(s, size)
<1>1. IsFiniteSet(s) /\ Cardinality(s) \in Nat
  BY BrowserAssumption, FS_Subset, FS_CardinalityType
<1>2. size = -1 \/ size \in Nat \ {0}
  BY BrowserAssumption
<1>3. CASE Cardinality(s) = 0 \/ size = -1
  <2>1. LastPage(s, size) = 1
    BY <1>3 DEF LastPage
  <2>2. ASSUME NEW n \in Nat \ {0}, ~(n * size > Cardinality(s)), size # -1
        PROVE  n <= 1
    <3>1. size \in Nat \ {0} /\ Cardinality(s) = 0
      BY <1>2, <1>3, <2>2
    <3>2. n * size > 0
      BY <3>1
    <3> QED
      BY <2>2, <3>1, <3>2
  <2> QED
    BY <2>1, <2>2
<1>4. CASE Cardinality(s) # 0 /\ size # -1
  <2> DEFINE c == Cardinality(s)
             q == (c + size - 1) \div size
  <2>1. LastPage(s, size) = q
    BY <1>4 DEF LastPage
  <2>2. size \in Nat /\ size > 0 /\ c \in Nat /\ c > 0
    BY <1>1, <1>2, <1>4
  <2>3. q \in Int /\ size * q <= c + size - 1 /\ c + size - 1 < size * (q + 1)
    BY <2>2
  <2> HIDE DEF q
  <2>4. q > 0
    <3>1. SUFFICES ASSUME q <= 0 PROVE FALSE
      BY <2>3
    <3>2. size * (q + 1) <= size
      BY <2>2, <2>3, <3>1
    <3> QED
      BY <2>2, <2>3, <3>2
  <2>5. ASSUME NEW n \in Nat \ {0}, ~(n * size > c)
        PROVE  n <= q
    <3>1. SUFFICES ASSUME n >= q + 1 PROVE FALSE
      BY <2>3
    <3>2. n * size >= size * (q + 1)
      BY <2>2, <2>3, <3>1
    <3> QED
      BY <2>2, <2>3, <2>5, <3>2
  <2> QED
    BY <1>4, <2>1, <2>3, <2>4, <2>5
<1> QED
  BY <1>3, <1>4

-----------------------------------------------------------------------------
(* Types.                                                                  *)

LEMMA TypedInit == BrowserInit => Typed
<1> SUFFICES ASSUME BrowserInit
             PROVE  Typed
  OBVIOUS
<1>1. BrowserTypeOK
  <2>1. place \in [Objects \cup Folders -> Folders \cup {"gone"}]
    BY BrowserAssumption DEF BrowserInit
  <2>2. paging \in Paging
    <3>1. paging = [page |-> 1, size |-> paging.size] /\ paging.size \in PageSizes
      BY DEF BrowserInit
    <3> QED
      BY <3>1, PagingChanged
  <2>3. path \in Folders \cup {"search"} /\ dialog = "none" /\ shown \subseteq Objects
    BY DEF BrowserInit
  <2> QED
    BY <2>1, <2>2, <2>3 DEF BrowserInit, BrowserTypeOK, Paging, Paths
<1>2. fetches \subseteq FetchRecord
  <2>1. [n |-> 1, of |-> path, got |-> {}, at |-> "server"] \in FetchRecord
    BY DEF BrowserInit, FetchRecord, Paths
  <2> QED
    BY <2>1 DEF BrowserInit
<1> QED
  BY <1>1, <1>2 DEF BrowserInit, Typed

\* renderPath asks with a number of its own.
LEMMA FetchTyped ==
    ASSUME NEW p \in Paths, Typed, Fetch(p)
    PROVE  fetches' \subseteq FetchRecord /\ sent' \in Nat /\ failing' = FALSE
  BY DEF Fetch, FetchRecord, Typed

LEMMA RefreshTyped ==
    ASSUME Typed, RefreshList
    PROVE  /\ fetches' \subseteq FetchRecord /\ sent' \in Nat
           /\ failing' = FALSE /\ picked' = {} /\ spinning' = TRUE
  BY FetchTyped DEF RefreshList, Typed, BrowserTypeOK, Paths

LEMMA WorkTyped ==
    ASSUME NEW d \in DOMAIN DialogOf, NEW objs \in SUBSET Selectable, NEW to \in Paths,
           works \subseteq WorkRecord, sent' \in Nat, Work(d, objs, to)
    PROVE  works' \subseteq WorkRecord /\ works' # {}
<1>1. [n |-> sent', do |-> d, objs |-> objs, to |-> to, served |-> FALSE] \in WorkRecord
  BY DEF WorkRecord
<1> QED
  BY <1>1 DEF Work

LEMMA TypedStep == Typed /\ Step => Typed'
<1> SUFFICES ASSUME Typed, Step
             PROVE  Typed'
  OBVIOUS
<1> USE DEF Typed
<1>1. ASSUME NEW f \in Folders, Navigate(f)
      PROVE  Typed'
  <2>1. fetches' \subseteq FetchRecord /\ sent' \in Nat /\ failing' = FALSE
    BY <1>1, FetchTyped DEF Navigate, Paths
  <2>2. paging' \in Paging
    <3>1. paging \in Paging /\ paging' = [paging EXCEPT !.page = 1]
      BY <1>1 DEF Navigate, BrowserTypeOK, Paging
    <3> QED
      BY <3>1, PagingChanged
  <2> QED
    BY <1>1, <2>1, <2>2 DEF Navigate, BrowserTypeOK, dialogs, storage, Paging, Paths
<1>2. CASE NavigateHere
  BY <1>2 DEF NavigateHere, BrowserTypeOK, dialogs, storage
<1>3. CASE SearchFiles
  <2>1. fetches' \subseteq FetchRecord /\ sent' \in Nat /\ failing' = FALSE
    BY <1>3, FetchTyped DEF SearchFiles, Paths
  <2> QED
    BY <1>3, <2>1 DEF SearchFiles, BrowserTypeOK, dialogs, storage, Paths
<1>4. CASE RefreshFiles
  BY <1>4, RefreshTyped DEF RefreshFiles, BrowserTypeOK, dialogs, storage
<1>5. CASE RefreshByMenu
  BY <1>5, FetchTyped DEF RefreshByMenu, BrowserTypeOK, dialogs, storage, Paths
<1>6. ASSUME NEW c \in fetches, FetchServed(c)
      PROVE  Typed'
  <2>1. [c EXCEPT !.at = "client", !.got = Content(c.of)] \in FetchRecord
    BY <1>6, ContentObjects DEF FetchRecord
  <2>2. fetches' \subseteq FetchRecord
    BY <1>6, <2>1 DEF FetchServed
  <2> QED
    BY <1>6, <2>2 DEF FetchServed, BrowserTypeOK, dialogs, storage
<1>7. ASSUME NEW c \in fetches, FetchAnswered(c)
      PROVE  Typed'
  <2>1. c.got \subseteq Objects /\ c.n \in Nat /\ c.of \in Paths
    BY DEF FetchRecord
  <2>2. paging' \in Paging
    BY <1>7, <2>1, LastPages, PagingChanged DEF FetchAnswered, BrowserTypeOK, Paging
  <2> QED
    BY <1>7, <2>1, <2>2 DEF FetchAnswered, BrowserTypeOK, dialogs, storage, Paging
<1>8. ASSUME NEW c \in fetches, FetchFailed(c)
      PROVE  Typed'
  BY <1>8 DEF FetchFailed, BrowserTypeOK, dialogs, storage
<1>9. ASSUME NEW o \in Objects, PickFile(o)
      PROVE  Typed'
  <2>1. picked' \subseteq Selectable
    BY <1>9 DEF PickFile, BrowserTypeOK, Selectable
  <2> QED
    BY <1>9, <2>1 DEF PickFile, BrowserTypeOK, Selectable, dialogs, storage, listing
<1>10. CASE PickAll
  <2>1. picked' \subseteq Objects /\ sent' \in Nat
    <3>1. picked' = {} \/ picked' = shown
      BY <1>10 DEF PickAll
    <3>2. sent' \in Nat
      BY <1>10 DEF PickAll
    <3> QED
      BY <3>1, <3>2 DEF BrowserTypeOK
  <2> QED
    BY <1>10, <2>1 DEF PickAll, BrowserTypeOK, dialogs, storage, listing
<1>11. CASE PickPage
  <2>1. picked' \subseteq Objects /\ sent' \in Nat
    <3>1. picked' \subseteq shown
      BY <1>11 DEF PickPage
    <3>2. sent' \in Nat
      BY <1>11 DEF PickPage
    <3> QED
      BY <3>1, <3>2 DEF BrowserTypeOK
  <2> QED
    BY <1>11, <2>1 DEF PickPage, BrowserTypeOK, dialogs, storage, listing
<1>12. CASE PickNone
  BY <1>12 DEF PickNone, BrowserTypeOK, dialogs, storage, listing
<1>13. CASE TurnPage
  <2>1. PICK p \in 1 .. LastPage(shown, paging.size) : paging' = [paging EXCEPT !.page = p]
    BY <1>13 DEF TurnPage
  <2>2. LastPage(shown, paging.size) \in Nat
    BY LastPages, PagingChanged DEF BrowserTypeOK, Paging
  <2>3. p \in Nat \ {0}
    BY <2>2
  <2>4. paging' \in Paging
    BY <2>1, <2>3, PagingChanged DEF BrowserTypeOK, Paging
  <2> QED
    BY <1>13, <2>4 DEF TurnPage, BrowserTypeOK, dialogs, storage, Paging
<1>14. ASSUME NEW size \in PageSizes, ChangePageSize(size)
       PROVE  Typed'
  <2>1. paging' \in Paging
    BY <1>14, LastPages DEF ChangePageSize, BrowserTypeOK, Paging
  <2> QED
    BY <1>14, <2>1 DEF ChangePageSize, BrowserTypeOK, dialogs, storage, Paging
<1>15. ASSUME NEW d \in DOMAIN DialogOf, OpenDialog(d) \/ OpenEmptyDialog(d) \/ OpenFolderDialog(d)
       PROVE  Typed'
  <2>1. picked' \subseteq Selectable
    <3>1. picked' = picked \/ picked' = {parent}
      BY <1>15 DEF OpenDialog, OpenEmptyDialog, OpenFolderDialog
    <3> QED
      BY <3>1 DEF BrowserTypeOK, Selectable
  <2>2. dialog' = d
    BY <1>15 DEF OpenDialog, OpenEmptyDialog, OpenFolderDialog, Opened
  <2>3. UNCHANGED <<listing, asking, modalsLoading, works, timers, storage, sent>>
    BY <1>15 DEF OpenDialog, OpenEmptyDialog, OpenFolderDialog, Opened
  <2> QED
    BY <2>1, <2>2, <2>3 DEF BrowserTypeOK, Selectable, listing, storage
<1>16. CASE CloseDialog
  BY <1>16 DEF CloseDialog, BrowserTypeOK, listing, storage
<1>17. ASSUME NEW objs \in SUBSET picked, NEW to \in Folders \cup {path}, SubmitDialog(objs, to)
       PROVE  Typed'
  <2>1. to \in Paths /\ objs \in SUBSET Selectable /\ dialog \in DOMAIN DialogOf
    BY <1>17 DEF SubmitDialog, Paths, BrowserTypeOK, Selectable
  <2>2. works' \subseteq WorkRecord /\ sent' \in Nat
    <3>1. CASE UNCHANGED <<works, sent>>
      BY <3>1
    <3>2. CASE sent' = sent + 1 /\ Work(dialog, objs, to)
      BY <2>1, <3>2, WorkTyped
    <3> QED
      BY <1>17, <3>1, <3>2 DEF SubmitDialog
  <2>3. \A w \in works' : w.do = "move" => w.to \in Folders
    BY <1>17 DEF SubmitDialog, Work
  <2>4. asking' \subseteq [objs : SUBSET Selectable, to : Folders]
    <3>1. CASE asking' = asking
      BY <3>1 DEF BrowserTypeOK, Selectable
    <3>2. CASE dialog = "decompress" /\ asking' = {[objs |-> objs, to |-> to]}
      <4>1. to \in Folders
        BY <1>17, <3>2 DEF SubmitDialog, Tasks
      <4> QED
        BY <2>1, <3>2, <4>1
    <3> QED
      BY <1>17, <3>1, <3>2 DEF SubmitDialog
  <2>5. UNCHANGED <<listing, dialog, timers, picked, storage>> /\ modalsLoading' = TRUE
    BY <1>17 DEF SubmitDialog
  <2> QED
    BY <2>2, <2>3, <2>4, <2>5 DEF BrowserTypeOK, Selectable, listing, storage
<1>18. ASSUME NEW a \in asking, ChooseEncoding(a)
       PROVE  Typed'
  <2>1. a.objs \in SUBSET Selectable /\ a.to \in Paths /\ "decompress" \in DOMAIN DialogOf
    BY DialogNames DEF BrowserTypeOK, Selectable, Paths
  <2>2. works' \subseteq WorkRecord /\ sent' \in Nat
    BY <1>18, <2>1, WorkTyped DEF ChooseEncoding
  <2>3. \A w \in works' : w.do = "move" => w.to \in Folders
    BY <1>18 DEF ChooseEncoding, Work
  <2> QED
    BY <1>18, <2>2, <2>3 DEF ChooseEncoding, BrowserTypeOK, listing, storage
<1>19. ASSUME NEW a \in asking, RefuseEncoding(a)
       PROVE  Typed'
  BY <1>19 DEF RefuseEncoding, BrowserTypeOK, listing, storage
<1>20. ASSUME NEW o \in Objects, NEW to \in Folders, DragMove(o, to)
       PROVE  Typed'
  <2>1. picked' \in SUBSET Selectable /\ sent' \in Nat
    <3>1. picked' = picked \/ picked' = {o}
      BY <1>20 DEF DragMove
    <3>2. sent' \in Nat
      BY <1>20 DEF DragMove
    <3> QED
      BY <3>1, <3>2 DEF BrowserTypeOK, Selectable
  <2>2. works' \subseteq WorkRecord
    BY <1>20, <2>1, WorkTyped, DialogNames DEF DragMove, Paths
  <2>3. \A w \in works' : w.do = "move" => w.to \in Folders
    BY <1>20 DEF DragMove, Work
  <2> QED
    BY <1>20, <2>1, <2>2, <2>3 DEF DragMove, BrowserTypeOK, Selectable, listing, storage
<1>21. ASSUME NEW w \in works, WorkServed(w)
       PROVE  Typed'
  <2>1. [w EXCEPT !.served = TRUE] \in WorkRecord
    BY DEF WorkRecord
  <2>2. works' \subseteq WorkRecord
    BY <1>21, <2>1 DEF WorkServed
  <2>3. \A x \in works' : x.do = "move" => x.to \in Folders
    BY <1>21 DEF WorkServed, WorkRecord
  <2>4. place' \in [Objects \cup Folders -> Folders \cup {"gone"}]
    <3>1. w.do \in {"move", "folder", "file", "copy"} => w.to \in Folders
      BY <1>21 DEF WorkServed, Puts
    <3> QED
      BY <1>21, <3>1 DEF WorkServed, BrowserTypeOK
  <2>5. chores' \subseteq [n : Nat, to : Folders]
    <3>1. w.do \in Tasks => w.to \in Folders
      BY <1>21 DEF WorkServed, Puts
    <3>2. w.n \in Nat
      BY DEF WorkRecord
    <3> QED
      BY <1>21, <3>1, <3>2 DEF WorkServed, BrowserTypeOK
  <2>6. UNCHANGED <<listing, dialog, asking, modalsLoading, timers, picked, brought, sent>>
    BY <1>21 DEF WorkServed
  <2> QED
    BY <2>2, <2>3, <2>4, <2>5, <2>6 DEF BrowserTypeOK, listing
<1>22. ASSUME NEW t \in chores, NEW o \in Objects, ChoreStores(t, o)
       PROVE  Typed'
  <2>1. t.to \in Folders
    BY DEF BrowserTypeOK
  <2> QED
    BY <1>22, <2>1 DEF ChoreStores, BrowserTypeOK, dialogs, listing
<1>23. ASSUME NEW t \in chores, ChoreEnds(t)
       PROVE  Typed'
  BY <1>23 DEF ChoreEnds, BrowserTypeOK, dialogs, listing
<1>24. ASSUME NEW w \in works, WorkAnswered(w)
       PROVE  Typed'
  <2>1. fetches' \subseteq FetchRecord /\ sent' \in Nat /\ picked' \subseteq Selectable
        /\ spinning' \in BOOLEAN /\ failing' \in BOOLEAN
    BY <1>24, RefreshTyped DEF WorkAnswered, BrowserTypeOK, Selectable
  <2>2. timers' \in Nat /\ works' \subseteq works
    <3>1. timers' = timers \/ timers' = timers + 1
      BY <1>24 DEF WorkAnswered
    <3>2. works' \subseteq works
      BY <1>24 DEF WorkAnswered
    <3> QED
      BY <3>1, <3>2
  <2>3. dialog' \in {dialog, "none"} /\ modalsLoading' = FALSE /\ asking' \in {asking, {}}
    BY <1>24 DEF WorkAnswered
  <2>4. UNCHANGED <<path, shown, paging, fresh, parent, storage>>
    BY <1>24 DEF WorkAnswered
  <2> QED
    BY <2>1, <2>2, <2>3, <2>4 DEF BrowserTypeOK, Selectable, storage
<1>25. ASSUME NEW w \in works, WorkFailed(w)
       PROVE  Typed'
  BY <1>25 DEF WorkFailed, BrowserTypeOK, listing, storage
<1>26. CASE RefreshTimer
  <2>1. /\ fetches' \subseteq FetchRecord /\ sent' \in Nat
        /\ failing' = FALSE /\ picked' = {} /\ spinning' = TRUE
    BY <1>26, RefreshTyped DEF RefreshTimer
  <2>2. timers' \in Nat
    BY <1>26 DEF RefreshTimer
  <2> QED
    BY <1>26, <2>1, <2>2 DEF RefreshTimer, BrowserTypeOK, storage
<1>27. CASE UNCHANGED browserVars
  BY <1>27 DEF browserVars, listing, dialogs, storage, BrowserTypeOK
<1> QED
  BY <1>1, <1>2, <1>3, <1>4, <1>5, <1>6, <1>7, <1>8, <1>9, <1>10, <1>11, <1>12, <1>13,
     <1>14, <1>15, <1>16, <1>17, <1>18, <1>19, <1>20, <1>21, <1>22, <1>23, <1>24,
     <1>25, <1>26, <1>27
  DEF Step, BrowserNext

\* BrowserSpec => []BrowserTypeOK: paths, selections, pages and dialogs stay what they are.
THEOREM BrowserTypes == BrowserSpec => []BrowserTypeOK
<1>1. Typed => BrowserTypeOK
  BY DEF Typed
<1> QED
  BY <1>1, TypedInit, TypedStep, PTL DEF BrowserSpec, Step

-----------------------------------------------------------------------------
(* The selection.                                                          *)

\* While the program lets nothing happen, nothing is selected under a list to come, and
\* what is selected is listed or the folder of the list.
Apart == picked \subseteq shown \cup {parent} /\ (fetches # {} => picked = {})
PickedInv == slips \cap {"early", "kept"} = {} => Apart

LEMMA PickedStep == PickedInv /\ Step => PickedInv'
<1> SUFFICES ASSUME PickedInv, Step, slips' \cap {"early", "kept"} = {}
             PROVE  Apart'
  BY DEF PickedInv
<1> USE DEF PickedInv, Apart
<1>1. ASSUME NEW f \in Folders, Navigate(f)
      PROVE  Apart'
  BY <1>1 DEF Navigate
<1>2. CASE NavigateHere \/ SearchFiles \/ RefreshFiles \/ PickNone
  BY <1>2 DEF NavigateHere, SearchFiles, RefreshFiles, RefreshList, PickNone
<1>3. CASE RefreshByMenu
  <2>1. picked = {} /\ picked' = {}
    BY <1>3 DEF RefreshByMenu
  <2> QED
    BY <2>1
<1>4. ASSUME NEW c \in fetches, FetchServed(c) \/ FetchFailed(c)
      PROVE  Apart'
  BY <1>4 DEF FetchServed, FetchFailed
<1>5. ASSUME NEW c \in fetches, FetchAnswered(c)
      PROVE  Apart'
  <2>1. slips \cap {"early", "kept"} = {}
    BY <1>5 DEF FetchAnswered
  <2>2. picked' = {}
    BY <1>5, <2>1 DEF FetchAnswered
  <2> QED
    BY <2>2
<1>6. ASSUME NEW o \in Objects, PickFile(o)
      PROVE  Apart'
  <2>1. slips \cap {"early", "kept"} = {} /\ (fetches # {} => picked' = {})
    BY <1>6 DEF PickFile
  <2>2. picked' \subseteq shown \cup {parent}
    BY <1>6, <2>1 DEF PickFile
  <2> QED
    BY <1>6, <2>1, <2>2 DEF PickFile, listing
<1>7. CASE PickAll \/ PickPage
  <2>1. slips \cap {"early", "kept"} = {} /\ (fetches # {} => picked' = {})
    BY <1>7 DEF PickAll, PickPage
  <2>2. picked' \subseteq shown
    BY <1>7 DEF PickAll, PickPage
  <2> QED
    BY <1>7, <2>1, <2>2 DEF PickAll, PickPage, listing
<1>8. CASE TurnPage
  BY <1>8 DEF TurnPage
<1>9. ASSUME NEW size \in PageSizes, ChangePageSize(size)
      PROVE  Apart'
  BY <1>9 DEF ChangePageSize
<1>10. ASSUME NEW d \in DOMAIN DialogOf, OpenDialog(d) \/ OpenEmptyDialog(d)
       PROVE  Apart'
  BY <1>10 DEF OpenDialog, OpenEmptyDialog, Opened, listing
<1>11. CASE CloseDialog
  BY <1>11 DEF CloseDialog, listing
<1>12. ASSUME NEW objs \in SUBSET picked, NEW to \in Folders \cup {path}, SubmitDialog(objs, to)
       PROVE  Apart'
  <2>1. slips \subseteq slips' /\ UNCHANGED <<picked, shown, fetches, parent>>
    BY <1>12 DEF SubmitDialog, listing
  <2> QED
    BY <2>1
<1>13. ASSUME NEW o \in Objects, NEW to \in Folders, DragMove(o, to)
       PROVE  Apart'
  <2>1. slips \cap {"early", "kept"} = {} /\ fetches = {}
    BY <1>13 DEF DragMove
  <2>2. picked' \subseteq shown \cup {parent}
    BY <1>13, <2>1 DEF DragMove
  <2> QED
    BY <1>13, <2>1, <2>2 DEF DragMove, listing
<1>14. ASSUME NEW d \in DOMAIN DialogOf, OpenFolderDialog(d)
       PROVE  Apart'
  BY <1>14 DEF OpenFolderDialog, Opened, listing
<1>15. CASE \/ \E a \in asking : ChooseEncoding(a) \/ RefuseEncoding(a)
            \/ \E t \in chores : ChoreEnds(t) \/ \E o \in Objects : ChoreStores(t, o)
  <2>1. slips' = slips /\ UNCHANGED <<picked, shown, fetches, parent>>
    BY <1>15 DEF ChooseEncoding, RefuseEncoding, ChoreStores, ChoreEnds, listing
  <2> QED
    BY <2>1
<1>16. ASSUME NEW w \in works, WorkServed(w) \/ WorkFailed(w)
       PROVE  Apart'
  <2>1. slips \subseteq slips' /\ UNCHANGED <<picked, shown, fetches, parent>>
    BY <1>16 DEF WorkServed, WorkFailed, listing
  <2> QED
    BY <2>1
<1>17. ASSUME NEW w \in works, WorkAnswered(w)
       PROVE  Apart'
  <2>1. picked' = {} \/ UNCHANGED <<picked, fetches>>
    BY <1>17 DEF WorkAnswered, RefreshList
  <2> QED
    BY <1>17, <2>1 DEF WorkAnswered
<1>18. CASE RefreshTimer
  BY <1>18 DEF RefreshTimer, RefreshList
<1>19. CASE UNCHANGED browserVars
  BY <1>19 DEF browserVars, listing
<1> QED
  BY <1>1, <1>2, <1>3, <1>4, <1>5, <1>6, <1>7, <1>8, <1>9, <1>10, <1>11, <1>12, <1>13,
     <1>14, <1>15, <1>16, <1>17, <1>18, <1>19
     DEF Step, BrowserNext

-----------------------------------------------------------------------------
(* The flag of the dialogs, and the page.                                  *)

LEMMA FreedStep == DialogsFreed /\ Step => DialogsFreed'
<1> SUFFICES ASSUME DialogsFreed, Step, modalsLoading', slips' \cap {"crashed", "dropped"} = {}
             PROVE  works' # {} \/ asking' # {}
  BY DEF DialogsFreed
<1> USE DEF DialogsFreed
<1>1. CASE UNCHANGED <<modalsLoading, works, asking>> /\ slips \subseteq slips'
  BY <1>1
<1>2. CASE \E w \in works : WorkServed(w)
  BY <1>2 DEF WorkServed
<1>3. CASE \E objs \in SUBSET picked, to \in Folders \cup {path} : SubmitDialog(objs, to)
  BY <1>3 DEF SubmitDialog, Work
<1>4. CASE \E o \in Objects, to \in Folders : DragMove(o, to)
  BY <1>4 DEF DragMove, Work
<1>5. CASE \E w \in works : WorkAnswered(w) \/ WorkFailed(w)
  BY <1>5 DEF WorkAnswered, WorkFailed
<1>6. CASE \/ \E f \in Folders : Navigate(f)
           \/ NavigateHere \/ SearchFiles \/ RefreshFiles \/ RefreshByMenu
           \/ \E c \in fetches : FetchServed(c) \/ FetchAnswered(c) \/ FetchFailed(c)
  BY <1>1, <1>6 DEF Navigate, NavigateHere, SearchFiles, RefreshFiles, RefreshByMenu,
                    FetchServed, FetchAnswered, FetchFailed, dialogs
<1>7. CASE \/ \E o \in Objects : PickFile(o)
           \/ PickAll \/ PickPage \/ PickNone \/ TurnPage
           \/ \E size \in PageSizes : ChangePageSize(size)
  BY <1>1, <1>7
  DEF PickFile, PickAll, PickPage, PickNone, TurnPage, ChangePageSize, dialogs
<1>8. CASE \/ \E d \in DOMAIN DialogOf : OpenDialog(d) \/ OpenEmptyDialog(d)
           \/ \E d \in DOMAIN DialogOf : OpenFolderDialog(d)
           \/ \E t \in chores : ChoreEnds(t) \/ \E o \in Objects : ChoreStores(t, o)
           \/ RefreshTimer
  BY <1>1, <1>8
  DEF OpenDialog, OpenEmptyDialog, OpenFolderDialog, Opened, ChoreStores, ChoreEnds,
                    RefreshTimer, dialogs
<1>9. CASE UNCHANGED browserVars
  BY <1>1, <1>9 DEF browserVars, dialogs
<1>10. CASE CloseDialog
  BY <1>10 DEF CloseDialog
<1>11. CASE \E a \in asking : ChooseEncoding(a) \/ RefuseEncoding(a)
  BY <1>11 DEF ChooseEncoding, RefuseEncoding, Work
<1> QED
  BY <1>2, <1>3, <1>4, <1>5, <1>6, <1>7, <1>8, <1>9, <1>10, <1>11 DEF Step, BrowserNext

\* BrowserSpec => []DialogsFreed: whoever waits for the flag that all dialogs share has a
\* request or a question under way, unless a submission crashed or the question was closed.
THEOREM Freed == BrowserSpec => []DialogsFreed
<1>1. BrowserInit => DialogsFreed
  BY DEF BrowserInit, DialogsFreed
<1> QED
  BY <1>1, FreedStep, PTL DEF BrowserSpec, Step

\* With all objects on one page, this is the first.
PageInv == Typed /\ PageExists /\ (paging.size = -1 => paging.page = 1)

LEMMA PageStep == PageInv /\ Step => PageInv'
<1> SUFFICES ASSUME PageInv, Step
             PROVE  PageExists' /\ (paging.size = -1 => paging.page = 1)'
  BY TypedStep DEF PageInv
<1> USE DEF PageInv, PageExists
<1>0. /\ paging \in Paging /\ shown \in SUBSET Objects
      /\ paging.page \in Nat \ {0} /\ paging.size \in PageSizes
  BY PagingChanged DEF Typed, BrowserTypeOK, Paging
<1>1. CASE UNCHANGED <<paging, shown>>
  BY <1>1
<1>2. ASSUME NEW f \in Folders, Navigate(f)
      PROVE  PageExists' /\ (paging.size = -1 => paging.page = 1)'
  <2>1. paging'.page = 1 /\ paging'.size = paging.size /\ shown' = shown
    BY <1>0, <1>2 DEF Navigate, Paging
  <2> QED
    BY <1>0, <2>1, LastPages
<1>3. ASSUME NEW c \in fetches, FetchAnswered(c)
      PROVE  PageExists' /\ (paging.size = -1 => paging.page = 1)'
  <2>1. shown' = c.got /\ c.got \in SUBSET Objects
    BY <1>3 DEF FetchAnswered, Typed, FetchRecord
  <2>2. LastPage(c.got, paging.size) \in Nat \ {0}
    BY <1>0, <2>1, LastPages
  <2>3. CASE paging.page * paging.size > Cardinality(c.got)
    <3>1. paging'.page = LastPage(c.got, paging.size) /\ paging'.size = paging.size
      BY <1>0, <1>3, <2>3 DEF FetchAnswered, Paging
    <3> QED
      BY <1>0, <2>1, <2>2, <3>1, LastPages
  <2>4. CASE ~(paging.page * paging.size > Cardinality(c.got))
    <3>1. paging' = paging
      BY <1>3, <2>4 DEF FetchAnswered
    <3>2. paging.page <= LastPage(c.got, paging.size)
      BY <1>0, <2>1, <2>4, LastPages
    <3> QED
      BY <2>1, <3>1, <3>2
  <2> QED
    BY <2>3, <2>4
<1>4. CASE TurnPage
  <2>1. PICK n \in 1 .. LastPage(shown, paging.size) : paging' = [paging EXCEPT !.page = n]
    BY <1>4 DEF TurnPage
  <2>2. paging'.page = n /\ paging'.size = paging.size /\ shown' = shown
    BY <1>0, <1>4, <2>1 DEF TurnPage, Paging
  <2>3. /\ LastPage(shown, paging.size) \in Nat
        /\ paging.size = -1 => LastPage(shown, paging.size) = 1
    BY <1>0, LastPages
  <2> QED
    BY <2>2, <2>3
<1>5. ASSUME NEW size \in PageSizes, ChangePageSize(size)
      PROVE  PageExists' /\ (paging.size = -1 => paging.page = 1)'
  <2>1. paging'.size = size /\ shown' = shown
    BY <1>5 DEF ChangePageSize
  <2>2. LastPage(shown, size) \in Nat \ {0} /\ (size = -1 => LastPage(shown, size) = 1)
    BY <1>0, LastPages
  <2>3. CASE paging.page * size > Cardinality(shown)
    <3>1. paging'.page = LastPage(shown, size)
      BY <1>5, <2>3 DEF ChangePageSize
    <3> QED
      BY <2>1, <2>2, <3>1
  <2>4. CASE ~(paging.page * size > Cardinality(shown)) /\ size = -1
    <3>1. paging'.page = 1
      BY <1>5, <2>4 DEF ChangePageSize
    <3> QED
      BY <2>1, <2>2, <2>4, <3>1
  <2>5. CASE ~(paging.page * size > Cardinality(shown)) /\ size # -1
    <3>1. paging'.page = paging.page
      BY <1>5, <2>5 DEF ChangePageSize
    <3>2. paging.page <= LastPage(shown, size)
      BY <1>0, <2>5, LastPages
    <3> QED
      BY <2>1, <2>5, <3>1, <3>2
  <2> QED
    BY <2>3, <2>4, <2>5
<1>6. CASE \/ NavigateHere \/ SearchFiles \/ RefreshFiles \/ RefreshByMenu
           \/ \E c \in fetches : FetchServed(c) \/ FetchFailed(c)
  BY <1>1, <1>6 DEF NavigateHere, SearchFiles, RefreshFiles, RefreshByMenu, FetchServed,
                    FetchFailed
<1>7. CASE (\E o \in Objects : PickFile(o)) \/ PickAll \/ PickPage \/ PickNone
  BY <1>1, <1>7 DEF PickFile, PickAll, PickPage, PickNone, listing
<1>8. CASE \/ \E d \in DOMAIN DialogOf : OpenDialog(d) \/ OpenEmptyDialog(d)
           \/ \E d \in DOMAIN DialogOf : OpenFolderDialog(d)
           \/ \E a \in asking : ChooseEncoding(a) \/ RefuseEncoding(a)
           \/ \E t \in chores : ChoreEnds(t) \/ \E o \in Objects : ChoreStores(t, o)
           \/ CloseDialog \/ RefreshTimer
  BY <1>1, <1>8
  DEF OpenDialog, OpenEmptyDialog, OpenFolderDialog, Opened, ChooseEncoding,
                    RefuseEncoding, ChoreStores, ChoreEnds, CloseDialog, RefreshTimer, listing
<1>9. CASE \/ \E objs \in SUBSET picked, to \in Folders \cup {path} : SubmitDialog(objs, to)
           \/ \E o \in Objects, to \in Folders : DragMove(o, to)
           \/ \E w \in works : WorkServed(w) \/ WorkAnswered(w) \/ WorkFailed(w)
  BY <1>1, <1>9
  DEF SubmitDialog, DragMove, WorkServed, WorkAnswered, WorkFailed, listing
<1>10. CASE UNCHANGED browserVars
  BY <1>1, <1>10 DEF browserVars, listing
<1> QED
  BY <1>2, <1>3, <1>4, <1>5, <1>6, <1>7, <1>8, <1>9, <1>10 DEF Step, BrowserNext

\* BrowserSpec => []PageExists: over lists that shrink and sizes of pages that change.
THEOREM Paged == BrowserSpec => []PageExists
<1>1. BrowserInit => PageInv
  <2> SUFFICES ASSUME BrowserInit
               PROVE  PageInv
    OBVIOUS
  <2>1. Typed
    BY TypedInit
  <2>2. paging.page = 1 /\ paging.size \in PageSizes /\ shown = {}
    BY DEF BrowserInit
  <2>3. 1 <= LastPage(shown, paging.size)
    <3>1. shown \in SUBSET Objects
      BY <2>2
    <3>2. LastPage(shown, paging.size) \in Nat \ {0}
      BY <2>2, <3>1, LastPages
    <3> QED
      BY <3>2
  <2> QED
    BY <2>1, <2>2, <2>3 DEF PageInv, PageExists
<1>2. PageInv => PageExists
  BY DEF PageInv
<1> QED
  BY <1>1, <1>2, PageStep, PTL DEF BrowserSpec, Step

-----------------------------------------------------------------------------
(* The list.                                                               *)

\* Requests have numbers of their own, given in order.
Numbered ==
    /\ \A c \in fetches : c.n <= sent
    /\ \A c, d \in fetches : c.n = d.n => c = d
    /\ fresh <= sent

\* A refresh will come: a change has been made whose answer brings it, or a timer runs.
Due ==
    \/ timers > 0
    \/ \E w \in works : w.served /\ DialogOf[w.do].then \in {"refresh", "refresh later"}

\* The list of the path, but for what tasks have stored.
ListOf(s) == s \subseteq Content(path) /\ Content(path) \ s \subseteq brought

\* The latest list asked for is that of the path, whether it is under way or shown, and is
\* right unless another will follow.
Latest(c) == c.of = path /\ c.n > fresh /\ \A d \in fetches : d.n <= c.n
LatestComing == \E c \in fetches : Latest(c) /\ (c.at = "client" => Due \/ ListOf(c.got))
LatestShown == parent = path /\ (\A d \in fetches : d.n < fresh) /\ (Due \/ ListOf(shown))

Calm == slips \cap {"overtaken", "failed"} = {}
ListInv == Typed /\ Numbered /\ (Calm => LatestComing \/ LatestShown)

\* What has just been asked for is the latest.
LEMMA Asked ==
    ASSUME Typed, Numbered, NEW p \in Paths, Fetch(p), fresh' = fresh
    PROVE  /\ Numbered'
           /\ path' = p => LatestComing'
<1> DEFINE new == [n |-> sent', of |-> p, got |-> {}, at |-> "server"]
<1>1. sent \in Nat /\ sent' = sent + 1 /\ fresh \in Nat
  BY DEF Fetch, Typed
<1>2. fetches' = fetches \cup {new}
  BY DEF Fetch
<1>3. new.n = sent + 1 /\ new.of = p /\ new.at = "server" /\ new \in fetches'
  BY <1>1, <1>2
<1>4. \A d \in fetches : d.n \in Nat /\ d.n <= sent
  BY DEF Typed, FetchRecord, Numbered
<1> HIDE DEF new
<1>5. Numbered'
  BY <1>1, <1>2, <1>3, <1>4 DEF Numbered
<1>6. \A d \in fetches' : d.n <= new.n
  BY <1>1, <1>2, <1>3, <1>4
<1>7. new.n > fresh
  BY <1>1, <1>3 DEF Numbered
<1> QED
  BY <1>3, <1>5, <1>6, <1>7 DEF LatestComing, Latest

\* What a task stores is missing from no list but as what tasks have stored.
LEMMA StoredList ==
    ASSUME Typed, NEW t \in chores, NEW o \in Objects, ChoreStores(t, o), NEW s, ListOf(s)
    PROVE  ListOf(s)'
<1>1. /\ place[o] = "gone" /\ place' = [place EXCEPT ![o] = t.to] /\ UNCHANGED path
      /\ brought' = brought \cup {o}
  BY DEF ChoreStores, Unborn, listing
<1>2. /\ place \in [Objects \cup Folders -> Folders \cup {"gone"}] /\ path \in Paths
      /\ t.to \in Folders
  BY DEF Typed, BrowserTypeOK
<1>3. /\ "gone" \notin Folders /\ "search" \notin Folders
      /\ Folders \cap Objects = {}
  BY BrowserAssumption DEF Folders
<1>4. \A x \in Objects : x # o => place'[x] = place[x]
  BY <1>1, <1>2
<1>5. \A f \in Folders : place'[f] = place[f] /\ (Reached(f)' <=> Reached(f))
  BY <1>1, <1>2, <1>3 DEF Reached
<1>6. place'[o] = t.to
  BY <1>1, <1>2
<1>7. Content(path) \subseteq Content(path)' /\ Content(path)' \subseteq Content(path) \cup {o}
  <2>1. CASE path = "search"
    BY <1>1, <1>3, <1>4, <1>6, <2>1, <1>2 DEF Content
  <2>2. CASE path # "search"
    <3>1. path \in Folders
      BY <1>2, <2>2 DEF Paths
    <3> QED
      BY <1>1, <1>3, <1>4, <1>5, <2>2, <3>1 DEF Content
  <2> QED
    BY <2>1, <2>2
<1> QED
  BY <1>1, <1>7 DEF ListOf

\* An event that leaves what is asked for alone, and leaves right what was right.
LEMMA ListAlone ==
    ASSUME ListInv, Typed', UNCHANGED <<path, shown, fetches, fresh, parent>>,
           sent' \in {sent, sent + 1}, slips \subseteq slips',
           \A s : Due \/ ListOf(s) => Due' \/ ListOf(s)'
    PROVE  ListInv'
<1>1. Numbered'
  <2>1. sent \in Nat /\ sent' \in Nat /\ sent <= sent' /\ fresh \in Nat
    BY DEF ListInv, Typed
  <2>2. \A c \in fetches : c.n \in Nat
    BY DEF ListInv, Typed, FetchRecord
  <2> QED
    BY <2>1, <2>2 DEF ListInv, Numbered
<1>2. LatestComing => LatestComing'
  BY DEF LatestComing, Latest
<1>3. LatestShown => LatestShown'
  BY DEF LatestShown
<1> QED
  BY <1>1, <1>2, <1>3 DEF ListInv, Calm

\* The same, when the server is left alone, too.
LEMMA ServerAlone ==
    ASSUME UNCHANGED <<path, place, brought>>, Due => Due'
    PROVE  \A s : (Due \/ ListOf(s) => Due' \/ ListOf(s)')
<1>1. \A p : Content(p)' = Content(p)
  BY DEF Content, Reached
<1> QED
  BY <1>1 DEF ListOf

\* An event that asks for the list of the path it sets.
LEMMA ListAsked ==
    ASSUME ListInv, Typed', NEW p \in Paths, Fetch(p), path' = p, fresh' = fresh
    PROVE  ListInv'
  BY Asked DEF ListInv

LEMMA ServedList ==
    ASSUME ListInv, Typed', NEW c \in fetches, FetchServed(c)
    PROVE  ListInv'
<1>0. PICK new : new = [c EXCEPT !.at = "client", !.got = Content(c.of)]
  OBVIOUS
<1>1. c \in FetchRecord /\ Typed /\ Numbered
  BY DEF ListInv, Typed
<1>2. new.n = c.n /\ new.of = c.of /\ new.got = Content(c.of) /\ new.at = "client"
  BY <1>0, <1>1 DEF FetchRecord
<1>3. /\ fetches' = (fetches \ {c}) \cup {new}
      /\ UNCHANGED <<path, shown, fresh, parent, storage, sent>>
  BY <1>0 DEF FetchServed
<1>4. Numbered'
  BY <1>1, <1>2, <1>3 DEF Numbered
<1>5. /\ \A p : Content(p)' = Content(p)
      /\ \A s : ListOf(s)' <=> ListOf(s)
  BY <1>3 DEF Content, Reached, storage, ListOf
<1>6. slips' = slips /\ (Due' <=> Due)
  BY DEF FetchServed, dialogs, Due
<1>7. ASSUME LatestComing
      PROVE  LatestComing'
  <2>1. PICK x \in fetches : Latest(x) /\ (x.at = "client" => Due \/ ListOf(x.got))
    BY <1>7 DEF LatestComing
  <2>2. \A d \in fetches' : d.n <= x.n
    BY <1>2, <1>3, <2>1 DEF Latest
  <2>3. CASE x = c
    <3>1. new \in fetches' /\ Latest(new)'
      BY <1>2, <1>3, <2>1, <2>2, <2>3 DEF Latest
    <3>2. ListOf(new.got)'
      BY <1>2, <1>3, <1>5, <2>1, <2>3 DEF Latest, ListOf
    <3> QED
      BY <3>1, <3>2 DEF LatestComing
  <2>4. CASE x # c
    <3>1. x \in fetches' /\ Latest(x)'
      BY <1>3, <2>1, <2>2, <2>4 DEF Latest
    <3> QED
      BY <1>5, <1>6, <2>1, <3>1 DEF LatestComing
  <2> QED
    BY <2>3, <2>4
<1>8. LatestShown => LatestShown'
  BY <1>2, <1>3, <1>5, <1>6 DEF LatestShown
<1> QED
  BY <1>4, <1>6, <1>7, <1>8 DEF ListInv, Calm

LEMMA AnsweredList ==
    ASSUME ListInv, Typed', NEW c \in fetches, FetchAnswered(c)
    PROVE  ListInv'
<1>1. c \in FetchRecord /\ Typed /\ Numbered /\ \A d \in fetches : d.n \in Nat
  BY DEF ListInv, Typed, FetchRecord
<1>2. /\ fetches' = fetches \ {c} /\ shown' = c.got /\ fresh' = c.n /\ c.at = "client"
      /\ parent' = c.of /\ UNCHANGED <<path, storage, sent>>
  BY DEF FetchAnswered
<1>3. Numbered'
  BY <1>1, <1>2 DEF Numbered
<1>4. \A s : ListOf(s)' <=> ListOf(s)
  BY <1>2 DEF Content, Reached, storage, ListOf
<1>5. Calm' => Calm /\ ~(c.n < fresh)
  BY DEF FetchAnswered, Calm
<1>6. Due' <=> Due
  BY DEF FetchAnswered, dialogs, Due
<1>7. LatestShown => c.n < fresh
  BY DEF LatestShown
<1>8. ASSUME LatestComing
      PROVE  LatestComing' \/ LatestShown'
  <2>1. PICK x \in fetches : Latest(x) /\ (x.at = "client" => Due \/ ListOf(x.got))
    BY <1>8 DEF LatestComing
  <2>2. \A d \in fetches : d # x => d.n < x.n
    BY <1>1, <2>1 DEF Numbered, Latest
  <2>3. CASE x = c
    <3>1. parent' = path' /\ \A d \in fetches' : d.n < fresh'
      BY <1>2, <2>1, <2>2, <2>3 DEF Latest
    <3> QED
      BY <1>2, <1>4, <1>6, <2>1, <2>3, <3>1 DEF LatestShown
  <2>4. CASE x # c
    <3>1. x \in fetches' /\ Latest(x)'
      BY <1>1, <1>2, <2>1, <2>2, <2>4 DEF Latest
    <3> QED
      BY <1>4, <1>6, <2>1, <3>1 DEF LatestComing
  <2> QED
    BY <2>3, <2>4
<1> QED
  BY <1>3, <1>5, <1>7, <1>8 DEF ListInv

\* A change made is followed by a refresh, and nothing else changes the server.
LEMMA ServedWork ==
    ASSUME ListInv, Typed', NEW w \in works, WorkServed(w)
    PROVE  ListInv'
<1>1. w \in WorkRecord
  BY DEF ListInv, Typed
<1> DEFINE new == [w EXCEPT !.served = TRUE]
<1>2. new.served = TRUE /\ new.do = w.do
  BY <1>1 DEF WorkRecord
<1>3. works' = (works \ {w}) \cup {new} /\ ~w.served /\ timers' = timers
  BY DEF WorkServed
<1>4. UNCHANGED <<path, shown, fetches, fresh, parent, sent, slips, brought>>
  BY DEF WorkServed, listing
<1> HIDE DEF new
<1>5. Due => Due'
  BY <1>3 DEF Due
<1>6. CASE DialogOf[w.do].then \in {"refresh", "refresh later"}
  <2>1. Due'
    BY <1>2, <1>3, <1>6 DEF Due
  <2> QED
    BY <1>4, <2>1, ListAlone
<1>7. CASE DialogOf[w.do].then \notin {"refresh", "refresh later"}
  <2>1. w.do \notin {"remove", "move", "rename", "folder", "file", "copy"}
    BY <1>1, <1>7, DialogNames DEF WorkRecord
  <2>2. place' = [x \in Objects \cup Folders |-> place[x]]
    BY <2>1 DEF WorkServed
  <2>3. place' = place
    BY <2>2 DEF ListInv, Typed, BrowserTypeOK
  <2> QED
    BY <1>4, <1>5, <2>3, ListAlone, ServerAlone
<1> QED
  BY <1>6, <1>7

LEMMA AnsweredWork ==
    ASSUME ListInv, Typed', NEW w \in works, WorkAnswered(w)
    PROVE  ListInv'
<1>1. w \in WorkRecord /\ path \in Paths
  BY DEF ListInv, Typed, BrowserTypeOK, Paths
<1>2. CASE DialogOf[w.do].then = "refresh"
  <2>1. Fetch(path) /\ path' = path /\ fresh' = fresh
    BY <1>2 DEF WorkAnswered, RefreshList
  <2> QED
    BY <1>1, <2>1, ListAsked
<1>3. CASE DialogOf[w.do].then = "refresh later"
  <2>1. timers' > 0
    <3>1. timers' = timers + 1 /\ timers \in Nat
      BY <1>3 DEF WorkAnswered, ListInv, Typed
    <3> QED
      BY <3>1
  <2>2. Due'
    BY <2>1 DEF Due
  <2>3. UNCHANGED <<path, shown, fetches, fresh, parent, sent, slips>>
    BY <1>3 DEF WorkAnswered
  <2> QED
    BY <2>2, <2>3, ListAlone
<1>4. CASE DialogOf[w.do].then \notin {"refresh", "refresh later"}
  <2>1. timers' = timers /\ works' = works \ {w}
    BY <1>4 DEF WorkAnswered
  <2>2. Due => Due'
    BY <1>4, <2>1 DEF Due
  <2>3. UNCHANGED <<path, shown, fetches, fresh, parent, place, brought, sent, slips>>
    BY <1>4 DEF WorkAnswered, storage
  <2> QED
    BY <2>2, <2>3, ListAlone, ServerAlone
<1> QED
  BY <1>2, <1>3, <1>4

\* A failure is the end of calm.
LEMMA FailedList ==
    ASSUME ListInv, Typed', fetches' \subseteq fetches, UNCHANGED <<fresh, sent>>,
           "failed" \in slips'
    PROVE  ListInv'
  BY DEF ListInv, Numbered, Calm

LEMMA ListStep == ListInv /\ Step => ListInv'
<1> SUFFICES ASSUME ListInv, Step
             PROVE  ListInv'
  OBVIOUS
<1>0. Typed /\ Typed' /\ path \in Paths
  BY TypedStep DEF ListInv, Typed, BrowserTypeOK, Paths
<1>1. CASE \E f \in Folders : Navigate(f)
  BY <1>0, <1>1, ListAsked DEF Navigate, Paths
<1>2. CASE SearchFiles
  BY <1>0, <1>2, ListAsked DEF SearchFiles, Paths
<1>3. CASE RefreshFiles \/ RefreshByMenu \/ RefreshTimer
  BY <1>0, <1>3, ListAsked DEF RefreshFiles, RefreshByMenu, RefreshTimer, RefreshList
<1>4. CASE NavigateHere \/ PickNone \/ TurnPage \/ \E size \in PageSizes : ChangePageSize(size)
  <2>1. UNCHANGED <<path, shown, fetches, fresh, parent, place, brought, sent, slips, works,
                  timers>>
    BY <1>4
    DEF NavigateHere, PickNone, TurnPage, ChangePageSize, dialogs, listing, storage
  <2> QED
    BY <1>0, <2>1, ListAlone, ServerAlone DEF Due
<1>5. CASE PickAll \/ PickPage \/ \E o \in Objects : PickFile(o)
  <2>1. /\ UNCHANGED <<path, shown, fetches, fresh, parent, place, brought, works, timers>>
        /\ sent' \in {sent, sent + 1} /\ slips \subseteq slips'
    BY <1>5 DEF PickAll, PickPage, PickFile, dialogs, listing, storage
  <2> QED
    BY <1>0, <2>1, ListAlone, ServerAlone DEF Due
<1>6. CASE \E c \in fetches : FetchServed(c)
  BY <1>0, <1>6, ServedList
<1>7. CASE \E c \in fetches : FetchAnswered(c)
  BY <1>0, <1>7, AnsweredList
<1>8. CASE \E c \in fetches : FetchFailed(c)
  BY <1>0, <1>8, FailedList DEF FetchFailed
<1>9. CASE \/ \E d \in DOMAIN DialogOf : \/ OpenDialog(d) \/ OpenEmptyDialog(d)
                                         \/ OpenFolderDialog(d)
           \/ CloseDialog \/ \E a \in asking : RefuseEncoding(a)
  <2>1. /\ UNCHANGED <<path, shown, fetches, fresh, parent, place, brought, sent, works, timers>>
        /\ slips \subseteq slips'
    BY <1>9 DEF CloseDialog, OpenDialog, OpenEmptyDialog, OpenFolderDialog, Opened,
                RefuseEncoding, listing, storage
  <2> QED
    BY <1>0, <2>1, ListAlone, ServerAlone DEF Due
<1>10. CASE \/ \E objs \in SUBSET picked, to \in Folders \cup {path} : SubmitDialog(objs, to)
            \/ \E o \in Objects, to \in Folders : DragMove(o, to)
            \/ \E a \in asking : ChooseEncoding(a)
  <2>1. /\ UNCHANGED <<path, shown, fetches, fresh, parent, place, brought, timers>>
        /\ sent' \in {sent, sent + 1} /\ slips \subseteq slips' /\ works \subseteq works'
    BY <1>10 DEF SubmitDialog, DragMove, ChooseEncoding, Work, listing, storage
  <2> QED
    BY <1>0, <2>1, ListAlone, ServerAlone DEF Due
<1>11. CASE \E w \in works : WorkServed(w)
  BY <1>0, <1>11, ServedWork
<1>12. CASE \E w \in works : WorkAnswered(w)
  BY <1>0, <1>12, AnsweredWork
<1>13. CASE \E w \in works : WorkFailed(w)
  BY <1>0, <1>13, FailedList DEF WorkFailed, listing
<1>14. CASE UNCHANGED browserVars
  <2>1. UNCHANGED <<path, shown, fetches, fresh, parent, place, brought, sent, slips, works,
                  timers>>
    BY <1>14 DEF browserVars, listing, dialogs, storage
  <2> QED
    BY <1>0, <2>1, ListAlone, ServerAlone DEF Due
<1>15. ASSUME NEW t \in chores, NEW o \in Objects, ChoreStores(t, o)
       PROVE  ListInv'
  <2>1. UNCHANGED <<path, shown, fetches, fresh, parent, sent, slips, works, timers>>
    BY <1>15 DEF ChoreStores, dialogs, listing
  <2>2. \A s : ListOf(s) => ListOf(s)'
    BY <1>0, <1>15, StoredList
  <2>3. Due => Due'
    BY <2>1 DEF Due
  <2> QED
    BY <1>0, <2>1, <2>2, <2>3, ListAlone
<1>16. CASE \E t \in chores : ChoreEnds(t)
  <2>1. UNCHANGED <<path, shown, fetches, fresh, parent, place, brought, sent, slips, works,
                  timers>>
    BY <1>16 DEF ChoreEnds, dialogs, listing
  <2> QED
    BY <1>0, <2>1, ListAlone, ServerAlone DEF Due
<1> QED
  BY <1>1, <1>2, <1>3, <1>4, <1>5, <1>6, <1>7, <1>8, <1>9, <1>10, <1>11, <1>12, <1>13,
     <1>14,
     <1>15, <1>16 DEF Step, BrowserNext

LEMMA ListStart == BrowserInit => ListInv
<1> SUFFICES ASSUME BrowserInit
             PROVE  ListInv
  OBVIOUS
<1> DEFINE first == [n |-> 1, of |-> path, got |-> {}, at |-> "server"]
<1>1. fetches = {first} /\ sent = 1 /\ fresh = 0
  BY DEF BrowserInit
<1>2. first.n = 1 /\ first.of = path /\ first.at = "server"
  OBVIOUS
<1> HIDE DEF first
<1>3. Numbered /\ LatestComing
  BY <1>1, <1>2 DEF Numbered, LatestComing, Latest
<1> QED
  BY <1>3, TypedInit DEF ListInv

\* BrowserSpec => []FolderShown: when nothing is under way any more, the list is that of
\* the path as the server has it, but for what tasks have stored, unless lists overtook one
\* another or requests failed.
THEOREM Listed == BrowserSpec => []FolderShown
<1>1. ListInv => FolderShown
  <2> SUFFICES ASSUME ListInv, fetches = {}, works = {}, timers = 0, Calm
               PROVE  ListOf(shown)
    BY DEF FolderShown, Calm, ListOf
  <2>1. ~Due /\ ~LatestComing
    BY DEF Due, LatestComing
  <2> QED
    BY <2>1 DEF ListInv, LatestShown
<1> QED
  BY <1>1, ListStart, ListStep, PTL DEF BrowserSpec, Step

\* BrowserSpec => []PickedShown: over crossing navigations, searches, refreshes and lists
\* that overtake one another, what is selected is in the list, or is the present folder.
THEOREM Picked == BrowserSpec => []PickedShown
<1>1. BrowserInit => PickedInv
  BY DEF BrowserInit, PickedInv, Apart
<1>2. PickedInv /\ ListInv => PickedShown
  <2> SUFFICES ASSUME PickedInv, ListInv, slips \cap {"early", "kept"} = {}, Calm, picked # {}
               PROVE  parent = path
    BY DEF PickedInv, Apart, PickedShown, Calm
  <2>1. fetches = {}
    BY DEF PickedInv, Apart
  <2> QED
    BY <2>1 DEF ListInv, LatestComing, LatestShown
<1> QED
  BY <1>1, <1>2, PickedStep, ListStart, ListStep, PTL DEF BrowserSpec, Step
=============================================================================
