------------------------------ MODULE FileBrowser ------------------------------
(***************************************************************************)
(* The file manager of the web client: the path of the navigator and the   *)
(* list of its objects (component/FileManager/Navigator, redux/explorer),  *)
(* the selection, the pages of the list, and the dialogs that do something *)
(* to what is selected, all in one store (redux).                          *)
(*                                                                         *)
(* One event of the store is one action.  Requests are served and answered *)
(* in any order; a list says nothing of the path it is of, and replaces    *)
(* whatever list there is.                                                 *)
(***************************************************************************)
EXTENDS Integers, FiniteSets

CONSTANTS
    Objects,       \* files and folders, with the names yet to be created
    Home,          \* the folder of each at the beginning, "gone" for the latter; these
                   \* folders are not within one another, and none is the root
    Found,         \* what the search of the user finds
    PageSizes,     \* numbers of objects on a page; -1 shows all
    MaxCalls       \* bound: requests sent, and the shortcuts that select something

Folders == {Home[o] : o \in Objects} \ {"gone"}

ASSUME BrowserAssumption ==
    /\ IsFiniteSet(Objects) /\ Found \subseteq Objects
    /\ Home \in [Objects -> Folders \cup {"gone"}]
    /\ "search" \notin Folders /\ Folders # {} /\ Folders \cap Objects = {}
    /\ PageSizes \subseteq (Nat \ {0}) \cup {-1} /\ PageSizes # {}
    /\ MaxCalls \in Nat

\* on: what it is about; fragile: it reads the first selected object after having set
\* modalsLoading; anywhere: the menu offers it for the results of a search, too; then:
\* what follows its success.
Dialog == [on |-> "all", fragile |-> FALSE, anywhere |-> TRUE, then |-> "refresh"]
RemoveDialog == [Dialog EXCEPT !.then = "refresh later"]
MoveDialog == [Dialog EXCEPT !.fragile = TRUE, !.anywhere = FALSE]
RenameDialog == [Dialog EXCEPT !.on = "first", !.fragile = TRUE]
CreateFolderDialog == [Dialog EXCEPT !.on = "none", !.anywhere = FALSE]
CreateFileDialog == [Dialog EXCEPT !.on = "none", !.anywhere = FALSE]
CopyDialog == [Dialog EXCEPT !.on = "first", !.fragile = TRUE, !.anywhere = FALSE]
CompressDialog == [Dialog EXCEPT !.then = "close"]
DecompressDialog == [Dialog EXCEPT !.on = "first", !.then = "close"]
ShareDialog == [Dialog EXCEPT !.on = "first", !.fragile = TRUE, !.then = "stay"]
DownloadDialog == [Dialog EXCEPT !.on = "none", !.anywhere = FALSE, !.then = "close"]

DialogOf == [remove |-> RemoveDialog, move |-> MoveDialog, rename |-> RenameDialog,
             folder |-> CreateFolderDialog, file |-> CreateFileDialog, copy |-> CopyDialog,
             compress |-> CompressDialog, decompress |-> DecompressDialog,
             share |-> ShareDialog, download |-> DownloadDialog]

VARIABLES
    path,         \* of the navigator; "search" for the results of a search
    shown,        \* dirList and fileList
    picked,       \* selected
    spinning,     \* navigatorLoading
    failing,      \* navigatorError
    paging,       \* pagination
    dialog,       \* the dialog that is open, or "none"
    asking,       \* modals.option: the decompression that waits for an encoding
    modalsLoading,
    parent,       \* currentID: the folder of the latest list shown, "search" if none
    place,        \* the server: the folder of every object; of a folder, itself until it
                  \* is deleted, moved or renamed
    chores,       \* tasks that requests have started
    brought,      \* objects that tasks have stored
    fetches,      \* lists under way
    works,        \* requests of dialogs under way
    timers,       \* delayed refreshes after deletions
    sent,
    fresh,        \* the number of the latest list shown
    slips         \* what the program lets happen: see the actions that add to it

listing == <<path, shown, spinning, failing, paging, fetches, fresh, parent>>
dialogs == <<dialog, asking, modalsLoading, works, timers>>
storage == <<place, chores, brought>>
browserVars == <<listing, dialogs, picked, storage, sent, slips>>

Reached(f) == place[f] = f
Content(p) == {o \in Objects : IF p = "search" THEN o \in Found /\ place[o] # "gone"
                               ELSE place[o] = p /\ Reached(p)}
LastPage(s, size) ==
    LET n == Cardinality(s) IN IF n = 0 \/ size = -1 THEN 1 ELSE (n + size - 1) \div size

BrowserInit ==
    /\ path \in Folders /\ shown = {} /\ picked = {} /\ spinning = TRUE /\ failing = FALSE
    /\ paging \in [page : {1}, size : PageSizes]
    /\ dialog = "none" /\ asking = {} /\ modalsLoading = FALSE /\ parent = "search"
    /\ place = [x \in Objects \cup Folders |-> IF x \in Folders THEN x ELSE Home[x]]
    /\ chores = {} /\ brought = {}
    /\ fetches = {[n |-> 1, of |-> path, got |-> {}, at |-> "server"]}
    /\ works = {} /\ timers = 0 /\ sent = 1 /\ fresh = 0 /\ slips = {}

\* renderPath: asks for the list of a path.
Fetch(p) ==
    /\ sent' = sent + 1
    /\ fetches' = fetches \cup {[n |-> sent', of |-> p, got |-> {}, at |-> "server"]}
    /\ failing' = FALSE

\* Seeded fault: what was selected stays selected.
NavigateKeeping(f) ==
    /\ f \in Folders /\ f # path /\ path' = f
    /\ sent < MaxCalls /\ Fetch(f) /\ spinning' = TRUE
    /\ paging' = [paging EXCEPT !.page = 1]
    /\ UNCHANGED <<shown, picked, fresh, parent, dialogs, storage, slips>>

\* navigateTo, navigateUp, going back in the browser.
Navigate(f) ==
    /\ f \in Folders /\ f # path /\ path' = f
    /\ sent < MaxCalls /\ Fetch(f) /\ spinning' = TRUE
    /\ paging' = [paging EXCEPT !.page = 1]
    /\ picked' = {}
    /\ UNCHANGED <<shown, fresh, parent, dialogs, storage, slips>>

\* The same to where one is: nothing is loaded, and the view does not wait for what is
\* being loaded.
NavigateHere ==
    /\ path # "search"
    /\ picked' = {} /\ spinning' = FALSE /\ failing' = FALSE
    /\ UNCHANGED <<path, shown, paging, fetches, fresh, parent, dialogs, storage, sent, slips>>

SearchFiles ==
    /\ path' = "search" /\ picked' = {}
    /\ sent < MaxCalls /\ Fetch("search") /\ spinning' = TRUE
    /\ UNCHANGED <<shown, paging, fresh, parent, dialogs, storage, slips>>

\* REFRESH_FILE_LIST, and redresh of the navigator.
RefreshList == picked' = {} /\ Fetch(path) /\ spinning' = TRUE

RefreshFiles ==
    /\ sent < MaxCalls /\ RefreshList
    /\ UNCHANGED <<path, shown, paging, fresh, parent, dialogs, storage, slips>>

\* The menu of the present folder calls redresh alone, and leaves the selection.
RefreshByMenu ==
    /\ sent < MaxCalls /\ Fetch(path) /\ spinning' = TRUE
    /\ slips' = IF picked # {} THEN slips \cup {"kept"} ELSE slips
    /\ UNCHANGED <<path, shown, picked, paging, fresh, parent, dialogs, storage>>

\* A folder that is no longer where it was cannot be listed.
FetchServed(c) ==
    /\ c \in fetches /\ c.at = "server" /\ (c.of # "search" => Reached(c.of))
    /\ fetches' = (fetches \ {c}) \cup {[c EXCEPT !.at = "client", !.got = Content(c.of)]}
    /\ UNCHANGED <<path, shown, spinning, failing, paging, fresh, parent, dialogs, picked, storage,
                   sent, slips>>

\* Seeded fault: the page is left as it is.
FetchAnsweredUnclamped(c) ==
    /\ c \in fetches /\ c.at = "client" /\ fetches' = fetches \ {c}
    /\ shown' = c.got /\ spinning' = FALSE /\ fresh' = c.n /\ parent' = c.of
    /\ slips' = IF c.n < fresh THEN slips \cup {"overtaken"} ELSE slips
    /\ UNCHANGED <<path, failing, paging, dialogs, picked, storage, sent>>

\* updateFileList.
FetchAnswered(c) ==
    /\ c \in fetches /\ c.at = "client" /\ fetches' = fetches \ {c}
    /\ shown' = c.got /\ spinning' = FALSE /\ fresh' = c.n /\ parent' = c.of
    /\ paging' = IF paging.page * paging.size > Cardinality(c.got)
                 THEN [paging EXCEPT !.page = LastPage(c.got, paging.size)] ELSE paging
    /\ slips' = IF c.n < fresh THEN slips \cup {"overtaken"} ELSE slips
    /\ UNCHANGED <<path, failing, dialogs, picked, storage, sent>>

FetchFailed(c) ==
    /\ c \in fetches /\ fetches' = fetches \ {c}
    /\ failing' = TRUE /\ slips' = slips \cup {"failed"}
    /\ UNCHANGED <<path, shown, spinning, paging, fresh, parent, dialogs, picked, storage, sent>>

-----------------------------------------------------------------------------
(* The selection and the pages.                                            *)

Visible == ~spinning /\ dialog = "none"

\* selectFile: alone, with the others, or with all from the last one selected to it.
PickFile(o) ==
    /\ Visible /\ o \in shown
    /\ \/ picked' = {o}
       \/ picked' = picked \cup {o}
       \/ picked' = picked \ {o}
       \/ \E s \in SUBSET shown : o \in s /\ picked # {} /\ picked' = s
    /\ slips' = IF fetches # {} /\ picked' # {} THEN slips \cup {"early"} ELSE slips
    /\ UNCHANGED <<listing, dialogs, storage, sent>>

\* selectAll by the keyboard, which works while the list is hidden, too.
PickAll ==
    /\ sent < MaxCalls /\ sent' = sent + 1
    /\ picked' = IF Cardinality(picked) >= Cardinality(shown) THEN {} ELSE shown
    /\ slips' = IF fetches # {} /\ picked' # {} THEN slips \cup {"early"} ELSE slips
    /\ UNCHANGED <<listing, dialogs, storage>>

\* The number of objects on the page that is shown.
OnPage ==
    LET left == Cardinality(shown) - (paging.page - 1) * paging.size
    IN IF paging.size = -1 \/ left < paging.size THEN left ELSE paging.size

\* The same with the objects of the page, whichever these are in the order of the list.
PickPage ==
    /\ sent < MaxCalls /\ sent' = sent + 1
    /\ \E s \in SUBSET shown :
          /\ Cardinality(s) = OnPage
          /\ picked' = IF Cardinality(picked) >= OnPage THEN {} ELSE s
    /\ slips' = IF fetches # {} /\ picked' # {} THEN slips \cup {"early"} ELSE slips
    /\ UNCHANGED <<listing, dialogs, storage>>

PickNone ==
    /\ picked' = {}
    /\ UNCHANGED <<listing, dialogs, storage, sent, slips>>

TurnPage ==
    /\ ~spinning
    /\ \E p \in 1 .. LastPage(shown, paging.size) : paging' = [paging EXCEPT !.page = p]
    /\ UNCHANGED <<path, shown, spinning, failing, fetches, fresh, parent, dialogs, picked, storage,
                   sent, slips>>

ChangePageSize(size) ==
    /\ paging' = [size |-> size,
                  page |-> IF paging.page * size > Cardinality(shown)
                           THEN LastPage(shown, size)
                           ELSE IF size = -1 THEN 1 ELSE paging.page]
    /\ UNCHANGED <<path, shown, spinning, failing, fetches, fresh, parent, dialogs, picked, storage,
                   sent, slips>>

-----------------------------------------------------------------------------
(* The dialogs.                                                            *)

Opened(d) ==
    /\ dialog = "none" /\ (DialogOf[d].anywhere \/ path # "search")
    /\ dialog' = d
    /\ UNCHANGED <<listing, asking, modalsLoading, works, timers, storage, sent>>

\* The menu of what is selected; a key opens the dialog of deletion, too.
OpenDialog(d) ==
    /\ d \in DOMAIN DialogOf /\ Opened(d)
    /\ \/ DialogOf[d].on = "all" /\ picked # {}
       \/ DialogOf[d].on = "first" /\ Cardinality(picked) = 1
    /\ d = "remove" \/ ~spinning
    /\ UNCHANGED <<picked, slips>>

\* The menu of the folder.
OpenEmptyDialog(d) ==
    /\ d \in DOMAIN DialogOf /\ Opened(d)
    /\ DialogOf[d].on = "none"
    /\ UNCHANGED <<picked, slips>>

\* The menu of the present folder selects that folder, or rather the one of the list shown.
OpenFolderDialog(d) ==
    /\ d \in {"share", "compress"} /\ Opened(d) /\ path # "search"
    /\ picked' = {parent}
    /\ slips' = IF fetches # {} THEN slips \cup {"early"} ELSE slips

\* CLOSE_ALL_MODALS, by the user or - over the question for the encoding, which then is
\* never answered - by a download that has got ready.
CloseDialog ==
    /\ dialog # "none" /\ dialog' = "none" /\ asking' = {}
    /\ slips' = IF asking # {} THEN slips \cup {"dropped"} ELSE slips
    /\ UNCHANGED <<listing, modalsLoading, works, timers, picked, storage, sent>>

Work(do, objs, to) ==
    works' = works \cup {[n |-> sent', do |-> do, objs |-> objs, to |-> to, served |-> FALSE]}

\* What is put somewhere: by the request, or by a task that it starts.
Tasks == {"compress", "decompress", "download"}
Puts == {"move", "copy", "folder", "file"} \cup Tasks

\* submitRemove, submitMove, submitRename, ...: to is where a thing goes.  Decompressing
\* fails at once with nothing selected, and asks for the encoding of some archives first.
SubmitDialog(objs, to) ==
    /\ dialog \in DOMAIN DialogOf /\ ~modalsLoading /\ asking = {}
    /\ dialog = "decompress" => picked # {}
    /\ modalsLoading' = TRUE
    /\ CASE DialogOf[dialog].on = "all" -> objs = picked
         [] DialogOf[dialog].on = "none" -> objs = {}
         [] OTHER -> objs \subseteq picked /\ Cardinality(objs) = (IF picked = {} THEN 0 ELSE 1)
    /\ to \in IF dialog \in {"move", "copy"} \cup Tasks THEN Folders ELSE {path}
    /\ IF DialogOf[dialog].fragile /\ picked = {}
       THEN slips' = slips \cup {"crashed"} /\ UNCHANGED <<works, sent, asking>>
       ELSE /\ UNCHANGED slips
            /\ \/ /\ sent < MaxCalls /\ sent' = sent + 1
                  /\ Work(dialog, objs, to) /\ UNCHANGED asking
               \/ /\ dialog = "decompress" /\ asking' = {[objs |-> objs, to |-> to]}
                  /\ UNCHANGED <<works, sent>>
    /\ UNCHANGED <<listing, dialog, timers, picked, storage>>

\* submitDecompressTask, once it has its encoding ...
ChooseEncoding(a) ==
    /\ a \in asking /\ asking' = {}
    /\ sent < MaxCalls /\ sent' = sent + 1
    /\ Work("decompress", a.objs, a.to)
    /\ UNCHANGED <<listing, dialog, modalsLoading, timers, picked, storage, slips>>

\* ... or is refused one.
RefuseEncoding(a) ==
    /\ a \in asking /\ asking' = {} /\ modalsLoading' = FALSE
    /\ UNCHANGED <<listing, dialog, works, timers, picked, storage, sent, slips>>

\* dragMove: what is selected, or else what is dragged.
DragMove(o, to) ==
    /\ Visible /\ o \in shown /\ to \in Folders \ {path} /\ sent < MaxCalls /\ sent' = sent + 1
    /\ picked' = IF picked = {} THEN {o} ELSE picked
    /\ dialog' = "loading" /\ modalsLoading' = TRUE
    /\ Work("move", picked', to)
    /\ slips' = IF fetches # {} THEN slips \cup {"early"} ELSE slips
    /\ UNCHANGED <<listing, asking, timers, storage>>

Unborn == {o \in Objects : place[o] = "gone" /\ Home[o] = "gone"}

\* Only what is in the source folder is moved, that of the first selected object when it was
\* listed; a folder goes with all that is in it.
WorkServed(w) ==
    /\ w \in works /\ ~w.served
    /\ w.do \in Puts => w.to \in Folders /\ Reached(w.to) /\ (w.do = "move" => w.to \notin w.objs)
    /\ works' = (works \ {w}) \cup {[w EXCEPT !.served = TRUE]}
    /\ \E src \in {f \in Folders : Reached(f)} \cup {"above"},
          born \in {s \in SUBSET Unborn : Cardinality(s) <= 1} :
          place' = [x \in Objects \cup Folders |->
              CASE w.do = "remove" /\ {x, place[x]} \cap w.objs # {} -> "gone"
                [] w.do = "move" /\ x \in w.objs \cap Objects /\ place[x] = src -> w.to
                [] x \in w.objs \cap Folders
                     /\ (w.do = "rename" \/ (w.do = "move" /\ src = "above")) -> "gone"
                [] w.do \in {"folder", "file", "copy"} /\ x \in born -> w.to
                [] OTHER -> place[x]]
    /\ chores' = IF w.do \in Tasks THEN chores \cup {[n |-> w.n, to |-> w.to]} ELSE chores
    /\ UNCHANGED <<listing, dialog, asking, modalsLoading, timers, picked, brought, sent, slips>>

\* A task, which stores one object after the other and ends or fails some time after the
\* answer, and whose end nobody tells the page.
ChoreStores(t, o) ==
    /\ t \in chores /\ o \in Unborn /\ Reached(t.to)
    /\ place' = [place EXCEPT ![o] = t.to] /\ brought' = brought \cup {o}
    /\ UNCHANGED <<listing, dialogs, picked, chores, sent, slips>>

ChoreEnds(t) ==
    /\ t \in chores /\ chores' = chores \ {t}
    /\ UNCHANGED <<listing, dialogs, picked, place, brought, sent, slips>>

\* Seeded fault: the list is not loaded again.
WorkAnsweredQuietly(w) ==
    /\ w \in works /\ w.served /\ works' = works \ {w}
    /\ modalsLoading' = FALSE /\ dialog' = "none" /\ asking' = {}
    /\ timers' = timers
    /\ UNCHANGED <<listing, picked, storage, sent, slips>>

WorkAnswered(w) ==
    /\ w \in works /\ w.served /\ works' = works \ {w}
    /\ modalsLoading' = FALSE
    /\ IF DialogOf[w.do].then = "stay" THEN UNCHANGED <<dialog, asking>>
       ELSE dialog' = "none" /\ asking' = {}
    /\ timers' = IF DialogOf[w.do].then = "refresh later" THEN timers + 1 ELSE timers
    /\ IF DialogOf[w.do].then = "refresh" THEN RefreshList
       ELSE UNCHANGED <<picked, fetches, failing, spinning, sent>>
    /\ UNCHANGED <<path, shown, paging, fresh, parent, storage, slips>>

\* Seeded fault: only a success enables the buttons of the dialogs again.
WorkFailedHeld(w) ==
    /\ w \in works /\ works' = works \ {w}
    /\ IF w.do = "move" THEN dialog' = "none" /\ asking' = {} ELSE UNCHANGED <<dialog, asking>>
    /\ slips' = slips \cup {"failed"}
    /\ UNCHANGED <<listing, modalsLoading, timers, picked, storage, sent>>

WorkFailed(w) ==
    /\ w \in works /\ works' = works \ {w}
    /\ modalsLoading' = FALSE
    /\ IF w.do = "move" THEN dialog' = "none" /\ asking' = {} ELSE UNCHANGED <<dialog, asking>>
    /\ slips' = slips \cup {"failed"}
    /\ UNCHANGED <<listing, timers, picked, storage, sent>>

\* Half a second after a deletion, whatever the user does by then.
RefreshTimer ==
    /\ timers > 0 /\ timers' = timers - 1
    /\ RefreshList
    /\ UNCHANGED <<path, shown, paging, fresh, parent, dialog, asking, modalsLoading, works,
                   storage, slips>>

BrowserNext ==
    \/ \E f \in Folders : Navigate(f)
    \/ NavigateHere \/ SearchFiles \/ RefreshFiles \/ RefreshByMenu
    \/ \E c \in fetches : FetchServed(c) \/ FetchAnswered(c) \/ FetchFailed(c)
    \/ \E o \in Objects : PickFile(o)
    \/ PickAll \/ PickPage \/ PickNone \/ TurnPage
    \/ \E size \in PageSizes : ChangePageSize(size)
    \/ \E d \in DOMAIN DialogOf : OpenDialog(d) \/ OpenEmptyDialog(d) \/ OpenFolderDialog(d)
    \/ CloseDialog
    \/ \E objs \in SUBSET picked, to \in Folders \cup {path} : SubmitDialog(objs, to)
    \/ \E a \in asking : ChooseEncoding(a) \/ RefuseEncoding(a)
    \/ \E o \in Objects, to \in Folders : DragMove(o, to)
    \/ \E w \in works : WorkServed(w) \/ WorkAnswered(w) \/ WorkFailed(w)
    \/ \E t \in chores : ChoreEnds(t) \/ \E o \in Objects : ChoreStores(t, o)
    \/ RefreshTimer

BrowserSpec == BrowserInit /\ [][BrowserNext]_browserVars

-----------------------------------------------------------------------------
Paths == Folders \cup {"search"}

BrowserTypeOK ==
    /\ path \in Paths /\ parent \in Paths
    /\ shown \subseteq Objects /\ picked \subseteq Objects \cup Paths
    /\ paging \in [page : Nat \ {0}, size : PageSizes]
    /\ dialog \in {"none", "loading"} \cup DOMAIN DialogOf
    /\ place \in [Objects \cup Folders -> Folders \cup {"gone"}] /\ brought \subseteq Objects
    /\ asking \subseteq [objs : SUBSET (Objects \cup Paths), to : Folders]
    /\ chores \subseteq [n : Nat, to : Folders]
    /\ \A b \in {spinning, failing, modalsLoading} : b \in BOOLEAN

(* When nothing is under way any more, the list is that of the path in the  *)
(* navigator, as the server has it - over crossing navigations, searches,   *)
(* refreshes, deletions with their delayed refresh, and moves to and fro -  *)
(* but for objects that tasks have stored: compressing, decompressing and   *)
(* downloads go on after their answer, and no list is loaded for them.      *)
(* Otherwise only lists that overtake one another, and failed requests,     *)
(* break it.                                                                *)
FolderShown ==
    fetches = {} /\ works = {} /\ timers = 0 /\ slips \cap {"overtaken", "failed"} = {} =>
        shown \subseteq Content(path) /\ Content(path) \ shown \subseteq brought

(* What is selected is in the list, or is the present folder, which its     *)
(* menu selects and leaves selected: a dialog is never about objects of a   *)
(* folder that was left, not even when lists overtake one another.  Two     *)
(* things break it: selecting before the new list has come, and the refresh *)
(* of the folder menu, which keeps the selection; and when lists have       *)
(* overtaken one another or failed, the menu takes the folder of the list   *)
(* shown for the present one.                                               *)
PickedShown ==
    slips \cap {"early", "kept"} = {} =>
        \/ picked \subseteq shown \cup {path}
        \/ picked \subseteq shown \cup {parent} /\ slips \cap {"overtaken", "failed"} # {}

(* The buttons of all dialogs share one flag, and whoever waits for its     *)
(* reset has a request under way or is asked for an encoding - unless a     *)
(* dialog has been submitted whose selection a delayed refresh had cleared, *)
(* or all dialogs were closed over that question, which leaves the flag set *)
(* for good.                                                                *)
DialogsFreed ==
    modalsLoading /\ slips \cap {"crashed", "dropped"} = {} => works # {} \/ asking # {}

(* The page shown exists, over lists that shrink and sizes that change.     *)
PageExists == paging.page <= LastPage(shown, paging.size)
=============================================================================
