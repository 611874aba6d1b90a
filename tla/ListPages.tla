------------------------------- MODULE ListPages -------------------------------
(***************************************************************************)
(* The pages of the web client that show a list of the server page by page *)
(* (component/Admin, component/Share, component/Setting): each keeps what  *)
(* it asks for (page, size, order, filter) and what it shows, asks again   *)
(* whenever the former changes and after whatever it has done to a row.    *)
(*                                                                         *)
(* Requests are served and answered in any order.  What a request does when *)
(* it is answered it does with the values the page had when it was sent:   *)
(* q and had of a call.                                                    *)
(***************************************************************************)
EXTENDS Integers, FiniteSets

CONSTANTS
    Rows,         \* ids of what is listed, numbers
    Sizes,        \* sizes of a page
    MaxClicks     \* bound: calls of a list, but those that follow an answer

ASSUME ListAssumption ==
    /\ Rows \subseteq Nat /\ IsFiniteSet(Rows)
    /\ Sizes \subseteq Nat \ {0} /\ Sizes # {}
    /\ MaxClicks \in Nat

\* columns: what it may be ordered by; filters: what it may be narrowed by; tools: whether
\* the user chooses the size of a page and may have it loaded again; acts: what is done to
\* a row; batch: to the selected rows; locks: the buttons wait for the answer; then: what
\* follows the deletion of a row; defers: the server answers a deletion before it deletes.
List == [columns |-> {}, filters |-> {}, tools |-> TRUE, acts |-> {}, batch |-> {},
         locks |-> FALSE, then |-> "reload", defers |-> FALSE]
SelectList == [List EXCEPT !.batch = {"delete"}, !.locks = TRUE]
ShareFilter == {"is_dir", "user_id", "source_name"}

UserFilter == {"group_id", "status", "nick"}
UserColumns == {"id", "nick", "email", "storage"}
UserRow == {"edit", "block", "delete"}
UserList == [SelectList EXCEPT !.columns = UserColumns, !.acts = UserRow, !.filters = UserFilter]
FileFilter == {"policy_id", "user_id", "name"}
FileColumns == {"id", "name", "size"}
FileRow == {"open", "delete"}
FileBatch == {"delete", "force", "unlink"}
FileList == [SelectList EXCEPT !.columns = FileColumns, !.acts = FileRow, !.batch = FileBatch,
                               !.filters = FileFilter, !.defers = TRUE]
ShareColumns == {"id", "source_name", "views", "downloads"}
ShareRow == {"open", "delete"}
ShareList == [SelectList EXCEPT !.columns = ShareColumns, !.acts = ShareRow,
                                !.filters = ShareFilter]
DownloadColumns == {"id", "total_size"}
DownloadRow == {"delete"}
DownloadList == [SelectList EXCEPT !.columns = DownloadColumns, !.acts = DownloadRow,
                                   !.filters = ShareFilter]
TaskColumns == {"id"}
TaskRow == {"delete"}
TaskList == [SelectList EXCEPT !.columns = TaskColumns, !.acts = TaskRow, !.filters = ShareFilter]
GroupRow == {"edit", "delete"}
GroupList == [List EXCEPT !.acts = GroupRow]
PolicyRow == {"edit", "delete"}
PolicyList == [List EXCEPT !.acts = PolicyRow, !.filters = {"type"}]
NodeRow == {"edit", "toggle", "delete"}
NodeList == [List EXCEPT !.acts = NodeRow, !.locks = TRUE]
MyShareOrders == {"id", "views", "downloads"}
MyShareCard == {"open", "permission", "preview", "delete"}
MyShareList == [List EXCEPT !.columns = MyShareOrders, !.tools = FALSE, !.acts = MyShareCard,
                            !.then = "remove"]
SearchCard == {"open"}
SearchList == [List EXCEPT !.columns = MyShareOrders, !.filters = {"keywords"},
                           !.tools = FALSE, !.acts = SearchCard]
TasksList == [List EXCEPT !.tools = FALSE]

ListOf == [user |-> UserList, file |-> FileList, share |-> ShareList,
           download |-> DownloadList, task |-> TaskList, group |-> GroupList,
           policy |-> PolicyList, node |-> NodeList, myshare |-> MyShareList,
           search |-> SearchList, tasks |-> TasksList]

VARIABLES
    list,       \* the list on show
    query,      \* what its controls show
    rows, total, selected,
    waits,      \* its buttons are disabled
    base,       \* what the server holds
    doomed,     \* what it has said it deletes, and does not yet
    calls,      \* requests under way
    clicks,
    newest,     \* the number of the latest list shown
    stray       \* what the program lets happen: see the actions that add to it

listVars == <<list, query, rows, total, selected, waits, base, doomed, calls, clicks,
              newest, stray>>
L == ListOf[list]

SmallestSize == CHOOSE s \in Sizes : \A z \in Sizes : s <= z
FirstQuery == [page |-> 1, size |-> SmallestSize, id |-> TRUE, desc |-> TRUE,
               filter |-> "all"]     \* id: ordered by id

\* The server: whatever is not the id grows the other way.
Matching(q, b) == {r \in b : q.filter = "all" \/ r % 2 = 1}
Before(x, y, q) == IF q.id = q.desc THEN x > y ELSE x < y
Listed(q, b) ==
    LET m == Matching(q, b) IN
    {r \in m : LET n == Cardinality({x \in m : Before(x, r, q)}) IN
               n >= (q.page - 1) * q.size /\ n < q.page * q.size}

Call(do, ids, q) == [n |-> clicks', do |-> do, ids |-> ids, q |-> q, had |-> rows,
                     got |-> {}, all |-> 0, at |-> "server"]
Load(q) == Call("list", {}, q)
Deletions == {"delete", "force", "unlink"}

ListInit ==
    /\ list = "none" /\ query = FirstQuery /\ rows = {} /\ total = 0 /\ selected = {}
    /\ waits = FALSE /\ base = Rows /\ doomed = {} /\ calls = {} /\ clicks = 0 /\ newest = 0
    /\ stray = {}

OpenList(l) ==
    /\ list = "none" /\ list' = l /\ clicks' = 1
    /\ calls' = {Load(query)}
    /\ UNCHANGED <<query, rows, total, selected, waits, base, doomed, newest, stray>>

Click == list # "none" /\ clicks < MaxClicks /\ clicks' = clicks + 1
Pages(size) == IF total = 0 THEN 1 ELSE (total + size - 1) \div size

\* Seeded fault: the list is not loaded for the new query.
ChangeQueryUnloaded(q) ==
    /\ Click /\ q # query /\ query' = q
    /\ UNCHANGED <<list, rows, total, selected, waits, base, doomed, calls, newest, stray>>

\* The effect on page, pageSize, orderBy, filter and search.
ChangeQuery(q) ==
    /\ Click /\ q # query /\ query' = q
    /\ calls' = calls \cup {Load(q)}
    /\ stray' = IF \E c \in calls : c.do # "list" THEN stray \cup {"moved"} ELSE stray
    /\ UNCHANGED <<list, rows, total, selected, waits, base, doomed, newest>>

Turn == \E p \in 1 .. Pages(query.size) : ChangeQuery([query EXCEPT !.page = p])
Resize == L.tools /\ \E s \in Sizes : ChangeQuery([query EXCEPT !.size = s, !.page = 1])
Reorder == \E c \in L.columns :
    ChangeQuery([query EXCEPT !.id = (c = "id"), !.desc = ~@])
Refilter == L.filters # {} /\ \E f \in {"all", "odd"} : ChangeQuery([query EXCEPT !.filter = f])

Refresh ==
    /\ Click /\ L.tools
    /\ calls' = calls \cup {Load(query)}
    /\ UNCHANGED <<list, query, rows, total, selected, waits, base, doomed, newest, stray>>

Select ==
    /\ list # "none" /\ L.batch # {}
    /\ \/ \E r \in rows \cap selected : selected' = selected \ {r}
       \/ \E r \in rows \ selected : selected' = selected \cup {r}
       \/ selected # rows /\ selected' = rows
       \/ selected # {} /\ selected' = {}
    /\ UNCHANGED <<list, query, rows, total, waits, base, doomed, calls, clicks, newest, stray>>

\* A button of a row, or one for all that is selected.
Act(do, ids) ==
    /\ Click /\ ids # {} /\ ~waits
    /\ \/ do \in L.acts \ {"edit", "open"} /\ \E r \in rows : ids = {r}
       \/ do \in L.batch /\ ids = selected
    /\ calls' = calls \cup {Call(do, ids, query)}
    /\ waits' = L.locks
    /\ stray' = IF L.then = "remove" /\ calls # {} THEN stray \cup {"moved"} ELSE stray
    /\ UNCHANGED <<list, query, rows, total, selected, base, doomed, newest>>

\* The files that an administrator deletes are answered for at once, and deleted after.
Serve(c) ==
    /\ c \in calls /\ c.at = "server"
    /\ LET going == IF c.do \in Deletions THEN c.ids \cap base ELSE {} IN
       /\ base' = IF L.defers THEN base ELSE base \ going
       /\ doomed' = IF L.defers THEN doomed \cup going ELSE doomed
    /\ calls' = (calls \ {c}) \cup
                {[c EXCEPT !.at = "client", !.got = Listed(c.q, base),
                           !.all = Cardinality(Matching(c.q, base))]}
    /\ UNCHANGED <<list, query, rows, total, selected, waits, clicks, newest, stray>>

\* The goroutine deletes the files of one user after the other, or cannot.  Unless the
\* list asked for last is still to be made up, the page shows what is no more.
Unseen == \E c \in calls :
    \/ c.do \in Deletions
    \/ /\ c.do = "list" /\ c.at = "server" /\ c.n > newest
       /\ \A d \in calls : d.do = "list" => d.n <= c.n
DeleteDoomed(some) ==
    /\ some # {} /\ some \subseteq doomed /\ doomed' = doomed \ some
    /\ base' \in {base, base \ some}
    /\ stray' = IF base' = base \/ Unseen THEN stray ELSE stray \cup {"late"}
    /\ UNCHANGED <<list, query, rows, total, selected, waits, calls, clicks, newest>>

\* Seeded fault: what was selected stays selected.
ListAnsweredSelected(c) ==
    /\ c \in calls /\ c.at = "client" /\ c.do = "list" /\ calls' = calls \ {c}
    /\ rows' = c.got /\ total' = c.all
    /\ newest' = c.n
    /\ stray' = IF c.n < newest THEN stray \cup {"overtaken"} ELSE stray
    /\ UNCHANGED <<list, query, selected, waits, base, doomed, clicks>>

ListAnswered(c) ==
    /\ c \in calls /\ c.at = "client" /\ c.do = "list" /\ calls' = calls \ {c}
    /\ rows' = c.got /\ total' = c.all /\ selected' = {}
    /\ newest' = c.n
    /\ stray' = IF c.n < newest THEN stray \cup {"overtaken"} ELSE stray
    /\ UNCHANGED <<list, query, waits, base, doomed, clicks>>

\* deletePolicy, deleteBatch, toggleNode: the list is loaded anew, with the query of the
\* time the button was pressed.
ActAnswered(c) ==
    /\ c \in calls /\ c.at = "client" /\ clicks' = clicks + 1
    /\ c.do \notin {"list", "block", "permission", "preview"} /\ L.then = "reload"
    /\ calls' = (calls \ {c}) \cup {Load(c.q)}
    /\ waits' = FALSE
    /\ UNCHANGED <<list, query, rows, total, selected, base, doomed, newest, stray>>

\* block of a user, changePermission and changePreviewOption of a share: the list of the
\* time the button was pressed is put back, with the row changed.
PatchAnswered(c) ==
    /\ c \in calls /\ c.at = "client" /\ c.do \in {"block", "permission", "preview"}
    /\ calls' = calls \ {c}
    /\ rows' = c.had /\ waits' = FALSE
    /\ stray' = IF rows # c.had THEN stray \cup {"putback"} ELSE stray
    /\ UNCHANGED <<list, query, total, selected, base, doomed, clicks, newest>>

\* removeShare takes the share off the list, and loads the first page for an empty one.
RemoveAnswered(c) ==
    /\ c \in calls /\ c.at = "client" /\ c.do = "delete" /\ L.then = "remove"
    /\ rows' = rows \ c.ids /\ total' = total - 1 /\ clicks' = clicks + 1
    /\ calls' = (calls \ {c}) \cup
                IF rows' = {} THEN {Load([query EXCEPT !.page = 1])} ELSE {}
    /\ stray' = IF rows' = {} /\ query.page # 1 THEN stray \cup {"first"} ELSE stray
    /\ UNCHANGED <<list, query, selected, waits, base, doomed, newest>>

\* A request fails, or its answer is lost.
CallFailed(c) ==
    /\ c \in calls /\ calls' = calls \ {c}
    /\ waits' = (waits /\ c.do = "list")
    /\ stray' = stray \cup {"failed"}
    /\ UNCHANGED <<list, query, rows, total, selected, base, doomed, clicks, newest>>

ListNext ==
    \/ \E l \in DOMAIN ListOf : OpenList(l)
    \/ list # "none" /\ (Turn \/ Resize \/ Reorder \/ Refilter)
    \/ Refresh
    \/ Select
    \/ list # "none" /\ \E do \in L.acts \cup L.batch, ids \in SUBSET Rows : Act(do, ids)
    \/ \E c \in calls :
         \/ Serve(c) \/ ListAnswered(c) \/ ActAnswered(c) \/ PatchAnswered(c)
         \/ RemoveAnswered(c) \/ CallFailed(c)
    \/ \E some \in SUBSET doomed : DeleteDoomed(some)

ListSpec == ListInit /\ [][ListNext]_listVars

-----------------------------------------------------------------------------
Queries == [page : Nat \ {0}, size : Sizes, id : BOOLEAN, desc : BOOLEAN,
            filter : {"all", "odd"}]

ListTypeOK ==
    /\ list \in {"none"} \cup DOMAIN ListOf
    /\ query \in Queries
    /\ rows \subseteq Rows /\ selected \subseteq Rows /\ base \subseteq Rows
    /\ doomed \subseteq Rows
    /\ waits \in BOOLEAN /\ total \in Int

(* What is selected is on show, so that a batch deletes only what its user  *)
(* sees: every list that arrives clears the selection, whatever order lists *)
(* arrive in - unless blocking a user has put an earlier list back.         *)
SelectedListed == "putback" \notin stray => selected \subseteq rows

(* When nothing is under way any more, the page shows what its controls     *)
(* say, as the server has it - after changes of the query and deletions     *)
(* whose answers cross.  Six things break it in this program: answers that  *)
(* overtake one another, a query changed while something is done to a row   *)
(* (the list is then loaded with the earlier query) or a share removed with *)
(* a list under way, an earlier list put back, the last share of a page     *)
(* removed, files of an administrator's list deleted only after that list   *)
(* was loaded anew, and failed requests.                                    *)
ListCurrent ==
    list # "none" /\ calls = {} /\ stray = {} =>
        /\ rows \subseteq Listed(query, base)
        /\ L.then = "reload" => rows = Listed(query, base)
=============================================================================
