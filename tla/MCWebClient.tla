----------------------------- MODULE MCWebClient -----------------------------
(***************************************************************************)
(* The parts of the web client side by side, one of them in use: page says *)
(* which, and keeps their state spaces from multiplying.                   *)
(***************************************************************************)
EXTENDS WebUploader, PolicyGuide, ListPages, FileBrowser, OptionForms, UserSettings

CONSTANTS i1, i2, i3, i4, i5, i6

MCFileOf == [i \in {i1, i2, i3, i4, i5, i6} |->
    CASE i \in {i1, i2} -> 1 [] i = i3 -> 2 [] i = i4 -> 3 [] i = i5 -> 4 [] OTHER -> 5]
MCPolicyOf == <<"oss", "s3", "cos", "local", "upyun">>
MCHome == [o \in {i1, i2, i3} |-> CASE o = i1 -> "A" [] o = i2 -> "B" [] OTHER -> "gone"]
MCPageSizes == {1, -1}

VARIABLES
    page,      \* the part in use
    cards      \* uploads: two cards of one file, or one alone; the file of i6 is not allowed

unused == <<guideVars, listVars, browserVars, optionVars, settingsVars>>
mcVars == <<page, cards, uploaderVars, unused>>

\* Two cards cost too much with all sessions and faults: an earlier upload has had one of
\* each, and its session is deleted.
UploaderInitFor(cs) ==
    IF Cardinality(cs) < 2 THEN UploaderInit
    ELSE /\ PoolInit
         /\ up = [u \in Uploaders |-> NoTask] /\ ctx = [n \in Files |-> NoCtx]
         /\ sess = [s \in Session |-> IF s = 1 THEN [NoSession EXCEPT !.state = "deleted"]
                                               ELSE NoSession]
         /\ faults = 1

\* The other parts stay in one of their initial states.
MCInit ==
    /\ page \in {"pool", "uploads", "guides", "lists", "files", "options", "settings"}
    /\ cards \in IF page = "uploads" THEN {{i1, i2}, {i1}, {i3}, {i4}, {i5}, {i6}} ELSE {{}}
    /\ UploaderInitFor(cards) /\ (page # "pool" => limit = 1)
    /\ GuideInit
    /\ ListInit
    /\ BrowserInit /\ path = "A" /\ (page # "files" => paging.size = -1)
    /\ OptionInit /\ (page # "options" => optionPage = "access")
    /\ SettingsInit /\ (page # "settings" => view = "settings" /\ account = BlankSettings)

UploadsNext ==
    UploaderNext /\ \A u \in Uploaders \ cards : up'[u] = up[u]

\* Bounds: the last request of the file manager is one of some dialogs, beside no task and
\* no question, and at most one thing happens that the program lets happen, before it.
FilesNext ==
    /\ BrowserNext
    /\ sent' > 2 => /\ dialog' \in {"none", "remove", "move"}
                    /\ chores' = {} /\ asking' = {} /\ slips' = {}
    /\ Cardinality(slips') < 2

\* Bound: another administrator does not come on top of as many requests of an options page.
OptionsNext == OptionNext /\ (theirs' # {} => called' < MaxCalled)

\* Bound: one thing happens to the settings that the program lets happen.
SettingsPageNext == SettingsNext /\ Cardinality(gaps') < 2

MCNext ==
    /\ UNCHANGED <<page, cards>>
    /\ \/ page = "pool" /\ PoolNext /\ UNCHANGED <<up, ctx, sess, faults, unused>>
       \/ page = "uploads" /\ UploadsNext /\ UNCHANGED unused
       \/ page = "guides" /\ GuideNext
            /\ UNCHANGED <<uploaderVars, listVars, browserVars, optionVars, settingsVars>>
       \/ page = "lists" /\ ListNext
            /\ UNCHANGED <<uploaderVars, guideVars, browserVars, optionVars, settingsVars>>
       \/ page = "files" /\ FilesNext
            /\ UNCHANGED <<uploaderVars, guideVars, listVars, optionVars, settingsVars>>
       \/ page = "options" /\ OptionsNext
            /\ UNCHANGED <<uploaderVars, guideVars, listVars, browserVars, settingsVars>>
       \/ page = "settings" /\ SettingsPageNext
            /\ UNCHANGED <<uploaderVars, guideVars, listVars, browserVars, optionVars>>

MCSpec == MCInit /\ [][MCNext]_mcVars
==============================================================================
