----------------------------- MODULE PolicyGuide ------------------------------
(***************************************************************************)
(* The guides that add or edit a storage policy (component/Admin/Policy)   *)
(* or a node (component/Admin/Node): a page of forms, one step after the   *)
(* other, that all work on one policy or node in the browser, which a      *)
(* request saves towards the end.                                          *)
(*                                                                         *)
(* A field is empty, given (by the program or the stored policy), typed,   *)
(* slight - typed, but something of which a conversion makes nothing - or  *)
(* derived when it is sent; radio buttons that show a field or hide it are *)
(* the toggles.  Browsers submit a form only when what it requires is      *)
(* filled in.  Nothing stops the user from typing or going back while a    *)
(* request is under way.                                                   *)
(***************************************************************************)
EXTENDS Integers, Sequences

CONSTANTS
    MaxEdits,      \* bound: fields cleared or typed anew, radio buttons pressed
    MaxRequests    \* bound: requests sent

ASSUME GuideAssumption == MaxEdits \in Nat /\ MaxRequests \in Nat

Fields == {"BucketName", "Server", "BaseURL", "AccessKey", "SecretKey", "Name",
           "DirNameRule", "FileNameRule", "server_side_endpoint", "od_driver",
           "od_proxy", "token", "MaxSize", "file_type", "mimetype", "tps_limit", "chunk_size",
           "SlaveKey", "Rank", "rpc_server"}
Toggles == {"AutoRename", "IsOriginLinkEnable", "IsPrivate",           \* of the policy
            "placeholder_with_size",
            "Aria2Enabled",                                            \* of the node
            "useCDN", "useLanEndpoint", "useSharePoint"}               \* of the page
PageToggles == {"useCDN", "useLanEndpoint", "useSharePoint"}
Texts == {"", "given", "typed", "slight", "derived"}
\* A rate below one a second, and a path that is nothing but a slash.
Slight == {"tps_limit", "DirNameRule"}

\* must: fields the form requires; when: a toggle and the field it shows and then
\* requires; flip: fields a radio button fills or empties; free: the rest.  then: what
\* submitting does; back: steps to go back; asks: what its button requests; bare: its
\* button submits it before the browser has validated it.
Form == [must |-> {}, when |-> <<>>, flip |-> {}, free |-> {}, then |-> "next",
         back |-> 1, asks |-> "nothing", skips |-> FALSE, bare |-> FALSE]

Path == [Form EXCEPT !.must = {"DirNameRule"}, !.when = [AutoRename |-> "FileNameRule"]]
SourceLink == [Form EXCEPT !.free = {"IsOriginLinkEnable"}]
Naming == [Form EXCEPT !.must = {"Name"}, !.then = "save"]
Button == [Form EXCEPT !.then = "nothing", !.back = 0]
Done == [Button EXCEPT !.asks = "leave"]
Cdn == [useCDN |-> "BaseURL"]
AccessKeys == {"AccessKey", "SecretKey"}
SizeLimit == {"MaxSize"}
TypeLimit == {"file_type"}
ChunkSize == {"chunk_size"}
Placeholder == {"placeholder_with_size"}

LocalPath == [Path EXCEPT !.then = "check", !.back = 0]
LocalSource == [SourceLink EXCEPT !.when = Cdn]
LocalSize == SizeLimit
LocalTypes == TypeLimit
LocalUpload == [Form EXCEPT !.flip = LocalSize \cup LocalTypes, !.free = ChunkSize]
LocalName == Naming
LocalDone == Done

RemoteSecret == {"SecretKey"}
RemoteNode == [Form EXCEPT !.must = RemoteSecret \cup {"Server"}, !.back = 0, !.asks = "test"]
RemotePath == Path
RemoteSource == [SourceLink EXCEPT !.when = Cdn]
RemoteSize == SizeLimit
RemoteTypes == TypeLimit
RemoteUpload == [Form EXCEPT !.flip = RemoteSize \cup RemoteTypes, !.free = ChunkSize]
RemoteName == Naming
RemoteDone == Done

QiniuHost == {"BucketName", "BaseURL"}
QiniuBucket == [Form EXCEPT !.back = 0, !.must = QiniuHost \cup AccessKeys, !.free = {"IsPrivate"}]
QiniuPath == Path
QiniuSource == SourceLink
QiniuSize == SizeLimit
QiniuTypes == TypeLimit
QiniuMimeTypes == {"mimetype"}
QiniuUpload == [Form EXCEPT !.flip = QiniuSize \cup QiniuTypes \cup QiniuMimeTypes,
                !.free = ChunkSize \cup Placeholder]
QiniuName == Naming
QiniuDone == Done

UpyunToken == [IsPrivate |-> "token"]
UpyunBucket == [Form EXCEPT !.back = 0, !.must = {"BucketName", "BaseURL"} \cup AccessKeys,
                !.when = UpyunToken]
UpyunPath == Path
UpyunSource == SourceLink
UpyunSize == SizeLimit
UpyunTypes == TypeLimit
UpyunUpload == [Form EXCEPT !.flip = UpyunSize \cup UpyunTypes]
UpyunName == Naming
UpyunDone == Done

S3Host == {"BucketName"}
S3Cdn == Cdn
S3Bucket == [Form EXCEPT !.back = 0, !.must = S3Host \cup AccessKeys \cup {"Name"}, !.when = S3Cdn,
             !.free = {"Server", "IsPrivate"}]
S3Path == Path
S3Source == SourceLink
S3Size == SizeLimit
S3Types == TypeLimit
S3Upload == [Form EXCEPT !.flip = S3Size \cup S3Types, !.free = ChunkSize \cup Placeholder,
                         !.then = "save"]
S3Cors == [Button EXCEPT !.asks = "cors", !.skips = TRUE]
S3Done == Done

OSSHost == {"BucketName", "Server"}
OSSEndpoints == [useCDN |-> "BaseURL", useLanEndpoint |-> "server_side_endpoint"]
OSSBucket == [Form EXCEPT !.back = 0, !.must = OSSHost \cup AccessKeys \cup {"Name"},
              !.when = OSSEndpoints, !.free = {"IsPrivate"}]
OSSPath == Path
OSSSource == SourceLink
OSSSize == SizeLimit
OSSTypes == TypeLimit
OSSUpload == [Form EXCEPT !.flip = OSSSize \cup OSSTypes, !.free = ChunkSize \cup Placeholder,
                         !.then = "save"]
OSSCors == S3Cors
OSSDone == Done

COSHost == {"BucketName", "Server"}
COSCdn == Cdn
COSBucket == [Form EXCEPT !.back = 0, !.must = COSHost \cup AccessKeys \cup {"Name"}, !.when = COSCdn,
              !.free = {"IsPrivate"}]
COSPath == Path
COSSource == SourceLink
COSSize == SizeLimit
COSTypes == TypeLimit
COSUpload == [Form EXCEPT !.flip = COSSize \cup COSTypes, !.free = Placeholder,
                         !.then = "save"]
COSCors == S3Cors
COSCallback == [Button EXCEPT !.asks = "scf", !.skips = TRUE]
COSDone == Done

\* The button "back" of its upload settings leads on to the authorisation.
OneDriveApp == {"BucketName", "SecretKey"}
OneDriveDrive == [useSharePoint |-> "od_driver", useCDN |-> "od_proxy"]
OneDriveAccount == [Form EXCEPT !.back = 0, !.must = OneDriveApp \cup {"Name"},
                    !.when = OneDriveDrive]
OneDrivePath == Path
OneDriveSource == SourceLink
OneDriveSize == SizeLimit
OneDriveTypes == TypeLimit
OneDriveRate == {"tps_limit"}
OneDriveUpload == [Form EXCEPT !.flip = OneDriveSize \cup OneDriveTypes \cup OneDriveRate,
                   !.free = ChunkSize \cup Placeholder, !.then = "save", !.back = -1]
OneDriveGrant == [Button EXCEPT !.asks = "oauth"]

\* A slave; the master has no page for the communication and can only be edited.
Communication == [Form EXCEPT !.must = {"SlaveKey", "Server"}, !.asks = "test", !.back = 0]
AriaServer == [Aria2Enabled |-> "rpc_server"]
Aria2RPC == [Form EXCEPT !.when = AriaServer, !.asks = "test", !.bare = TRUE]
Metainfo == [Form EXCEPT !.must = {"Name", "Rank"}, !.then = "save", !.back = 0]
Completed == Done

\* The table of all settings.
EditProHost == {"Name", "Server", "BucketName", "IsPrivate", "BaseURL"} \cup AccessKeys
EditProRules == {"MaxSize", "AutoRename", "DirNameRule", "FileNameRule", "IsOriginLinkEnable"}
EditProOptions == {"token", "file_type", "mimetype", "od_driver", "od_proxy",
                   "server_side_endpoint"}
EditProLimits == {"chunk_size", "placeholder_with_size", "tps_limit"}
EditProForm == [Form EXCEPT !.must = {"Name"}, !.then = "save", !.back = 0,
                !.free = EditProHost \cup EditProRules \cup EditProOptions \cup EditProLimits]

\* What submitting makes of a form: fields cleared when a toggle is off.
LocalSave == Cdn
RemoteSave == Cdn
QiniuSave == <<>>
UpyunSave == <<>>
S3Save == Cdn
OSSSave == OSSEndpoints
COSSave == Cdn
OneDriveSave == OneDriveDrive

\* preset: what a new policy has; reads: toggles of the page that are set from the
\* policy that is edited; drops: what submitting clears.
Rules == {"DirNameRule", "FileNameRule", "AutoRename"}
NewPolicy == Rules \cup {"IsPrivate", "chunk_size"}
LocalGuide == [preset |-> NewPolicy, reads |-> {}, drops |-> LocalSave,
               steps |-> <<LocalPath, LocalSource, LocalUpload, LocalName, LocalDone>>]
RemoteGuide == [preset |-> NewPolicy \cup {"Server", "SecretKey"}, reads |-> {},
                drops |-> RemoteSave,
                steps |-> <<RemoteNode, RemotePath, RemoteSource, RemoteUpload,
                            RemoteName, RemoteDone>>]
QiniuGuide == [preset |-> NewPolicy, reads |-> {}, drops |-> QiniuSave,
               steps |-> <<QiniuBucket, QiniuPath, QiniuSource, QiniuUpload, QiniuName,
                           QiniuDone>>]
UpyunGuide == [preset |-> Rules, reads |-> {}, drops |-> UpyunSave,
               steps |-> <<UpyunBucket, UpyunPath, UpyunSource, UpyunUpload, UpyunName,
                           UpyunDone>>]
S3Guide == [preset |-> NewPolicy, reads |-> {}, drops |-> S3Save,
            steps |-> <<S3Bucket, S3Path, S3Source, S3Upload, S3Cors, S3Done>>]
OSSGuide == [preset |-> NewPolicy, reads |-> {"useLanEndpoint"}, drops |-> OSSSave,
             steps |-> <<OSSBucket, OSSPath, OSSSource, OSSUpload, OSSCors, OSSDone>>]
COSGuide == [preset |-> NewPolicy \ ChunkSize, reads |-> {}, drops |-> COSSave,
             steps |-> <<COSBucket, COSPath, COSSource, COSUpload, COSCors, COSCallback,
                         COSDone>>]

\* Seeded fault: switches of the page start off, whatever the edited policy has.
OneDriveGuideForgetful ==
    [preset |-> NewPolicy \cup {"Server"}, reads |-> {}, drops |-> OneDriveSave,
     steps |-> <<OneDriveAccount, OneDrivePath, OneDriveSource, OneDriveUpload,
                 OneDriveGrant>>]

OneDriveGuide ==
    [preset |-> NewPolicy \cup {"Server"}, reads |-> {"useSharePoint", "useCDN"},
     drops |-> OneDriveSave,
     steps |-> <<OneDriveAccount, OneDrivePath, OneDriveSource, OneDriveUpload,
                 OneDriveGrant>>]
NodeGuide == [preset |-> {"Server", "SlaveKey", "Rank"}, reads |-> {},
              drops |-> <<>>, steps |-> <<Communication, Aria2RPC, Metainfo, Completed>>]
MasterGuide == [NodeGuide EXCEPT !.steps = <<[Aria2RPC EXCEPT !.back = 0], Metainfo, Completed>>]
EditPro == [preset |-> {}, reads |-> {}, drops |-> <<>>, steps |-> <<EditProForm>>]

Guide == [local |-> LocalGuide, remote |-> RemoteGuide, qiniu |-> QiniuGuide,
          upyun |-> UpyunGuide, s3 |-> S3Guide, oss |-> OSSGuide, cos |-> COSGuide,
          onedrive |-> OneDriveGuide, node |-> NodeGuide, master |-> MasterGuide,
          pro |-> EditPro]

VARIABLES
    guide,      \* the guide that is open, or ""
    editing,    \* it edits a stored policy
    step, form, on,
    loading,    \* the buttons of the page are disabled
    known,      \* policyID is that of a stored policy
    pending,    \* requests under way
    asked, edits,
    stored,     \* the policy on the server
    tested,     \* the path of the form has been tested
    hands,      \* fields and toggles the user has changed
    odd         \* what the program lets happen: see the actions that add to it

guideVars == <<guide, editing, step, form, on, loading, known, pending, asked, edits,
               stored, tested, hands, odd>>
fixed == <<guide, editing>>
request == <<pending, asked>>
draft == <<form, on, hands, edits, tested>>
server == <<known, stored>>

Blank == [f \in Fields |-> ""]
Preset(g) == [f \in Fields |-> IF f \in Guide[g].preset THEN "given" ELSE ""]
G == Guide[guide]
This == G.steps[step]
AtStep == step > 0

\* The guide of a node saves at every page when it edits one, and disables its buttons
\* while it does; a page that is left takes the state of its own button with it.
OfNode == guide \in {"node", "master"}
Then == IF OfNode /\ editing /\ This.then = "next" THEN "save" ELSE This.then
Left(ps) == IF OfNode THEN {r \in ps : r.do # "test"} ELSE ps
Locked(ps, otherwise) == IF OfNode THEN ps # {} ELSE otherwise

GuideInit ==
    /\ guide = "" /\ editing = FALSE /\ step = 0 /\ form = Blank /\ on = {}
    /\ loading = FALSE /\ known = FALSE /\ pending = {} /\ asked = 0 /\ edits = 0
    /\ stored = [fields |-> Blank, on |-> {}] /\ tested = FALSE
    /\ hands = {} /\ odd = {}

\* Own nodes serve files from a CDN only to links that lead to the source.
Shows(t, pressed) ==
    t \in pressed /\ (guide \in {"local", "remote"} /\ t = "useCDN"
                            => "IsOriginLinkEnable" \in pressed)
Needs(s, pressed) ==
    s.must \cup {s.when[t] : t \in {t \in DOMAIN s.when : Shows(t, pressed)}}
Required == Needs(This, on)
Filled == This.bare \/ \A f \in Required : form[f] # ""
Typeable == Required \cup (This.free \cap Fields) \cup {f \in This.flip : form[f] # ""}
Offered == (DOMAIN This.when \cup This.free) \cap Toggles

\* submitPolicy: what it makes of the form, and sends.  OneDrive's address for the login
\* follows from its server; numbers are cut to integers.
Dropped(f) == \E t \in DOMAIN G.drops : G.drops[t] = f /\ ~Shows(t, on)
Derived(f) == guide = "onedrive" /\ f = "BaseURL"
Cut(f) == f = "tps_limit" /\ form[f] = "slight"
Body ==
    [fields |-> [f \in Fields |->
        IF Dropped(f) THEN IF guide = "cos" THEN form["Server"] ELSE ""
        ELSE IF Derived(f) THEN "derived"
        ELSE IF Cut(f) THEN "" ELSE form[f]],
     on |-> on]

\* Add: where policies are not of local storage or a slave, the slash before the path goes.
\* The table of all settings does not say whose policy it has.
Added(b) ==
    LET trimmed == [b EXCEPT !.fields["DirNameRule"] = IF @ = "slight" THEN "" ELSE @]
    IN  CASE guide \in {"local", "remote", "node", "master"} -> {b}
          [] guide = "pro" -> {b, trimmed}
          [] OTHER -> {trimmed}
StorePolicy(b) ==
    /\ stored' \in Added(b)
    /\ odd' = IF stored' = b THEN odd ELSE odd \cup {"trimmed"}

Ask(do, to) ==
    /\ asked < MaxRequests /\ asked' = asked + 1
    /\ pending' = pending \cup {[n |-> asked', do |-> do, to |-> to, body |-> Body]}

\* The user changes some of the policy, maybe with a request under way.
Touch(fs) ==
    /\ hands' = hands \cup fs
    /\ tested' = (tested /\ "DirNameRule" \notin fs)
    /\ odd' = IF pending # {} THEN odd \cup {"edited"} ELSE odd

\* A guide is opened from the list of policies; that of OneDrive asks for the
\* address of the site for the redirect of a new policy.
OpenGuide(g, e) ==
    /\ guide = "" /\ (g \in {"pro", "master"} => e)
    /\ guide' = g /\ editing' = e /\ step' = 1 /\ known' = e
    /\ form' = IF e THEN [f \in Fields |-> "given"] ELSE Preset(g)
    /\ on' = IF e THEN (Toggles \ PageToggles) \cup Guide[g].reads ELSE Guide[g].preset \cap Toggles
    /\ stored' = IF e THEN [fields |-> form', on |-> on'] ELSE stored
    /\ IF g = "onedrive" /\ ~e
       THEN /\ asked' = 1
            /\ pending' = {[n |-> 1, do |-> "site", to |-> 0, body |-> stored]}
       ELSE UNCHANGED request
    /\ UNCHANGED <<loading, edits, tested, hands, odd>>

\* The user fills in what is empty and required ...
Fill ==
    /\ AtStep /\ ~Filled
    /\ LET empty == {f \in Required : form[f] = ""} IN
       /\ form' = [f \in Fields |-> IF f \in empty THEN "typed" ELSE form[f]]
       /\ Touch(empty)
    /\ UNCHANGED <<fixed, server, request, step, on, loading, edits>>

\* ... clears or changes a field ...
Edit(f, v) ==
    /\ AtStep /\ edits < MaxEdits /\ edits' = edits + 1
    /\ f \in Typeable /\ form[f] # v /\ (v = "slight" => f \in Slight)
    /\ form' = [form EXCEPT ![f] = v]
    /\ Touch({f})
    /\ UNCHANGED <<fixed, server, request, step, on, loading>>

\* ... switches a limit on or off ...
Flip(f) ==
    /\ AtStep /\ edits < MaxEdits /\ edits' = edits + 1
    /\ f \in This.flip
    /\ form' = [form EXCEPT ![f] = IF @ = "" THEN "typed" ELSE ""]
    /\ Touch({f})
    /\ UNCHANGED <<fixed, server, request, step, on, loading>>

\* ... or presses a radio button, which for the CDN of a policy of one's own nodes
\* clears its field as well.
Toggle(t) ==
    /\ AtStep /\ edits < MaxEdits /\ edits' = edits + 1
    /\ t \in Offered
    /\ on' = IF t \in on THEN on \ {t} ELSE on \cup {t}
    /\ form' = IF guide \in {"local", "remote"} /\ t = "useCDN" /\ t \in on
               THEN [form EXCEPT !["BaseURL"] = ""] ELSE form
    /\ Touch({t})
    /\ UNCHANGED <<fixed, server, request, step, loading>>

\* Seeded fault: the form is not validated.
GoOnUnchecked ==
    /\ AtStep /\ ~loading /\ Then = "next"
    /\ step' = step + 1
    /\ UNCHANGED <<fixed, server, request, draft, loading, odd>>

GoOn ==
    /\ AtStep /\ ~loading /\ Filled /\ Then = "next"
    /\ step' = step + 1
    /\ UNCHANGED <<fixed, server, request, draft, loading, odd>>

GoBack ==
    /\ AtStep /\ This.back # 0
    /\ step' = step - This.back
    /\ pending' = Left(pending) /\ loading' = Locked(pending', loading)
    /\ odd' = IF This.back < 0 THEN odd \cup {"strayed"} ELSE odd
    /\ UNCHANGED <<fixed, server, asked, draft>>

SkipStep ==
    /\ AtStep /\ This.skips
    /\ step' = step + 1
    /\ UNCHANGED <<fixed, server, request, draft, loading, odd>>

\* checkPathSetting of a local policy.
CheckPath ==
    /\ AtStep /\ ~loading /\ Filled /\ This.then = "check"
    /\ Ask("check", step + 1)
    /\ loading' = TRUE
    /\ UNCHANGED <<fixed, server, draft, step, odd>>

\* submitPolicy: setLoading(true), and setLoading(false) when the request is sent;
\* nextStep of a node.
SubmitPolicy ==
    /\ AtStep /\ ~loading /\ Filled /\ Then = "save"
    /\ Ask("save", IF guide = "pro" THEN step ELSE step + 1)
    /\ loading' = Locked(pending', loading)
    /\ UNCHANGED <<fixed, server, draft, step, odd>>

\* testSlave, testAria2, createCORS, creatCallback, statOAuth.
PressButton ==
    /\ AtStep /\ Locked({r \in pending : r.do = "test"}, loading) = FALSE
    /\ This.asks \notin {"nothing", "leave"}
    /\ Ask(This.asks, IF This.asks \in {"cors", "scf"} THEN step + 1 ELSE 0)
    /\ loading' = TRUE
    /\ UNCHANGED <<fixed, server, draft, step, odd>>

\* The page is left, and answers that are still to come find nobody.
LeaveGuide ==
    /\ AtStep /\ This.asks = "leave"
    /\ step' = 0 /\ pending' = {}
    /\ UNCHANGED <<fixed, server, draft, loading, asked, odd>>

\* Seeded fault: an error shows the page that follows, too.
GuideFailedAdvancing(r) ==
    /\ r \in pending /\ pending' = pending \ {r}
    /\ step' = IF r.to > 0 THEN r.to ELSE step
    /\ loading' = Locked(pending', loading /\ r.do = "site")
    /\ UNCHANGED <<fixed, server, draft, asked, odd>>

\* A request fails, or its answer is lost.
GuideFailed(r) ==
    /\ r \in pending /\ pending' = pending \ {r}
    /\ \/ UNCHANGED <<stored, odd>>
       \/ r.do = "save" /\ StorePolicy(r.body)
    /\ loading' = Locked(pending', loading /\ r.do = "site")
    /\ UNCHANGED <<fixed, draft, step, known, asked>>

\* A request is answered.  What concerns the policy finds it by its id; the answer
\* about the site puts back the policy as it was when the page was opened.
GuideAnswered(r) ==
    /\ r \in pending
    /\ pending' = IF r.to > 0 THEN Left(pending \ {r}) ELSE pending \ {r}
    /\ r.do \in {"cors", "scf", "oauth"} => known
    /\ known' = (known \/ r.do = "save")
    /\ step' = IF r.do = "oauth" THEN 0 ELSE IF r.to > 0 THEN r.to ELSE step
    /\ loading' = Locked(pending', loading /\ r.do = "site")
    /\ tested' = (tested \/ r.do = "check")
    /\ IF r.do = "site"
       THEN /\ form' = Preset(guide)
            /\ on' = (on \cap PageToggles) \cup (G.preset \cap Toggles)
            /\ odd' = IF form' # form \/ on' # on THEN odd \cup {"wiped"} ELSE odd
       ELSE UNCHANGED <<form, on>> /\ (r.do # "save" => odd' = odd)
    /\ IF r.do = "save" THEN StorePolicy(r.body) ELSE stored' = stored
    /\ UNCHANGED <<fixed, asked, edits, hands>>

GuideNext ==
    \/ \E g \in DOMAIN Guide, e \in BOOLEAN : OpenGuide(g, e)
    \/ Fill
    \/ \E f \in Fields, v \in {"", "typed", "slight"} : Edit(f, v)
    \/ \E f \in Fields : Flip(f)
    \/ \E t \in Toggles : Toggle(t)
    \/ GoOn \/ GoBack \/ SkipStep \/ CheckPath \/ SubmitPolicy \/ PressButton
    \/ LeaveGuide
    \/ \E r \in pending : GuideFailed(r) \/ GuideAnswered(r)

GuideSpec == GuideInit /\ [][GuideNext]_guideVars

-----------------------------------------------------------------------------
PolicyDraft == [fields : [Fields -> Texts], on : SUBSET Toggles]

GuideTypeOK ==
    /\ guide \in {""} \cup DOMAIN Guide /\ editing \in BOOLEAN
    /\ step \in 0 .. 7 /\ (AtStep => step \in DOMAIN G.steps)
    /\ [fields |-> form, on |-> on] \in PolicyDraft /\ stored \in PolicyDraft
    /\ loading \in BOOLEAN /\ known \in BOOLEAN /\ tested \in BOOLEAN
    /\ \A r \in pending : r.n \in 1 .. asked /\ r.body \in PolicyDraft
    /\ asked \in 0 .. MaxRequests + 1 /\ edits \in 0 .. MaxEdits
    /\ hands \subseteq Fields \cup Toggles
    /\ odd \subseteq {"edited", "strayed", "wiped", "trimmed"}

(* What a guide saves is complete: every form it went through asked for the *)
(* fields its radio buttons show, and none of them can be emptied again on  *)
(* another page, by going back, by a second submission or by a late answer; *)
(* and a local policy gets past its first page only with a path that has    *)
(* been tested as it is, whatever was edited on the way back.               *)
(* Late answers do harm: that of OneDrive's site address wipes out what was *)
(* typed; that of the test of a local path, and of a node saved page by     *)
(* page, move on from what was edited meanwhile.  Of a path that is nothing *)
(* but a slash most policies store none.  What a node needs to reach aria2  *)
(* is not checked at all.                                                   *)
SavedComplete ==
    /\ /\ known /\ odd \cap {"wiped", "trimmed"} = {}
       /\ guide \in {"local", "node"} => "edited" \notin odd
       => \A n \in DOMAIN G.steps : \A f \in Needs(G.steps[n], stored.on) :
              G.steps[n].bare \/ stored.fields[f] # ""
    /\ guide = "local" /\ step > 1 => tested \/ "edited" \in odd

(* The pages behind the saving one are about what the form shows: they come *)
(* up only when that has been saved - unless it was edited with the request *)
(* under way, OneDrive's button "back" led there, or the server trimmed the *)
(* path.                                                                    *)
SavedShown ==
    AtStep /\ odd = {} /\ Then # "save" /\ (\E n \in 1 .. step - 1 : G.steps[n].then = "save") =>
        stored = Body

(* A guide that edits a policy saves what nobody touched as it was, and     *)
(* shows the switches of what the policy has; but not the address of a CDN, *)
(* whose switch starts in the off position in five of the guides, nor the   *)
(* address for OneDrive's login, which its guide overwrites with one of two *)
(* constants at every save, whatever the table of all settings had put      *)
(* there.                                                                   *)
EditKeeps ==
    editing => \A f \in Fields \ hands :
        \/ stored.fields[f] = "given"
        \/ \E t \in hands : t \in DOMAIN G.drops /\ G.drops[t] = f
        \/ f = "BaseURL" /\ guide \in {"local", "remote", "s3", "oss", "cos", "onedrive"}
=============================================================================
