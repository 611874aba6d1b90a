------------------------------ MODULE OptionForms ------------------------------
(***************************************************************************)
(* The forms of the administrator that are saved as a whole: the pages of  *)
(* the settings (component/Admin/Setting), which load their options when   *)
(* they open, and the forms of a group and of a user.                      *)
(*                                                                         *)
(* A page has all its options in one object.  An event of the page is one  *)
(* action; requests are served one at a time, and answered in any order.   *)
(***************************************************************************)
EXTENDS Integers, FiniteSets

CONSTANTS
    MaxTyping,     \* bound: options changed
    MaxCalled,     \* bound: loads, saves and tests sent
    MaxOthers      \* bound: options changed by another administrator

ASSUME OptionAssumption == MaxTyping \in Nat /\ MaxCalled \in Nat /\ MaxOthers \in Nat

\* needs: required, and empty until they are loaded; preset: they start with a value of
\* the program; free: the rest, with those required only when a switch shows them.  One
\* stands for all that the page treats alike.  applies: a save is followed by a request
\* that makes the server use it; tests: a button that sends something else; early: the
\* form is shown before the options have come; leaves: a save closes the form.
OptionPage == [needs |-> {}, preset |-> {}, free |-> {}, applies |-> FALSE,
               tests |-> FALSE, early |-> TRUE, leaves |-> FALSE]

Registration == {"register_enabled"}
DefaultGroup == {"default_group"}
AccessPage == [OptionPage EXCEPT !.preset = Registration \cup DefaultGroup]

CaptchaKind == {"captcha_type"}
GraphicCaptcha == {"captcha_mode"}
ReCaptcha == {"captcha_ReCaptchaKey"}
TCaptcha == {"captcha_TCaptcha_SecretKey"}
CaptchaPage == [OptionPage EXCEPT !.preset = CaptchaKind \cup GraphicCaptcha,
                !.free = ReCaptcha \cup TCaptcha]

SiteBasics == {"siteName"}
PwaLook == {"pwa_small_icon"}
SitePage == [OptionPage EXCEPT !.needs = SiteBasics, !.free = PwaLook]

Smtp == {"smtpHost"}
SmtpLink == {"mail_keepalive"}
MailTemplates == {"mail_activation_template"}
MailPage == [OptionPage EXCEPT !.needs = Smtp \cup MailTemplates, !.preset = SmtpLink,
             !.applies = TRUE, !.tests = TRUE]

Avatars == {"avatar_path"}
Previews == {"office_preview_service"}
Wopi == {"wopi_endpoint"}
Thumbs == {"thumb_width"}
ThumbGenerators == {"thumb_vips_path"}
ImagePage == [OptionPage EXCEPT !.needs = Avatars \cup Previews \cup Thumbs,
              !.applies = TRUE, !.free = Wopi \cup ThumbGenerators]

Transfer == {"temp_path"}
Expiry == {"archive_timeout"}
Nodes == {"slave_api_timeout"}
UploadDownloadPage == [OptionPage EXCEPT !.needs = Transfer, !.preset = Expiry \cup Nodes]

\* The themes are one option, a table.
ThemeTable == {"themes"}
ViewMethods == {"home_view_method"}
ThemePage == [OptionPage EXCEPT !.preset = ThemeTable \cup ViewMethods,
              !.free = {"defaultTheme"}]

GroupLimits == {"MaxStorage"}
GroupRights == {"ShareEnabled"}
GroupDownloads == {"aria2_batch"}
GroupForm == [OptionPage EXCEPT !.needs = {"Name"},
              !.preset = GroupLimits \cup GroupRights \cup GroupDownloads,
              !.early = FALSE, !.leaves = TRUE]

UserNames == {"Email"}
UserForm == [OptionPage EXCEPT !.needs = UserNames, !.preset = {"Status"},
             !.free = {"TwoFactor"}, !.early = FALSE, !.leaves = TRUE]

OptionPages == [access |-> AccessPage, captcha |-> CaptchaPage, site |-> SitePage,
                mail |-> MailPage, image |-> ImagePage, transfer |-> UploadDownloadPage,
                theme |-> ThemePage, group |-> GroupForm, user |-> UserForm]
OptionNames == UNION {OptionPages[p].needs \cup OptionPages[p].preset \cup
                      OptionPages[p].free : p \in DOMAIN OptionPages}

\* Values of an option; what is typed gets a number of its own.
Empty == 0
Initial == 1
Held == 2
Theirs == 3
Values == Empty .. Theirs + MaxTyping

VARIABLES
    optionPage,
    visit,        \* which opening of the page this is: the number of its load
    opened,       \* the form is on the screen
    options,      \* what it shows
    saving,       \* loading: its buttons are disabled
    posts,        \* requests under way
    called,       \* requests sent
    typed,
    held,         \* the options on the server
    applied,      \* those it has been told to use
    loaded,       \* the form has been filled
    dirty,        \* options that differ from what was loaded or saved, for all one knows
    mine, theirs, \* options changed by the user, and by another administrator
    rifts         \* what the program lets happen: see the actions that add to it

formState == <<visit, opened, options, saving, loaded, dirty>>
backend == <<held, applied, theirs>>
optionVars == <<optionPage, formState, posts, called, typed, backend, mine, rifts>>

Here == OptionPages[optionPage]
Names == Here.needs \cup Here.preset \cup Here.free
InitialOptions == [f \in Names |-> IF f \in Here.preset THEN Initial ELSE Empty]

Request(do) == [n |-> called + 1, do |-> do, with |-> options, at |-> "server",
                visit |-> visit, blind |-> ~loaded]
Send(do) == called < MaxCalled /\ called' = called + 1 /\ posts' = posts \cup {Request(do)}

OptionInit ==
    /\ optionPage \in DOMAIN OptionPages /\ opened = Here.early /\ visit = 1
    /\ options = InitialOptions /\ saving = FALSE /\ loaded = FALSE
    /\ called = 1 /\ typed = 0
    /\ posts = {[Request("load") EXCEPT !.n = 1]}
    /\ held = [f \in Names |-> Held] /\ applied = held
    /\ dirty = {} /\ mine = {} /\ theirs = {} /\ rifts = {}

\* The page is left and opened again; requests of the earlier visit go on.
ReopenPage ==
    /\ called < MaxCalled /\ called' = called + 1 /\ visit' = called'
    /\ posts' = posts \cup {[Request("load") EXCEPT !.visit = visit']}
    /\ opened' = Here.early /\ options' = InitialOptions
    /\ saving' = FALSE /\ loaded' = FALSE /\ dirty' = {}
    /\ UNCHANGED <<optionPage, typed, backend, mine, rifts>>

\* Seeded fault: the other options are not copied.
EditOptionAlone(f) ==
    /\ opened /\ typed < MaxTyping /\ typed' = typed + 1
    /\ options' = [x \in Names |-> IF x = f THEN Theirs + typed'
                                   ELSE IF x \in Here.free THEN Empty ELSE options[x]]
    /\ dirty' = dirty \cup {f} /\ mine' = mine \cup {f}
    /\ UNCHANGED <<optionPage, visit, opened, saving, loaded, posts, called, backend, rifts>>

\* handleChange, handleCheckChange, handleOptionChange, addTheme, deleteTheme.
EditOption(f) ==
    /\ opened /\ typed < MaxTyping /\ typed' = typed + 1
    /\ options' = [options EXCEPT ![f] = Theirs + typed']
    /\ dirty' = dirty \cup {f} /\ mine' = mine \cup {f}
    /\ UNCHANGED <<optionPage, visit, opened, saving, loaded, posts, called, backend, rifts>>

\* Seeded fault: the button stays enabled while a save is under way.
SubmitOptionsAnytime ==
    /\ opened /\ \A f \in Here.needs : options[f] # Empty
    /\ Send("save") /\ dirty' = {}
    /\ rifts' = IF loaded THEN rifts ELSE rifts \cup {"blind"}
    /\ UNCHANGED <<optionPage, visit, opened, options, saving, loaded, typed, backend, mine>>

\* submit: all the options of the page.
SubmitOptions ==
    /\ opened /\ ~saving /\ \A f \in Here.needs : options[f] # Empty
    /\ Send("save") /\ saving' = TRUE /\ dirty' = {}
    /\ rifts' = IF loaded THEN rifts ELSE rifts \cup {"blind"}
    /\ UNCHANGED <<optionPage, visit, opened, options, loaded, typed, backend, mine>>

\* sendTestMail.
TestOptions ==
    /\ opened /\ ~saving /\ Here.tests
    /\ Send("test") /\ saving' = TRUE
    /\ UNCHANGED <<optionPage, visit, opened, options, loaded, dirty, typed, backend, mine,
                   rifts>>

\* The form has been filled, or is about to be, with what the server had before a save.
Outdated(c) ==
    \/ loaded /\ (c.visit # visit \/ c.blind)
    \/ \E l \in posts : l.do = "load" /\ l.at = "client" /\ l.visit = visit

CallServed(c) ==
    /\ c \in posts /\ c.at = "server"
    /\ posts' = (posts \ {c}) \cup
                {[c EXCEPT !.at = "client", !.with = IF c.do = "load" THEN held ELSE @]}
    /\ held' = IF c.do = "save" THEN c.with ELSE held
    /\ applied' = IF c.do = "apply" THEN held ELSE applied
    /\ rifts' = IF c.do = "save" /\ Outdated(c) THEN rifts \cup {"overtaken"} ELSE rifts
    /\ UNCHANGED <<optionPage, formState, called, typed, theirs, mine>>

\* What comes replaces what has been typed meanwhile.
OptionsLoaded(c) ==
    /\ c \in posts /\ c.at = "client" /\ c.do = "load" /\ posts' = posts \ {c}
    /\ IF c.visit = visit
       THEN options' = c.with /\ opened' = TRUE /\ loaded' = TRUE /\ dirty' = {}
       ELSE UNCHANGED <<options, opened, loaded, dirty>>
    /\ UNCHANGED <<optionPage, visit, saving, called, typed, backend, mine, rifts>>

\* Seeded fault: the server is not told to use what has been saved.
OptionsSavedOnly(c) ==
    /\ c \in posts /\ c.at = "client" /\ c.do = "save" /\ posts' = posts \ {c}
    /\ saving' = (saving /\ c.visit # visit)
    /\ opened' = (opened /\ ~Here.leaves)
    /\ UNCHANGED <<optionPage, visit, options, loaded, dirty, called, typed, backend, mine,
                   rifts>>

\* A form that closes when it has been saved closes the one of a later visit, too.
OptionsSaved(c) ==
    /\ c \in posts /\ c.at = "client" /\ c.do = "save"
    /\ posts' = (posts \ {c}) \cup
                (IF Here.applies THEN {[c EXCEPT !.do = "apply", !.at = "server"]} ELSE {})
    /\ saving' = (saving /\ c.visit # visit)
    /\ opened' = (opened /\ ~Here.leaves)
    /\ UNCHANGED <<optionPage, visit, options, loaded, dirty, called, typed, backend, mine,
                   rifts>>

OtherAnswered(c) ==
    /\ c \in posts /\ c.at = "client" /\ c.do \in {"test", "apply"} /\ posts' = posts \ {c}
    /\ saving' = (saving /\ ~(c.do = "test" /\ c.visit = visit))
    /\ UNCHANGED <<optionPage, visit, opened, options, loaded, dirty, called, typed, backend,
                   mine, rifts>>

\* A request fails, or its answer is lost.
OptionFailed(c) ==
    /\ c \in posts /\ posts' = posts \ {c}
    /\ saving' = (saving /\ ~(c.do \in {"save", "test"} /\ c.visit = visit))
    /\ dirty' = IF c.do = "save" /\ c.visit = visit THEN Names ELSE dirty
    /\ rifts' = IF c.do \in {"save", "apply"} THEN rifts \cup {"failed"} ELSE rifts
    /\ UNCHANGED <<optionPage, visit, opened, options, loaded, called, typed, backend, mine>>

\* Another administrator saves an option and has it used.
OtherAdmin(f) ==
    /\ Cardinality(theirs) < MaxOthers /\ theirs' = theirs \cup {f}
    /\ held' = [held EXCEPT ![f] = Theirs] /\ applied' = held'
    /\ rifts' = IF loaded \/ \E c \in posts : c.do = "save" \/ c.at = "client"
                THEN rifts \cup {"stale"} ELSE rifts
    /\ UNCHANGED <<optionPage, formState, posts, called, typed, mine>>

OptionNext ==
    \/ ReopenPage \/ SubmitOptions \/ TestOptions
    \/ \E f \in Names : EditOption(f) \/ OtherAdmin(f)
    \/ \E c \in posts : \/ CallServed(c) \/ OptionsLoaded(c) \/ OptionsSaved(c)
                        \/ OtherAnswered(c) \/ OptionFailed(c)

OptionSpec == OptionInit /\ [][OptionNext]_optionVars

-----------------------------------------------------------------------------
OptionTypeOK ==
    /\ optionPage \in DOMAIN OptionPages
    /\ options \in [Names -> Values] /\ held \in [Names -> Values] /\ applied \in [Names -> Values]
    /\ opened \in BOOLEAN /\ saving \in BOOLEAN /\ loaded \in BOOLEAN
    /\ \A c \in posts : c.with \in [Names -> Values] /\ c.at \in {"server", "client"}
    /\ dirty \cup mine \cup theirs \subseteq Names

(* An option the user did not change keeps its value, although every save *)
(* writes all of the page: over late and repeated loads, failed requests    *)
(* and leaving the page with a save under way.  Two things break it: saving *)
(* a form that has not been loaded, which the pages without empty required  *)
(* options let one do (CAPTCHA, access, themes), and another administrator  *)
(* who saves after the load: that is undone.                                *)
OptionsKept ==
    rifts \cap {"blind", "stale"} = {} =>
        \A f \in Names \ mine : held[f] = IF f \in theirs THEN Theirs ELSE Held

(* With nothing under way and nothing typed since the last save, the form   *)
(* shows what the server has; one save at a time is enough for that, unless *)
(* the page was opened again before the server got to an earlier save.      *)
OptionsShown ==
    posts = {} /\ loaded /\ dirty = {} /\ rifts \cap {"overtaken", "stale"} = {} =>
        options = held

(* What has been saved is in use as soon as nothing is under way, whatever  *)
(* overlaps, unless a request failed.                                       *)
OptionsApplied ==
    Here.applies /\ posts = {} /\ "failed" \notin rifts => applied = held
=============================================================================
