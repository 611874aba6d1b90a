------------------------------ MODULE UserSettings -----------------------------
(***************************************************************************)
(* The settings of a user that are saved one by one, as soon as they are   *)
(* changed (component/Setting): the switches of the settings page, its     *)
(* dialogs, the authenticators, and the WebDAV accounts.                   *)
(*                                                                         *)
(* A change is sent at once and nothing waits for its answer; the answer   *)
(* changes the page.  Requests are served and answered in any order.  For  *)
(* those of the settings the server loads the user and the session first,  *)
(* and saves whole columns of what it has loaded, or the whole session.    *)
(***************************************************************************)
EXTENDS Integers, FiniteSets

CONSTANTS
    Accounts,      \* WebDAV accounts, Old of which exist
    Old,
    Keys,          \* authenticators, none of which is registered
    MaxChanges     \* bound: changes sent

ASSUME SettingsAssumption == Old \subseteq Accounts /\ MaxChanges \in Nat

PdfSwitches == {"savePage", "autosave"}

\* Dialogs: what their button sends, and whether success closes them (or any other).
NickDialog == [closes |-> TRUE]
PasswordDialog == [closes |-> TRUE]
AvatarDialog == [closes |-> FALSE]
ThemeDialog == [closes |-> FALSE]
TwoFactorDialog == [closes |-> TRUE]
IntervalDialog == [closes |-> TRUE]
SettingDialogs == [nick |-> NickDialog, password |-> PasswordDialog, avatar |-> AvatarDialog,
                   theme |-> ThemeDialog, twoFactor |-> TwoFactorDialog,
                   interval |-> IntervalDialog]

VARIABLES
    view,         \* the page: "settings" or "webdav"
    screen,       \* state.settings
    account,      \* the same on the server
    secretShown,  \* two_fa_secret, the secret in the dialog
    secretMade,   \* the secret in the session of the user
    challenge,    \* the registration of an authenticator that the session has begun
    dav, davRights,    \* WebDAV: the accounts listed, those read-only
    davHeld, davSaved, \* the same on the server
    prompt,       \* the dialog that is open, or "none"
    busy,         \* loading: the dialog whose button is disabled, or "none"
    flights,      \* requests under way
    spent,        \* identifiers given to authenticators and accounts
    changes,
    gaps          \* what the program lets happen: see the actions that add to it

davList == <<dav, davRights>>
davServer == <<davHeld, davSaved>>
onServer == <<account, secretMade, challenge, davServer>>
dialogState == <<prompt, busy, secretShown>>
settingsVars == <<view, screen, onServer, davList, dialogState, flights, spent, changes, gaps>>

BlankSettings == [homepage |-> TRUE, twoFactor |-> 0, keys |-> {},
                  pdf |-> [s \in PdfSwitches |-> FALSE]]

OtherSettings == [homepage |-> FALSE, twoFactor |-> MaxChanges + 1, keys |-> {},
                  pdf |-> [s \in PdfSwitches |-> TRUE]]

\* What the page is told: of two-factor authentication, only whether it is on.
SettingsOf(a) == [a EXCEPT !.twoFactor = a.twoFactor # 0]

\* What the server loads before it handles a request.
Loaded == [user |-> account, secret |-> secretMade, challenge |-> challenge]
NothingLoaded == [user |-> BlankSettings, secret |-> 0, challenge |-> 0]

\* to: what the request sets; seen: the accounts listed when it was sent; read: the server
\* has loaded had for it.
Flight(do, on, to) ==
    [n |-> changes + 1, do |-> do, on |-> on, to |-> to, seen |-> dav, read |-> FALSE,
     had |-> NothingLoaded, served |-> FALSE, ok |-> TRUE]
Sent(do, on, to) ==
    /\ changes < MaxChanges /\ changes' = changes + 1
    /\ flights' = flights \cup {Flight(do, on, to)}
Under(do, on) == \E r \in flights : r.do = do /\ r.on = on
Arriving == \E r \in flights : r.do \in {"load", "list"}
Early == IF Arriving THEN gaps \cup {"early"} ELSE gaps

SettingsInit ==
    /\ screen = SettingsOf(BlankSettings)
    /\ account \in {BlankSettings, OtherSettings}
    /\ secretShown = 0 /\ secretMade = 0 /\ challenge = 0
    /\ dav = {} /\ davRights = {} /\ davHeld = Old /\ davSaved = {}
    /\ prompt = "none" /\ busy = "none" /\ changes = 0 /\ spent = Old /\ gaps = {}
    /\ view \in {"settings", "webdav"}
    /\ flights = {[Flight(IF view = "settings" THEN "load" ELSE "list", "none", account)
                    EXCEPT !.n = 0]}

-----------------------------------------------------------------------------
(* The user.                                                               *)

\* Seeded fault: the value shown is sent, not its opposite.
ToggleHomeToItself ==
    /\ Sent("homepage", "none", screen.homepage)
    /\ gaps' = IF Under("homepage", "none") THEN Early \cup {"twice"} ELSE Early
    /\ UNCHANGED <<screen, onServer, davList, dialogState>>

\* handleToggleHome sends the opposite of what is shown, until the answer flips that.
ToggleHome ==
    /\ Sent("homepage", "none", ~screen.homepage)
    /\ gaps' = IF Under("homepage", "none") THEN Early \cup {"twice"} ELSE Early
    /\ UNCHANGED <<screen, onServer, davList, dialogState>>

\* handleTogglePdf flips it at once and sends all that concerns PDF.
TogglePdf(s) ==
    /\ screen' = [screen EXCEPT !.pdf[s] = ~@]
    /\ Sent("pdf", "none", screen'.pdf)
    /\ gaps' = Early
    /\ busy' = "pdf"
    /\ UNCHANGED <<onServer, davList, prompt, secretShown>>

\* A dialog opens; for two-factor authentication that is still off, a secret comes first.
OpenPrompt(d) ==
    /\ prompt = "none" /\ d \in DOMAIN SettingDialogs
    /\ IF d = "twoFactor" /\ ~screen.twoFactor
       THEN Sent("secret", "none", 0) /\ UNCHANGED prompt
       ELSE prompt' = d /\ UNCHANGED <<flights, changes>>
    /\ UNCHANGED <<screen, onServer, davList, busy, secretShown, gaps>>

\* handleClose, which enables all buttons.
ClosePrompt ==
    /\ prompt # "none" /\ prompt' = "none" /\ busy' = "none"
    /\ UNCHANGED <<screen, onServer, davList, secretShown, flights, changes, gaps>>

\* The interval of automatic saves is one of the PDF options, and sent with all of them.
LoadingOf(d) == IF d = "interval" THEN "pdf" ELSE d

\* For two-factor authentication the user types a code: of the secret shown last, or of the
\* one in use.
Entered(d) == CASE d = "interval" -> {screen.pdf}
                [] d = "twoFactor" -> {secretShown, account.twoFactor}
                [] OTHER -> {0}

SubmitPrompt ==
    /\ prompt # "none" /\ busy # LoadingOf(prompt) /\ busy' = LoadingOf(prompt)
    /\ \E to \in Entered(prompt) : Sent(busy', "none", to)
    /\ gaps' = Early
    /\ UNCHANGED <<screen, onServer, davList, prompt, secretShown>>

\* addCredential: the server begins, the browser asks the user, the server finishes.
AddKey(k) ==
    /\ k \notin spent /\ spent' = spent \cup {k} /\ Sent("begin", k, 0) /\ gaps' = Early
    /\ UNCHANGED <<screen, onServer, davList, dialogState>>

RemoveKey(k) ==
    /\ k \in screen.keys /\ Sent("unkey", k, 0) /\ gaps' = Early
    /\ UNCHANGED <<screen, onServer, davList, dialogState>>

AddAccount(x) ==
    /\ x \notin spent /\ spent' = spent \cup {x} /\ Sent("add", x, FALSE) /\ gaps' = Early
    /\ UNCHANGED <<screen, onServer, davList, dialogState>>

DeleteAccount(x) ==
    /\ x \in dav /\ Sent("delete", x, FALSE) /\ gaps' = Early
    /\ UNCHANGED <<screen, onServer, davList, dialogState>>

\* toggleAccountReadonly and toggleAccountUseProxy.
ToggleAccount(x) ==
    /\ x \in dav /\ Sent("rights", x, x \notin davRights)
    /\ gaps' = IF Under("rights", x) THEN Early \cup {"twice"} ELSE Early
    /\ UNCHANGED <<screen, onServer, davList, dialogState>>

-----------------------------------------------------------------------------
(* The server.                                                             *)

\* It never switches off what concerns PDF.
PdfMerged(pdf, new) == [s \in PdfSwitches |-> pdf[s] \/ new[s]]

\* What is saved is a column of the user: the options, the list of authenticators, the
\* secret in use; or the session.
SaveOptions == {"homepage", "pdf", "theme"}
SaveAuthn == {"finish", "unkey"}
SaveSession == {"secret", "begin"}
Saves == SaveOptions \cup SaveAuthn \cup SaveSession \cup {"twoFactor"}

\* CurrentUser, before the handlers.
LoadUser(r) ==
    /\ r \in flights /\ r.do \in Saves /\ ~r.served /\ ~r.read
    /\ flights' = (flights \ {r}) \cup {[r EXCEPT !.read = TRUE, !.had = Loaded]}
    /\ UNCHANGED <<screen, onServer, davList, dialogState, changes, gaps>>

\* A code is right for the secret in use or, if there is none, for that of the session;
\* a registration ends the one that the session has begun.
RightCode(code, had) ==
    code # 0 /\ code = IF had.user.twoFactor = 0 THEN had.secret ELSE had.user.twoFactor
Accepted(r) ==
    /\ r.do = "twoFactor" => RightCode(r.to, r.had)
    /\ r.do = "finish" => r.had.challenge = r.to

AnswerTo(r) ==
    [r EXCEPT !.served = TRUE, !.ok = Accepted(r), !.had = NothingLoaded,
              !.to = CASE r.do = "load" -> SettingsOf(account)
                       [] r.do = "secret" -> r.n
                       [] OTHER -> r.to,
              !.seen = IF r.do = "list" THEN davHeld ELSE @]
Reply(r) ==
    /\ r \in flights /\ ~r.served /\ (r.do \in Saves => r.read)
    /\ flights' = (flights \ {r}) \cup {AnswerTo(r)}

\* The column saved is no longer what was loaded: somebody else's change is lost.
Overwritten(r) ==
    LET u == r.had.user IN
    {g \in {"options", "authn", "two_factor"} :
        \/ /\ g = "options" /\ r.do \in SaveOptions
           /\ u.homepage # account.homepage \/ u.pdf # account.pdf
        \/ g = "authn" /\ r.do \in SaveAuthn /\ Accepted(r) /\ u.keys # account.keys
        \/ /\ g = "two_factor" /\ r.do = "twoFactor" /\ Accepted(r)
           /\ u.twoFactor # account.twoFactor}

ServeFlight(r) ==
    /\ Reply(r)
    /\ LET u == r.had.user IN account' =
           CASE r.do = "homepage" -> [account EXCEPT !.homepage = r.to, !.pdf = u.pdf]
             [] r.do = "pdf" ->
                  [account EXCEPT !.homepage = u.homepage, !.pdf = PdfMerged(u.pdf, r.to)]
             [] r.do = "theme" -> [account EXCEPT !.homepage = u.homepage, !.pdf = u.pdf]
             [] r.do = "twoFactor" /\ Accepted(r) ->
                  [account EXCEPT !.twoFactor = IF u.twoFactor = 0 THEN r.had.secret ELSE 0]
             [] r.do = "finish" /\ Accepted(r) -> [account EXCEPT !.keys = u.keys \cup {r.on}]
             [] r.do = "unkey" -> [account EXCEPT !.keys = u.keys \ {r.on}]
             [] OTHER -> account
    /\ secretMade' = CASE r.do = "secret" -> r.n
                       [] r.do = "begin" -> r.had.secret
                       [] OTHER -> secretMade
    /\ challenge' = CASE r.do = "begin" -> r.n
                      [] r.do = "secret" -> r.had.challenge
                      [] OTHER -> challenge
    /\ davHeld' = CASE r.do = "add" -> davHeld \cup {r.on}
                    [] r.do = "delete" -> davHeld \ {r.on}
                    [] OTHER -> davHeld
    /\ davSaved' = CASE r.do = "rights" /\ r.to /\ r.on \in davHeld -> davSaved \cup {r.on}
                     [] r.do \in {"rights", "delete"} /\ ~r.to -> davSaved \ {r.on}
                     [] OTHER -> davSaved
    /\ gaps' = gaps \cup Overwritten(r)
    /\ UNCHANGED <<screen, davList, dialogState, changes>>

\* SetSession, RemoveAuthn and what deletes or changes an account do not tell the handler
\* that nothing could be saved.
ServeUnsaved(r) ==
    /\ r.do \in SaveSession \cup {"unkey", "delete", "rights"} /\ Reply(r)
    /\ gaps' = IF r.do \in SaveSession THEN gaps ELSE gaps \cup {"unsaved"}
    /\ UNCHANGED <<screen, onServer, davList, dialogState, changes>>

-----------------------------------------------------------------------------
(* The answers.                                                            *)

Answer(r, do) == r \in flights /\ r.served /\ r.ok /\ r.do = do
Landed(r) == flights' = flights \ {r}

SettingsLoaded(r) ==
    /\ Answer(r, "load") /\ Landed(r) /\ screen' = r.to
    /\ UNCHANGED <<onServer, davList, dialogState, changes, gaps>>

AccountsListed(r) ==
    /\ Answer(r, "list") /\ Landed(r) /\ dav' = r.seen
    /\ UNCHANGED <<screen, onServer, davRights, dialogState, changes, gaps>>

HomeToggled(r) ==
    /\ Answer(r, "homepage") /\ Landed(r)
    /\ screen' = [screen EXCEPT !.homepage = ~@]
    /\ UNCHANGED <<onServer, davList, dialogState, changes, gaps>>

\* changePdf: success closes whatever dialog is open.
PdfSaved(r) ==
    /\ Answer(r, "pdf") /\ Landed(r) /\ busy' = "none" /\ prompt' = "none"
    /\ UNCHANGED <<screen, onServer, davList, secretShown, changes, gaps>>

SecretCame(r) ==
    /\ Answer(r, "secret") /\ Landed(r)
    /\ secretShown' = r.to /\ prompt' = "twoFactor"
    /\ UNCHANGED <<screen, onServer, davList, busy, changes, gaps>>

\* changeNick, changhePwd, useGravatar, uploadAvatar, changeTheme.
PromptDone(r) ==
    /\ r.do \in DOMAIN SettingDialogs \ {"twoFactor"} /\ Answer(r, r.do) /\ Landed(r)
    /\ busy' = "none" /\ prompt' = IF SettingDialogs[r.do].closes THEN "none" ELSE prompt
    /\ UNCHANGED <<screen, onServer, davList, secretShown, changes, gaps>>

\* twoFactor: what is shown is flipped.
TwoFactorDone(r) ==
    /\ Answer(r, "twoFactor") /\ Landed(r) /\ busy' = "none" /\ prompt' = "none"
    /\ screen' = [screen EXCEPT !.twoFactor = ~@]
    /\ UNCHANGED <<onServer, davList, secretShown, changes, gaps>>

KeyBegun(r) ==
    /\ Answer(r, "begin")
    /\ flights' = (flights \ {r}) \cup
                  {[r EXCEPT !.do = "finish", !.to = r.n, !.read = FALSE, !.served = FALSE]}
    /\ UNCHANGED <<screen, onServer, davList, dialogState, changes, gaps>>

KeyAdded(r) ==
    /\ Answer(r, "finish") /\ Landed(r)
    /\ screen' = [screen EXCEPT !.keys = @ \cup {r.on}]
    /\ UNCHANGED <<onServer, davList, dialogState, changes, gaps>>

KeyRemoved(r) ==
    /\ Answer(r, "unkey") /\ Landed(r)
    /\ screen' = [screen EXCEPT !.keys = @ \ {r.on}]
    /\ UNCHANGED <<onServer, davList, dialogState, changes, gaps>>

\* Additions and deletions start from the accounts listed when they were sent.
Overlapped(r) == IF r.seen # dav THEN gaps \cup {"overlapped"} ELSE gaps

AccountAdded(r) ==
    /\ Answer(r, "add") /\ Landed(r)
    /\ dav' = r.seen \cup {r.on} /\ gaps' = Overlapped(r)
    /\ UNCHANGED <<screen, onServer, davRights, dialogState, changes>>

\* Seeded fault: the account stays in the list.
AccountDeletedKept(r) ==
    /\ Answer(r, "delete") /\ Landed(r)
    /\ dav' = r.seen /\ gaps' = Overlapped(r)
    /\ UNCHANGED <<screen, onServer, davRights, dialogState, changes>>

AccountDeleted(r) ==
    /\ Answer(r, "delete") /\ Landed(r)
    /\ dav' = r.seen \ {r.on} /\ davRights' = davRights \ {r.on} /\ gaps' = Overlapped(r)
    /\ UNCHANGED <<screen, onServer, dialogState, changes>>

\* The account itself is changed in place, the list is the one of the click.
AccountToggled(r) ==
    /\ Answer(r, "rights") /\ Landed(r)
    /\ davRights' = IF r.to THEN davRights \cup {r.on} ELSE davRights \ {r.on}
    /\ dav' = r.seen /\ gaps' = Overlapped(r)
    /\ UNCHANGED <<screen, onServer, dialogState, changes>>

\* Seeded fault: an error leaves the button disabled.
FlightFailedHeld(r) ==
    /\ r \in flights /\ Landed(r)
    /\ gaps' = IF r.ok THEN gaps \cup {"failed"} ELSE gaps
    /\ UNCHANGED <<screen, onServer, davList, prompt, busy, secretShown, changes>>

\* A request is refused, fails, or its answer is lost.
FlightFailed(r) ==
    /\ r \in flights /\ Landed(r)
    /\ busy' = IF r.do \in DOMAIN SettingDialogs \cup {"pdf"} THEN "none" ELSE busy
    /\ gaps' = IF r.ok THEN gaps \cup {"failed"} ELSE gaps
    /\ UNCHANGED <<screen, onServer, davList, prompt, secretShown, changes>>

SettingsNext ==
    \/ /\ view = "settings" /\ UNCHANGED view
       /\ \/ \E k \in Keys : AddKey(k)
          \/ /\ UNCHANGED spent
             /\ \/ ToggleHome \/ ClosePrompt \/ SubmitPrompt
                \/ \E s \in PdfSwitches : TogglePdf(s)
                \/ \E d \in DOMAIN SettingDialogs : OpenPrompt(d)
                \/ \E k \in Keys : RemoveKey(k)
    \/ /\ view = "webdav" /\ UNCHANGED view
       /\ \E x \in Accounts :
             \/ AddAccount(x)
             \/ (DeleteAccount(x) \/ ToggleAccount(x)) /\ UNCHANGED spent
    \/ /\ UNCHANGED <<view, spent>>
       /\ \E r \in flights :
          \/ LoadUser(r) \/ ServeFlight(r) \/ ServeUnsaved(r)
          \/ SettingsLoaded(r) \/ AccountsListed(r) \/ HomeToggled(r)
          \/ PdfSaved(r) \/ SecretCame(r) \/ PromptDone(r) \/ TwoFactorDone(r)
          \/ KeyBegun(r) \/ KeyAdded(r) \/ KeyRemoved(r)
          \/ AccountAdded(r) \/ AccountDeleted(r) \/ AccountToggled(r) \/ FlightFailed(r)

SettingsSpec == SettingsInit /\ [][SettingsNext]_settingsVars

-----------------------------------------------------------------------------
SettingsRecord(two) == [homepage : BOOLEAN, twoFactor : two, keys : SUBSET Keys,
                        pdf : [PdfSwitches -> BOOLEAN]]

SettingsTypeOK ==
    /\ screen \in SettingsRecord(BOOLEAN)
    /\ account \in SettingsRecord(0 .. MaxChanges + 1)
    /\ {secretShown, secretMade, challenge} \subseteq 0 .. MaxChanges
    /\ spent \subseteq Keys \cup Accounts
    /\ dav \cup davRights \cup davHeld \cup davSaved \subseteq Accounts
    /\ prompt \in {"none"} \cup DOMAIN SettingDialogs
    /\ busy \in {"none", "pdf"} \cup DOMAIN SettingDialogs

Settled == flights = {} /\ gaps \cap {"failed", "early", "unsaved"} = {}

(* With nothing under way the page shows what the server has, though every  *)
(* answer flips or extends whatever the page shows by then: two-factor      *)
(* authentication over refused codes, closed dialogs and second secrets,    *)
(* authenticators over registrations and removals, the home page unless its *)
(* switch is pressed again before the answer.  Where two requests both load *)
(* the user before either has saved, the second saves its column as it was  *)
(* before the first, and what the first had changed in the same column is   *)
(* lost though the page shows it: the home page, the PDF options and the    *)
(* theme are one column, the authenticators one, the secret one - but what  *)
(* crosses in different columns does no harm, nor do crossing changes of    *)
(* the session, after which a code or a registration is refused.  A PDF     *)
(* option that is shown on is on; one that is shown off need not be off,    *)
(* for the server never switches one off.                                   *)
SettingsShown ==
    view = "settings" /\ Settled =>
        /\ "two_factor" \notin gaps => screen.twoFactor = (account.twoFactor # 0)
        /\ "authn" \notin gaps => screen.keys = account.keys
        /\ gaps \cap {"twice", "options"} = {} => screen.homepage = account.homepage
        /\ "options" \notin gaps => \A s \in PdfSwitches : screen.pdf[s] => account.pdf[s]

(* With nothing under way the list of WebDAV accounts is that of the        *)
(* server, with their rights - unless the answer to a change was worked     *)
(* into a list that another change had replaced, or two toggles of one      *)
(* account crossed.                                                         *)
AccountsShown ==
    view = "webdav" /\ Settled /\ "overlapped" \notin gaps =>
        /\ dav = davHeld
        /\ "twice" \notin gaps => davRights \cap dav = davSaved

(* A button is disabled only while a request is under way whose answer will *)
(* enable it, however dialogs are closed, opened and submitted meanwhile.   *)
ButtonsFreed ==
    busy # "none" => \E r \in flights : r.do \in DOMAIN SettingDialogs \cup {"pdf"}
=============================================================================
