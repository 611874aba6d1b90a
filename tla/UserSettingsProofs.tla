-------------------------- MODULE UserSettingsProofs --------------------------
(***************************************************************************)
(* Theorems about the settings of a user, for any accounts, authenticators *)
(* and number of changes: no button stays disabled for ever, and with      *)
(* nothing under way the pages show what the server has.                   *)
(***************************************************************************)
EXTENDS UserSettings, FiniteSetTheorems, TLAPS

Step == SettingsNext \/ UNCHANGED settingsVars

\* What is sent for the settings, and what disables a button until it is answered.
Pending == DOMAIN SettingDialogs \cup {"pdf"}
Doing == Pending \cup {"load", "list", "secret", "homepage", "begin", "finish", "unkey",
                       "add", "delete", "rights"}

\* Requests are records of the fields of a flight.
FlightFields == {"n", "do", "on", "to", "seen", "read", "had", "served", "ok"}
ButtonInv ==
    /\ \A r \in flights : r = [x \in FlightFields |-> r[x]] /\ r.do \in Doing
    /\ prompt \in {"none"} \cup DOMAIN SettingDialogs
    /\ ButtonsFreed

(* The dialogs. *)
LEMMA Dialogs ==
    DOMAIN SettingDialogs = {"nick", "password", "avatar", "theme", "twoFactor", "interval"}
  BY DEF SettingDialogs

(* What is sent is a record of these fields. *)
LEMMA FlightMade ==
    \A do, on, to : LET r == Flight(do, on, to) IN
                    r = [x \in FlightFields |-> r[x]] /\ r.do = do
<1> SUFFICES ASSUME NEW do, NEW on, NEW to
             PROVE  LET r == Flight(do, on, to) IN
                    r = [x \in FlightFields |-> r[x]] /\ r.do = do
  OBVIOUS
<1> DEFINE r == Flight(do, on, to)
<1>1. DOMAIN r = FlightFields
  BY DEF Flight, FlightFields
<1>2. r = [x \in DOMAIN r |-> r[x]]
  BY DEF Flight
<1>3. r.do = do
  BY DEF Flight
<1> QED
  BY <1>1, <1>2, <1>3

IsFlight(r) == r = [x \in FlightFields |-> r[x]]

(* A request just sent, one that the server has answered, and one that goes *)
(* on as another.                                                          *)
Fresh(r, do, on, to) ==
    /\ IsFlight(r) /\ r.n = changes + 1 /\ r.do = do /\ r.on = on /\ r.to = to
    /\ r.seen = dav /\ r.read = FALSE /\ r.had = NothingLoaded
    /\ r.served = FALSE /\ r.ok = TRUE
Sending(r) == flights' = flights \cup {r} /\ changes' = changes + 1
Becomes(r, new) ==
    /\ IsFlight(new) /\ new.n = r.n /\ new.on = r.on
    /\ flights' = (flights \ {r}) \cup {new} /\ changes' = changes

(* What is sent is fresh. *)
LEMMA SentFresh ==
    ASSUME NEW do, NEW on, NEW to, Sent(do, on, to)
    PROVE  \E r : Fresh(r, do, on, to) /\ Sending(r) /\ changes < MaxChanges
<1> PICK r : r = Flight(do, on, to)
  OBVIOUS
<1>1. IsFlight(r)
  BY FlightMade DEF IsFlight
<1>2. /\ r.n = changes + 1 /\ r.do = do /\ r.on = on /\ r.to = to
      /\ r.seen = dav /\ r.read = FALSE /\ r.had = NothingLoaded
      /\ r.served = FALSE /\ r.ok = TRUE
  BY DEF Flight
<1> QED
  BY <1>1, <1>2 DEF Fresh, Sending, Sent

(* What the server loads, and what it answers. *)
Reads(r, new) ==
    /\ new.do = r.do /\ new.to = r.to /\ new.seen = r.seen /\ new.ok = r.ok
    /\ r.served = FALSE /\ new.served = FALSE /\ new.read = TRUE /\ new.had = Loaded
Answers(r, new) ==
    /\ new.do = r.do /\ new.served = TRUE /\ new.read = r.read /\ new.had = NothingLoaded
    /\ new.ok <=> Accepted(r)
    /\ new.to = IF r.do = "load" THEN SettingsOf(account)
                ELSE IF r.do = "secret" THEN r.n ELSE r.to
    /\ new.seen = IF r.do = "list" THEN davHeld ELSE r.seen

(* The server takes note of what it has loaded. *)
LEMMA LoadedBecomes ==
    ASSUME NEW r, IsFlight(r), r.served \in BOOLEAN, LoadUser(r)
    PROVE  \E new : Becomes(r, new) /\ Reads(r, new)
<1> PICK h : h = Loaded
  OBVIOUS
<1> PICK new : new = [r EXCEPT !.read = TRUE, !.had = h]
  OBVIOUS
<1>1. flights' = (flights \ {r}) \cup {new} /\ changes' = changes /\ r.served = FALSE
  BY DEF LoadUser
<1>2. /\ IsFlight(new) /\ new.n = r.n /\ new.on = r.on /\ new.do = r.do /\ new.to = r.to
      /\ new.seen = r.seen /\ new.ok = r.ok /\ new.served = r.served /\ new.read = TRUE
      /\ new.had = h
  BY DEF IsFlight, FlightFields
<1> QED
  BY <1>1, <1>2 DEF Becomes, Reads

(* Serving replaces a request by its answer. *)
LEMMA ServedBecomes ==
    ASSUME NEW r, IsFlight(r), Reply(r), changes' = changes
    PROVE  \E new : Becomes(r, new) /\ Answers(r, new) /\ new.ok \in BOOLEAN
<1> DEFINE To == CASE r.do = "load" -> SettingsOf(account)
                   [] r.do = "secret" -> r.n
                   [] OTHER -> r.to
           Seen == IF r.do = "list" THEN davHeld ELSE r.seen
<1> PICK ok \in BOOLEAN : ok = Accepted(r)
  BY DEF Accepted
<1>0. To = IF r.do = "load" THEN SettingsOf(account) ELSE IF r.do = "secret" THEN r.n ELSE r.to
  BY Zenon
<1> PICK to : to = To
  OBVIOUS
<1> PICK seen : seen = Seen
  OBVIOUS
<1> PICK none : none = NothingLoaded
  OBVIOUS
<1> PICK new : new = [r EXCEPT !.served = TRUE, !.ok = ok, !.had = none, !.to = to,
                               !.seen = seen]
  OBVIOUS
<1>1. AnswerTo(r) = new
  BY Zenon DEF AnswerTo
<1>2. flights' = (flights \ {r}) \cup {new}
  BY <1>1 DEF Reply
<1>3. /\ IsFlight(new) /\ new.n = r.n /\ new.on = r.on
      /\ new.do = r.do /\ new.served = TRUE /\ new.ok = ok /\ new.to = to
      /\ new.seen = seen /\ new.read = r.read /\ new.had = none
  BY DEF IsFlight, FlightFields
<1> QED
  BY <1>0, <1>2, <1>3 DEF Becomes, Answers

(* The registration of an authenticator goes on. *)
LEMMA BegunBecomes ==
    ASSUME NEW r, IsFlight(r), KeyBegun(r)
    PROVE  \E new : /\ Becomes(r, new) /\ new.do = "finish" /\ new.to = r.n
                    /\ new.served = FALSE /\ new.ok = r.ok /\ new.seen = r.seen
                    /\ new.read = FALSE /\ new.had = r.had
<1> PICK new : new = [r EXCEPT !.do = "finish", !.to = r.n, !.read = FALSE, !.served = FALSE]
  OBVIOUS
<1>1. flights' = (flights \ {r}) \cup {new} /\ changes' = changes
  BY DEF KeyBegun
<1>2. /\ IsFlight(new) /\ new.n = r.n /\ new.on = r.on
      /\ new.do = "finish" /\ new.to = r.n
      /\ new.served = FALSE /\ new.ok = r.ok /\ new.seen = r.seen
      /\ new.read = FALSE /\ new.had = r.had
  BY DEF IsFlight, FlightFields
<1> QED
  BY <1>1, <1>2 DEF Becomes

\* Whatever is sent leaves the flights there are.
LEMMA SentInv ==
    ASSUME ButtonInv, NEW do \in Doing, NEW on, NEW to, Sent(do, on, to),
           prompt' \in {"none"} \cup DOMAIN SettingDialogs,
           busy' \in {"none", busy} \/ do \in Pending
    PROVE  ButtonInv'
<1> PICK new : new = Flight(do, on, to)
  OBVIOUS
<1>1. new = [x \in FlightFields |-> new[x]] /\ new.do = do
  BY FlightMade
<1>2. flights' = flights \cup {new}
  BY DEF Sent
<1> QED
  BY <1>1, <1>2 DEF ButtonInv, ButtonsFreed, Pending

(* A disabled button has a request under way, before and after each step. *)
LEMMA ButtonStep == ButtonInv /\ Step => ButtonInv'
<1> SUFFICES ASSUME ButtonInv, Step
             PROVE  ButtonInv'
  OBVIOUS
<1>0. DOMAIN SettingDialogs \subseteq Doing /\ "pdf" \in Doing
  BY DEF Doing, Pending
<1>1. CASE ToggleHome \/ \E k \in Keys : AddKey(k) \/ RemoveKey(k)
  BY <1>1, SentInv DEF ToggleHome, AddKey, RemoveKey, dialogState, Doing, ButtonInv
<1>2. CASE \E x \in Accounts : AddAccount(x) \/ DeleteAccount(x) \/ ToggleAccount(x)
  BY <1>2, SentInv
  DEF AddAccount, DeleteAccount, ToggleAccount, dialogState, Doing, ButtonInv
<1>3. CASE \E s \in PdfSwitches : TogglePdf(s)
  BY <1>3, SentInv DEF TogglePdf, Doing, Pending, ButtonInv
<1>4. CASE \E d \in DOMAIN SettingDialogs : OpenPrompt(d)
  <2>1. PICK d \in DOMAIN SettingDialogs : OpenPrompt(d)
    BY <1>4
  <2>2. CASE Sent("secret", "none", 0) /\ UNCHANGED <<prompt, busy>>
    BY <2>2, SentInv DEF Doing, ButtonInv
  <2>3. CASE prompt' = d /\ UNCHANGED <<flights, busy>>
    BY <2>3 DEF ButtonInv, ButtonsFreed
  <2> QED
    BY <2>1, <2>2, <2>3 DEF OpenPrompt
<1>5. CASE ClosePrompt
  BY <1>5 DEF ClosePrompt, ButtonInv, ButtonsFreed
<1>6. CASE SubmitPrompt
  <2>1. PICK to : Sent(busy', "none", to)
    BY <1>6 DEF SubmitPrompt
  <2>3. busy' = LoadingOf(prompt) /\ prompt # "none" /\ prompt' = prompt
    BY <1>6 DEF SubmitPrompt
  <2>2. busy' \in Pending
    BY <2>3 DEF LoadingOf, ButtonInv, Pending
  <2> QED
    BY <2>1, <2>2, <2>3, SentInv DEF Doing, ButtonInv
<1>7. ASSUME NEW r \in flights,
             \/ SettingsLoaded(r) \/ AccountsListed(r) \/ HomeToggled(r) \/ SecretCame(r)
             \/ KeyAdded(r) \/ KeyRemoved(r)
             \/ AccountAdded(r) \/ AccountDeleted(r) \/ AccountToggled(r)
      PROVE  ButtonInv'
  <2>1. /\ flights' = flights \ {r} /\ r.do \notin Pending /\ busy' = busy
        /\ prompt' \in {prompt, "twoFactor"}
    BY <1>7, Dialogs
    DEF SettingsLoaded, AccountsListed, HomeToggled, SecretCame, KeyAdded,
       KeyRemoved, AccountAdded, AccountDeleted, AccountToggled, Answer, Landed, dialogState,
       Pending
  <2> QED
    BY <2>1, Dialogs DEF ButtonInv, ButtonsFreed, Pending
<1>8. ASSUME NEW r \in flights, PdfSaved(r) \/ PromptDone(r) \/ TwoFactorDone(r)
      PROVE  ButtonInv'
  <2>1. flights' = flights \ {r} /\ busy' = "none" /\ prompt' \in {prompt, "none"}
    BY <1>8 DEF PdfSaved, PromptDone, TwoFactorDone, Landed
  <2> QED
    BY <2>1 DEF ButtonInv, ButtonsFreed
<1>9. ASSUME NEW r \in flights, FlightFailed(r)
      PROVE  ButtonInv'
  <2>1. /\ flights' = flights \ {r} /\ prompt' = prompt
        /\ busy' = IF r.do \in Pending THEN "none" ELSE busy
    BY <1>9 DEF FlightFailed, Landed, Pending
  <2> QED
    BY <2>1 DEF ButtonInv, ButtonsFreed, Pending
<1>10. ASSUME NEW r \in flights, NEW new, new = [x \in FlightFields |-> new[x]],
              new.do = r.do \/ (new.do = "finish" /\ r.do = "begin"),
              flights' = (flights \ {r}) \cup {new}, UNCHANGED <<busy, prompt>>
       PROVE  ButtonInv'
  <2>1. new.do \in Doing /\ (r.do \in Pending => new.do \in Pending)
    BY <1>10, Dialogs DEF ButtonInv, Doing, Pending
  <2> QED
    BY <1>10, <2>1 DEF ButtonInv, ButtonsFreed, Pending
<1>11. ASSUME NEW r \in flights, LoadUser(r) \/ ServeFlight(r) \/ ServeUnsaved(r)
       PROVE  ButtonInv'
  <2>1. IsFlight(r)
    BY DEF ButtonInv, IsFlight
  <2>2. UNCHANGED <<busy, prompt, changes>>
    BY <1>11 DEF LoadUser, ServeFlight, ServeUnsaved, dialogState
  <2>3. CASE LoadUser(r)
    <3>1. PICK new : new = [r EXCEPT !.read = TRUE, !.had = Loaded]
      OBVIOUS
    <3>2. flights' = (flights \ {r}) \cup {new}
      BY <2>3, <3>1 DEF LoadUser
    <3>3. IsFlight(new) /\ new.do = r.do
      BY <2>1, <3>1 DEF IsFlight, FlightFields
    <3> QED
      BY <1>10, <2>2, <3>2, <3>3 DEF IsFlight
  <2>4. CASE Reply(r)
    <3>1. PICK new : Becomes(r, new) /\ Answers(r, new)
      BY <2>1, <2>2, <2>4, ServedBecomes
    <3> QED
      BY <1>10, <2>2, <3>1 DEF Becomes, Answers, IsFlight
  <2> QED
    BY <1>11, <2>3, <2>4 DEF ServeFlight, ServeUnsaved
<1>12. ASSUME NEW r \in flights, KeyBegun(r)
       PROVE  ButtonInv'
  <2>1. IsFlight(r) /\ r.do = "begin"
    BY <1>12 DEF ButtonInv, IsFlight, KeyBegun, Answer
  <2>2. PICK new : Becomes(r, new) /\ new.do = "finish"
    BY <1>12, <2>1, BegunBecomes
  <2>3. UNCHANGED <<busy, prompt>>
    BY <1>12 DEF KeyBegun, dialogState
  <2> QED
    BY <1>10, <2>1, <2>2, <2>3 DEF Becomes, IsFlight
<1>13. CASE UNCHANGED settingsVars
  BY <1>13 DEF settingsVars, dialogState, ButtonInv, ButtonsFreed
<1> QED
  BY <1>1, <1>2, <1>3, <1>4, <1>5, <1>6, <1>7, <1>8, <1>9, <1>11, <1>12, <1>13
     DEF Step, SettingsNext

\* SettingsSpec => []ButtonsFreed: a disabled button waits for an answer under way, however
\* the dialogs, which share one flag, are closed, opened and submitted.
THEOREM Freed == SettingsSpec => []ButtonsFreed
<1>1. SettingsInit => ButtonInv
  <2> SUFFICES ASSUME SettingsInit
               PROVE  ButtonInv
    OBVIOUS
  <2>1. PICK do \in {"load", "list"} : flights = {[Flight(do, "none", account) EXCEPT !.n = 0]}
    BY DEF SettingsInit
  <2> PICK new : new = [Flight(do, "none", account) EXCEPT !.n = 0]
    OBVIOUS
  <2>2. new = [x \in FlightFields |-> new[x]] /\ new.do = do
    BY DEF Flight, FlightFields
  <2> QED
    BY <2>1, <2>2 DEF SettingsInit, ButtonInv, ButtonsFreed, Doing
<1>2. ButtonInv => ButtonsFreed
  BY DEF ButtonInv
<1> QED
  BY <1>1, <1>2, ButtonStep, PTL DEF SettingsSpec, Step

-----------------------------------------------------------------------------
(* Types *)

(* What may be under way on a page. *)
Kinds(page) ==
    IF page = "settings"
    THEN DOMAIN SettingDialogs
         \cup {"pdf", "load", "secret", "homepage", "begin", "finish", "unkey"}
    ELSE {"list", "add", "delete", "rights"}

OnKey(r) == r.do \in {"begin", "finish", "unkey"}
HadOK(h) == /\ h.user \in SettingsRecord(0 .. MaxChanges + 1)
            /\ {h.secret, h.challenge} \subseteq 0 .. MaxChanges
FlightOK(r) ==
    /\ IsFlight(r) /\ r.n \in 0 .. changes /\ r.do \in Kinds(view)
    /\ r.served \in BOOLEAN /\ r.ok \in BOOLEAN /\ r.seen \subseteq Accounts
    /\ r.read \in BOOLEAN /\ HadOK(r.had)
    /\ (~r.served \/ r.do \notin {"twoFactor", "finish"}) => r.ok
    /\ r.do = "load" /\ r.served => r.to \in SettingsRecord(BOOLEAN)
    /\ r.do = "homepage" => r.on = "none" /\ r.to \in BOOLEAN
    /\ r.do = "pdf" => r.to \in [PdfSwitches -> BOOLEAN]
    /\ r.do = "secret" /\ r.served => r.to \in 0 .. MaxChanges
    /\ r.do = "finish" => r.to \in 0 .. MaxChanges
    /\ OnKey(r) => r.on \in Keys
    /\ r.do \in {"add", "delete", "rights"} => r.on \in Accounts /\ r.to \in BOOLEAN

(* A request has a number of its own. *)
TypeInv ==
    /\ SettingsTypeOK
    /\ view \in {"settings", "webdav"} /\ changes \in 0 .. MaxChanges
    /\ IsFiniteSet(flights)
    /\ \A r \in flights : FlightOK(r)
    /\ \A r, q \in flights : r.n = q.n => r = q

(* What is loaded is of its type. *)
LEMMA LoadedOK == TypeInv => HadOK(Loaded)
  BY DEF TypeInv, SettingsTypeOK, HadOK, Loaded

LEMMA NothingLoadedOK == HadOK(NothingLoaded)
<1>1. MaxChanges \in Nat
  BY SettingsAssumption
<1>2. BlankSettings \in SettingsRecord(0 .. MaxChanges + 1)
  BY <1>1 DEF BlankSettings, SettingsRecord
<1> QED
  BY <1>1, <1>2 DEF HadOK, NothingLoaded

(* A step on the page of the settings: a request is sent, read, served,      *)
(* answered, taken further or lost, or no request is concerned.             *)
SendsSetting(r) ==
    /\ Fresh(r, r.do, r.on, r.to) /\ Sending(r) /\ account' = account
    /\ r.do # "secret" /\ Arriving => "early" \in gaps'
    /\ \/ /\ r.do = "homepage" /\ r.on = "none" /\ r.to = ~screen.homepage
          /\ UNCHANGED <<screen, spent>>
          /\ Under("homepage", "none") => "twice" \in gaps'
       \/ /\ r.do = "pdf" /\ r.to = screen'.pdf /\ r.to \in [PdfSwitches -> BOOLEAN]
          /\ screen' \in SettingsRecord(BOOLEAN)
          /\ screen'.homepage = screen.homepage /\ screen'.keys = screen.keys
          /\ screen'.twoFactor = screen.twoFactor /\ spent' = spent
       \/ r.do \in DOMAIN SettingDialogs \cup {"secret"} /\ UNCHANGED <<screen, spent>>
       \/ /\ r.do = "begin" /\ r.on \in Keys \ spent /\ spent' = spent \cup {r.on}
          /\ screen' = screen
       \/ r.do = "unkey" /\ r.on \in screen.keys /\ UNCHANGED <<screen, spent>>

ReadsSetting(r, new) ==
    /\ Becomes(r, new) /\ Reads(r, new) /\ UNCHANGED <<account, screen, spent, gaps>>

\* What is served sets what it should, unless something of that column is lost.
ServesSetting(r, new) ==
    /\ r.served = FALSE /\ Becomes(r, new) /\ Answers(r, new) /\ new.ok \in BOOLEAN
    /\ UNCHANGED <<screen, spent>>
    /\ account' \in SettingsRecord(0 .. MaxChanges + 1)
    /\ r.do \in {"load", "secret"} => account' = account
    /\ gaps' \cap {"unsaved", "options"} = {} =>
         /\ account'.homepage = IF r.do = "homepage" THEN r.to ELSE account.homepage
         /\ account'.pdf = IF r.do = "pdf" THEN PdfMerged(account.pdf, r.to) ELSE account.pdf
    /\ gaps' \cap {"unsaved", "two_factor"} = {} =>
         IF r.do = "twoFactor" /\ new.ok THEN (account'.twoFactor # 0) <=> (account.twoFactor = 0)
         ELSE account'.twoFactor = account.twoFactor
    /\ gaps' \cap {"unsaved", "authn"} = {} =>
         account'.keys = IF r.do = "finish" /\ new.ok THEN account.keys \cup {r.on}
                         ELSE IF r.do = "unkey" THEN account.keys \ {r.on}
                         ELSE account.keys

LandsSetting(r) ==
    /\ r.served = TRUE /\ r.ok = TRUE /\ Landed(r)
    /\ UNCHANGED <<account, spent, gaps, changes>>
    /\ screen' = CASE r.do = "load" -> r.to
                   [] r.do = "homepage" -> [screen EXCEPT !.homepage = ~@]
                   [] r.do = "twoFactor" -> [screen EXCEPT !.twoFactor = ~@]
                   [] r.do = "finish" -> [screen EXCEPT !.keys = @ \cup {r.on}]
                   [] r.do = "unkey" -> [screen EXCEPT !.keys = @ \ {r.on}]
                   [] OTHER -> screen
    /\ r.do # "begin"

ContinuesSetting(r, new) ==
    /\ r.do = "begin" /\ r.served = TRUE /\ r.ok = TRUE
    /\ Becomes(r, new) /\ new.do = "finish" /\ new.to = r.n /\ new.served = FALSE
    /\ new.ok = TRUE /\ new.seen = r.seen /\ new.read = FALSE /\ new.had = r.had
    /\ UNCHANGED <<account, screen, spent, gaps>>

Fails(r) ==
    /\ Landed(r) /\ (r.ok => "failed" \in gaps') /\ changes' = changes
    /\ UNCHANGED <<account, screen, spent, davList, davServer>>

(* The records of settings, field by field. *)
LEMMA SettingsFields ==
    ASSUME NEW T, NEW s \in SettingsRecord(T)
    PROVE  /\ s.homepage \in BOOLEAN /\ s.twoFactor \in T /\ s.keys \subseteq Keys
           /\ s.pdf \in [PdfSwitches -> BOOLEAN]
           /\ \A x \in BOOLEAN :
                LET n == [s EXCEPT !.homepage = x] IN
                  /\ n \in SettingsRecord(T) /\ n.homepage = x
                  /\ n.twoFactor = s.twoFactor /\ n.keys = s.keys /\ n.pdf = s.pdf
           /\ \A x : LET n == [s EXCEPT !.twoFactor = x] IN
                  /\ \A U : x \in U => n \in SettingsRecord(U)
                  /\ n.twoFactor = x
                  /\ n.homepage = s.homepage /\ n.keys = s.keys /\ n.pdf = s.pdf
           /\ \A x \in SUBSET Keys :
                LET n == [s EXCEPT !.keys = x] IN
                  /\ n \in SettingsRecord(T) /\ n.keys = x
                  /\ n.homepage = s.homepage /\ n.twoFactor = s.twoFactor /\ n.pdf = s.pdf
           /\ \A x \in [PdfSwitches -> BOOLEAN] :
                LET n == [s EXCEPT !.pdf = x] IN
                  /\ n \in SettingsRecord(T) /\ n.pdf = x
                  /\ n.homepage = s.homepage /\ n.twoFactor = s.twoFactor /\ n.keys = s.keys
BY DEF SettingsRecord

(* What serving does to the settings of the user. *)
LEMMA ServedSettings ==
    ASSUME TypeInv, NEW r \in flights, ServeFlight(r)
    PROVE  /\ account' \in SettingsRecord(0 .. MaxChanges + 1)
           /\ r.do \in {"load", "secret"} => account' = account
           /\ "options" \notin gaps' =>
                /\ account'.homepage = IF r.do = "homepage" THEN r.to ELSE account.homepage
                /\ account'.pdf = IF r.do = "pdf" THEN PdfMerged(account.pdf, r.to)
                                  ELSE account.pdf
           /\ "two_factor" \notin gaps' =>
                IF r.do = "twoFactor" /\ Accepted(r)
                THEN (account'.twoFactor # 0) <=> (account.twoFactor = 0)
                ELSE account'.twoFactor = account.twoFactor
           /\ "authn" \notin gaps' =>
                account'.keys = IF r.do = "finish" /\ Accepted(r) THEN account.keys \cup {r.on}
                                ELSE IF r.do = "unkey" THEN account.keys \ {r.on}
                                ELSE account.keys
<1>0. /\ FlightOK(r) /\ account \in SettingsRecord(0 .. MaxChanges + 1)
      /\ gaps' = gaps \cup Overwritten(r)
  BY DEF TypeInv, SettingsTypeOK, ServeFlight
<1> PICK u : u = r.had.user
  OBVIOUS
<1>1. /\ u \in SettingsRecord(0 .. MaxChanges + 1) /\ r.had.secret \in 0 .. MaxChanges
      /\ u.homepage \in BOOLEAN /\ u.pdf \in [PdfSwitches -> BOOLEAN] /\ u.keys \subseteq Keys
      /\ account.homepage \in BOOLEAN /\ account.pdf \in [PdfSwitches -> BOOLEAN]
      /\ account.keys \subseteq Keys /\ account.twoFactor \in 0 .. MaxChanges + 1
      /\ r.do = "homepage" => r.to \in BOOLEAN
      /\ r.do = "pdf" => r.to \in [PdfSwitches -> BOOLEAN]
      /\ OnKey(r) => r.on \in Keys
  BY <1>0, SettingsFields DEF FlightOK, HadOK
<1>o. r.do \in SaveOptions /\ "options" \notin gaps' =>
        u.homepage = account.homepage /\ u.pdf = account.pdf
  BY <1>0 DEF Overwritten
<1>t. r.do = "twoFactor" /\ Accepted(r) /\ "two_factor" \notin gaps' =>
        u.twoFactor = account.twoFactor
  BY <1>0 DEF Overwritten, SaveOptions, SaveAuthn
<1>k. r.do \in SaveAuthn /\ Accepted(r) /\ "authn" \notin gaps' => u.keys = account.keys
  BY <1>0 DEF Overwritten, SaveOptions, SaveAuthn
<1>2. CASE r.do = "homepage"
  <2>1. account' = [account EXCEPT !.homepage = r.to, !.pdf = u.pdf]
    BY <1>2 DEF ServeFlight
  <2>2. /\ account' \in SettingsRecord(0 .. MaxChanges + 1)
        /\ account'.homepage = r.to /\ account'.pdf = u.pdf
        /\ account'.twoFactor = account.twoFactor /\ account'.keys = account.keys
    BY <1>0, <1>1, <1>2, <2>1 DEF SettingsRecord
  <2> QED
    BY <1>2, <1>o, <2>2 DEF SaveOptions
<1>3. CASE r.do \in {"pdf", "theme"}
  <2>1. PICK new : new = IF r.do = "pdf" THEN PdfMerged(u.pdf, r.to) ELSE u.pdf
    OBVIOUS
  <2>2. new \in [PdfSwitches -> BOOLEAN]
    BY <1>1, <2>1 DEF PdfMerged
  <2>3. account' = [account EXCEPT !.homepage = u.homepage, !.pdf = new]
    <3>1. CASE r.do = "pdf"
      <4>1. account' = [account EXCEPT !.homepage = u.homepage, !.pdf = PdfMerged(u.pdf, r.to)]
        BY <3>1 DEF ServeFlight
      <4> QED
        BY <2>1, <3>1, <4>1
    <3>2. CASE r.do = "theme"
      <4>1. account' = [account EXCEPT !.homepage = u.homepage, !.pdf = u.pdf]
        BY <3>2 DEF ServeFlight
      <4> QED
        BY <2>1, <3>2, <4>1
    <3> QED
      BY <1>3, <3>1, <3>2
  <2>4. /\ account' \in SettingsRecord(0 .. MaxChanges + 1)
        /\ account'.homepage = u.homepage /\ account'.pdf = new
        /\ account'.twoFactor = account.twoFactor /\ account'.keys = account.keys
    BY <1>0, <1>1, <2>2, <2>3 DEF SettingsRecord
  <2> QED
    BY <1>3, <1>o, <2>1, <2>4 DEF SaveOptions
<1>4. CASE r.do = "twoFactor" /\ Accepted(r)
  <2>1. PICK new \in 0 .. MaxChanges + 1 :
          /\ new = IF u.twoFactor = 0 THEN r.had.secret ELSE 0
          /\ account' = [account EXCEPT !.twoFactor = new]
    <3>1. MaxChanges \in Nat
      BY SettingsAssumption
    <3> QED
      BY <1>1, <1>4, <3>1 DEF ServeFlight
  <2>2. /\ account' \in SettingsRecord(0 .. MaxChanges + 1)
        /\ account'.homepage = account.homepage /\ account'.pdf = account.pdf
        /\ account'.twoFactor = new /\ account'.keys = account.keys
    BY <1>0, <2>1 DEF SettingsRecord
  <2>3. u.twoFactor = 0 => r.had.secret # 0
    BY <1>4 DEF Accepted, RightCode
  <2> QED
    BY <1>4, <1>t, <2>1, <2>2, <2>3
<1>5. CASE (r.do = "finish" /\ Accepted(r)) \/ r.do = "unkey"
  <2>1. PICK new \in SUBSET Keys :
          /\ new = IF r.do = "finish" THEN u.keys \cup {r.on} ELSE u.keys \ {r.on}
          /\ account' = [account EXCEPT !.keys = new]
    BY <1>1, <1>5 DEF ServeFlight, OnKey
  <2>2. /\ account' \in SettingsRecord(0 .. MaxChanges + 1)
        /\ account'.homepage = account.homepage /\ account'.pdf = account.pdf
        /\ account'.twoFactor = account.twoFactor /\ account'.keys = new
    BY <1>0, <2>1, SettingsFields
  <2>3. r.do = "unkey" => Accepted(r)
    BY DEF Accepted
  <2> QED
    BY <1>5, <1>k, <2>1, <2>2, <2>3 DEF SaveAuthn
<1>6. CASE /\ r.do \notin {"homepage", "pdf", "theme", "unkey"}
           /\ ~(r.do \in {"twoFactor", "finish"} /\ Accepted(r))
  <2>1. account' = account
    BY <1>6 DEF ServeFlight
  <2> QED
    BY <1>0, <1>6, <2>1
<1> QED
  BY <1>2, <1>3, <1>4, <1>5, <1>6

(* On the page of the settings no step does anything else. *)
LEMMA SettingsMoves ==
    ASSUME TypeInv, view = "settings", Step
    PROVE  /\ view' = view /\ gaps \subseteq gaps'
           /\ \/ \E r : SendsSetting(r) /\ changes < MaxChanges
              \/ \E r \in flights : \E new : ReadsSetting(r, new) \/ ServesSetting(r, new)
              \/ \E r \in flights : LandsSetting(r)
              \/ \E r \in flights : \E new : ContinuesSetting(r, new)
              \/ \E r \in flights : Fails(r)
              \/ UNCHANGED <<flights, changes, account, screen, spent, gaps>>
<1>0. /\ \A r \in flights : FlightOK(r)
      /\ screen \in SettingsRecord(BOOLEAN) /\ account \in SettingsRecord(0 .. MaxChanges + 1)
  BY DEF TypeInv, SettingsTypeOK
<1>1. CASE ToggleHome /\ UNCHANGED <<view, spent>>
  <2>1. PICK r : /\ Fresh(r, "homepage", "none", ~screen.homepage) /\ Sending(r)
                 /\ changes < MaxChanges
    BY <1>1, SentFresh DEF ToggleHome
  <2>2. SendsSetting(r)
    BY <1>1, <2>1 DEF SendsSetting, ToggleHome, Fresh, Early, onServer
  <2> QED
    BY <1>1, <2>1, <2>2 DEF ToggleHome, Early
<1>2. ASSUME NEW s \in PdfSwitches, TogglePdf(s), UNCHANGED <<view, spent>>
      PROVE  /\ view' = view /\ gaps \subseteq gaps'
             /\ \E r : SendsSetting(r) /\ changes < MaxChanges
  <2>1. PICK r : Fresh(r, "pdf", "none", screen'.pdf) /\ Sending(r) /\ changes < MaxChanges
    BY <1>2, SentFresh DEF TogglePdf
  <2>2. /\ screen'.homepage = screen.homepage /\ screen'.keys = screen.keys
        /\ screen'.twoFactor = screen.twoFactor
        /\ screen'.pdf \in [PdfSwitches -> BOOLEAN]
        /\ screen' \in SettingsRecord(BOOLEAN)
    BY <1>0, <1>2 DEF TogglePdf, SettingsRecord
  <2>3. SendsSetting(r)
    BY <1>2, <2>1, <2>2 DEF SendsSetting, TogglePdf, Fresh, Early, onServer
  <2> QED
    BY <1>2, <2>1, <2>3 DEF TogglePdf, Early
<1>3. ASSUME NEW d, OpenPrompt(d), UNCHANGED <<view, spent>>
      PROVE  /\ view' = view /\ gaps \subseteq gaps'
             /\ \/ \E r : SendsSetting(r) /\ changes < MaxChanges
                \/ UNCHANGED <<flights, changes, account, screen, spent, gaps>>
  <2>1. CASE Sent("secret", "none", 0)
    <3>1. PICK r : Fresh(r, "secret", "none", 0) /\ Sending(r) /\ changes < MaxChanges
      BY <2>1, SentFresh
    <3>2. SendsSetting(r)
      BY <1>3, <3>1 DEF SendsSetting, OpenPrompt, Fresh, onServer
    <3> QED
      BY <1>3, <3>1, <3>2 DEF OpenPrompt
  <2>2. CASE UNCHANGED <<flights, changes>>
    BY <1>3, <2>2 DEF OpenPrompt, onServer
  <2> QED
    BY <1>3, <2>1, <2>2 DEF OpenPrompt
<1>4. CASE ClosePrompt /\ UNCHANGED <<view, spent>>
  BY <1>4 DEF ClosePrompt, onServer
<1>5. CASE SubmitPrompt /\ UNCHANGED <<view, spent>>
  <2>1. PICK to : Sent(busy', "none", to) /\ to \in Entered(prompt)
    BY <1>5 DEF SubmitPrompt
  <2>2. PICK r : Fresh(r, busy', "none", to) /\ Sending(r) /\ changes < MaxChanges
    BY <2>1, SentFresh
  <2>3. /\ busy' \in (DOMAIN SettingDialogs \ {"interval"}) \cup {"pdf"}
        /\ busy' = "pdf" => to = screen.pdf
    BY <1>5, <2>1, Dialogs DEF SubmitPrompt, LoadingOf, Entered, TypeInv, SettingsTypeOK
  <2>4. screen.pdf \in [PdfSwitches -> BOOLEAN]
    BY <1>0 DEF SettingsRecord
  <2>5. SendsSetting(r)
    BY <1>0, <1>5, <2>2, <2>3, <2>4, Dialogs
    DEF SendsSetting, SubmitPrompt, Fresh, Early, onServer
  <2> QED
    BY <1>5, <2>2, <2>5 DEF SubmitPrompt, Early
<1>6. ASSUME NEW k \in Keys, AddKey(k) \/ (RemoveKey(k) /\ spent' = spent), view' = view
      PROVE  /\ view' = view /\ gaps \subseteq gaps'
             /\ \E r : SendsSetting(r) /\ changes < MaxChanges
  <2>1. PICK do \in {"begin", "unkey"} :
          /\ Sent(do, k, 0) /\ gaps' = Early /\ UNCHANGED <<screen, onServer>>
          /\ \/ do = "begin" /\ k \in Keys \ spent /\ spent' = spent \cup {k}
             \/ do = "unkey" /\ k \in screen.keys /\ spent' = spent
    BY <1>6 DEF AddKey, RemoveKey
  <2>2. PICK r : Fresh(r, do, k, 0) /\ Sending(r) /\ changes < MaxChanges
    BY <2>1, SentFresh
  <2>3. SendsSetting(r)
    BY <2>1, <2>2 DEF SendsSetting, Fresh, Early, onServer
  <2> QED
    BY <1>6, <2>1, <2>2, <2>3 DEF Early
<1>7. ASSUME NEW r \in flights, UNCHANGED <<view, spent>>,
             LoadUser(r) \/ ServeFlight(r) \/ ServeUnsaved(r)
      PROVE  /\ view' = view /\ gaps \subseteq gaps'
             /\ \E new : ReadsSetting(r, new) \/ ServesSetting(r, new)
  <2>0. FlightOK(r) /\ IsFlight(r) /\ r.served \in BOOLEAN
    BY <1>0 DEF FlightOK
  <2>1. CASE LoadUser(r)
    <3>1. PICK new : Becomes(r, new) /\ Reads(r, new)
      BY <2>0, <2>1, LoadedBecomes
    <3>2. ReadsSetting(r, new)
      BY <1>7, <2>1, <3>1 DEF ReadsSetting, LoadUser, onServer
    <3> QED
      BY <1>7, <2>1, <3>2 DEF LoadUser
  <2>2. CASE ServeFlight(r)
    <3>1. PICK new : Becomes(r, new) /\ Answers(r, new) /\ new.ok \in BOOLEAN
      BY <2>0, <2>2, ServedBecomes DEF ServeFlight
    <3>2. new.ok <=> Accepted(r)
      BY <3>1 DEF Answers
    <3>3. r.served = FALSE /\ UNCHANGED <<screen, spent>> /\ gaps \subseteq gaps'
      BY <1>7, <2>0, <2>2 DEF ServeFlight, Reply
    <3>4. ServesSetting(r, new)
      BY <2>2, <3>1, <3>2, <3>3, ServedSettings DEF ServesSetting
    <3> QED
      BY <1>7, <3>3, <3>4
  <2>3. CASE ServeUnsaved(r)
    <3>1. PICK new : Becomes(r, new) /\ Answers(r, new) /\ new.ok \in BOOLEAN
      BY <2>0, <2>3, ServedBecomes DEF ServeUnsaved
    <3>2. /\ r.served = FALSE /\ UNCHANGED <<screen, spent, account>> /\ gaps \subseteq gaps'
          /\ \/ r.do \in {"secret", "begin"}
             \/ "unsaved" \in gaps' /\ r.do \in {"unkey", "delete", "rights"}
      BY <1>7, <2>0, <2>3 DEF ServeUnsaved, Reply, onServer, SaveSession
    <3>3. ServesSetting(r, new)
      BY <1>0, <3>1, <3>2 DEF ServesSetting
    <3> QED
      BY <1>7, <3>2, <3>3
  <2> QED
    BY <1>7, <2>1, <2>2, <2>3
<1>8. ASSUME NEW r \in flights, UNCHANGED <<view, spent>>,
             \/ SettingsLoaded(r) \/ HomeToggled(r) \/ PdfSaved(r) \/ SecretCame(r)
             \/ PromptDone(r) \/ TwoFactorDone(r) \/ KeyAdded(r) \/ KeyRemoved(r)
      PROVE  view' = view /\ gaps \subseteq gaps' /\ LandsSetting(r)
  <2>1. r.served = TRUE /\ r.ok = TRUE
    BY <1>0, <1>8
    DEF FlightOK, SettingsLoaded, HomeToggled, PdfSaved, SecretCame, PromptDone,
       TwoFactorDone, KeyAdded, KeyRemoved, Answer
  <2>2. /\ Landed(r) /\ r.do # "begin" /\ UNCHANGED <<account, gaps, changes>>
    BY <1>8, Dialogs DEF SettingsLoaded, HomeToggled, PdfSaved, SecretCame, PromptDone,
       TwoFactorDone, KeyAdded, KeyRemoved, Answer, onServer
  <2>3. CASE SettingsLoaded(r) \/ HomeToggled(r) \/ TwoFactorDone(r)
    BY <1>8, <2>1, <2>2, <2>3
    DEF LandsSetting, SettingsLoaded, HomeToggled, TwoFactorDone, Answer
  <2>4. CASE KeyAdded(r) \/ KeyRemoved(r)
    BY <1>8, <2>1, <2>2, <2>4 DEF LandsSetting, KeyAdded, KeyRemoved, Answer
  <2>5. CASE PdfSaved(r) \/ SecretCame(r) \/ PromptDone(r)
    <3>1. /\ r.do \notin {"load", "homepage", "twoFactor", "finish", "unkey"}
          /\ screen' = screen
      BY <2>5, Dialogs DEF PdfSaved, SecretCame, PromptDone, Answer
    <3> QED
      BY <1>8, <2>1, <2>2, <3>1 DEF LandsSetting
  <2> QED
    BY <1>8, <2>2, <2>3, <2>4, <2>5
<1>9. ASSUME NEW r \in flights, UNCHANGED <<view, spent>>,
             AccountsListed(r) \/ AccountAdded(r) \/ AccountDeleted(r) \/ AccountToggled(r)
      PROVE  FALSE
  BY <1>0, <1>9, Dialogs
  DEF AccountsListed, AccountAdded, AccountDeleted, AccountToggled,
     Answer, FlightOK, Kinds
<1>10. ASSUME NEW r \in flights, KeyBegun(r), UNCHANGED <<view, spent>>
       PROVE  /\ view' = view /\ gaps \subseteq gaps' /\ \E new : ContinuesSetting(r, new)
  <2>1. IsFlight(r) /\ r.do = "begin" /\ r.served = TRUE /\ r.ok = TRUE
    BY <1>0, <1>10 DEF FlightOK, KeyBegun, Answer
  <2>2. PICK new : /\ Becomes(r, new) /\ new.do = "finish" /\ new.to = r.n
                   /\ new.served = FALSE /\ new.ok = r.ok /\ new.seen = r.seen
                   /\ new.read = FALSE /\ new.had = r.had
    BY <1>10, <2>1, BegunBecomes
  <2>3. UNCHANGED <<account, screen, gaps>>
    BY <1>10 DEF KeyBegun, onServer
  <2>4. ContinuesSetting(r, new)
    BY <1>10, <2>1, <2>2, <2>3 DEF ContinuesSetting
  <2> QED
    BY <1>10, <2>3, <2>4
<1>11. ASSUME NEW r \in flights, FlightFailed(r), UNCHANGED <<view, spent>>
       PROVE  /\ view' = view /\ gaps \subseteq gaps' /\ Fails(r)
  BY <1>11 DEF FlightFailed, Fails, onServer, davServer, davList
<1>12. CASE UNCHANGED settingsVars
  BY <1>12 DEF settingsVars, onServer
<1> QED
  BY <1>1, <1>2, <1>3, <1>4, <1>5, <1>6, <1>7, <1>8, <1>9, <1>10, <1>11, <1>12
  DEF Step, SettingsNext

(* A step on the page of the WebDAV accounts. *)
SendsAccount(r) ==
    /\ Fresh(r, r.do, r.on, r.to) /\ Sending(r) /\ UNCHANGED <<davList, davServer>>
    /\ Arriving => "early" \in gaps'
    /\ \/ /\ r.do = "add" /\ r.on \in Accounts \ spent /\ spent' = spent \cup {r.on}
          /\ r.to = FALSE
       \/ r.do = "delete" /\ r.on \in dav /\ r.to = FALSE /\ spent' = spent
       \/ /\ r.do = "rights" /\ r.on \in dav /\ r.to = (r.on \notin davRights)
          /\ spent' = spent /\ (Under("rights", r.on) => "twice" \in gaps')

SavesAccount(r) ==
    /\ gaps' = gaps
    /\ davHeld' = CASE r.do = "add" -> davHeld \cup {r.on}
                    [] r.do = "delete" -> davHeld \ {r.on}
                    [] OTHER -> davHeld
    /\ davSaved' = CASE r.do = "rights" /\ r.to /\ r.on \in davHeld -> davSaved \cup {r.on}
                     [] r.do \in {"rights", "delete"} /\ ~r.to -> davSaved \ {r.on}
                     [] OTHER -> davSaved

\* The server does what it is asked for, or says so.
ServesAccount(r, new) ==
    /\ r.served = FALSE /\ Becomes(r, new)
    /\ new.do = r.do /\ new.served = TRUE /\ new.ok = TRUE
    /\ new.read = r.read /\ new.had = NothingLoaded
    /\ new.seen = IF r.do = "list" THEN davHeld ELSE r.seen
    /\ r.do # "list" => new.to = r.to
    /\ UNCHANGED <<davList, spent>>
    /\ \/ "unsaved" \in gaps' /\ r.do # "list" /\ UNCHANGED davServer
       \/ SavesAccount(r)

LandsAccount(r) ==
    /\ r.served = TRUE /\ Landed(r) /\ UNCHANGED <<davServer, spent, changes>>
    /\ gaps' = IF r.do # "list" /\ r.seen # dav THEN gaps \cup {"overlapped"} ELSE gaps
    /\ dav' = CASE r.do = "add" -> r.seen \cup {r.on}
                [] r.do = "delete" -> r.seen \ {r.on}
                [] OTHER -> r.seen
    /\ davRights' = CASE r.do = "rights" /\ r.to -> davRights \cup {r.on}
                      [] (r.do = "rights" /\ ~r.to) \/ r.do = "delete" -> davRights \ {r.on}
                      [] OTHER -> davRights

(* On the page of the accounts no step does anything else. *)
LEMMA AccountsMoves ==
    ASSUME TypeInv, view = "webdav", Step
    PROVE  /\ view' = view /\ gaps \subseteq gaps' /\ account' = account
           /\ \/ \E r : SendsAccount(r) /\ changes < MaxChanges
              \/ \E r \in flights : \E new : ServesAccount(r, new)
              \/ \E r \in flights : LandsAccount(r)
              \/ \E r \in flights : Fails(r)
              \/ UNCHANGED <<flights, changes, davList, davServer, spent, gaps>>
<1>0. \A r \in flights : FlightOK(r)
  BY DEF TypeInv
<1> DEFINE Kept == view' = view /\ gaps \subseteq gaps' /\ account' = account
<1>1. ASSUME NEW x \in Accounts, view' = view,
             \/ AddAccount(x)
             \/ (DeleteAccount(x) \/ ToggleAccount(x)) /\ spent' = spent
      PROVE  Kept /\ \E r : SendsAccount(r) /\ changes < MaxChanges
  <2>1. PICK do \in {"add", "delete", "rights"}, to \in BOOLEAN :
          /\ Sent(do, x, to) /\ UNCHANGED <<screen, onServer, davList>>
          /\ Early \subseteq gaps'
          /\ \/ do = "add" /\ x \in Accounts \ spent /\ spent' = spent \cup {x} /\ to = FALSE
             \/ do = "delete" /\ x \in dav /\ to = FALSE /\ spent' = spent
             \/ /\ do = "rights" /\ x \in dav /\ to = (x \notin davRights)
                /\ spent' = spent /\ (Under("rights", x) => "twice" \in gaps')
    BY <1>1 DEF AddAccount, DeleteAccount, ToggleAccount
  <2>2. PICK r : Fresh(r, do, x, to) /\ Sending(r) /\ changes < MaxChanges
    BY <2>1, SentFresh
  <2>3. SendsAccount(r)
    BY <2>1, <2>2 DEF SendsAccount, Fresh, Early, onServer
  <2> QED
    BY <1>1, <2>1, <2>2, <2>3 DEF Early, onServer
<1>2. ASSUME NEW r \in flights, ServeFlight(r) \/ ServeUnsaved(r), UNCHANGED <<view, spent>>
      PROVE  Kept /\ \E new : ServesAccount(r, new)
  <2>0. /\ FlightOK(r) /\ IsFlight(r) /\ Reply(r) /\ UNCHANGED <<changes, davList>>
        /\ gaps \subseteq gaps'
    BY <1>0, <1>2 DEF FlightOK, ServeFlight, ServeUnsaved
  <2>1. PICK new : Becomes(r, new) /\ Answers(r, new) /\ new.ok \in BOOLEAN
    BY <2>0, ServedBecomes
  <2>2. r.do \in {"list", "add", "delete", "rights"} /\ r.served = FALSE
    BY <2>0 DEF FlightOK, Kinds, Reply
  <2>3. /\ new.do = r.do /\ new.served = TRUE /\ new.ok = TRUE
        /\ new.seen = IF r.do = "list" THEN davHeld ELSE r.seen
        /\ new.to = r.to /\ new.read = r.read /\ new.had = NothingLoaded
    BY <2>1, <2>2 DEF Answers, Accepted
  <2>4. ASSUME ServeFlight(r) PROVE account' = account /\ SavesAccount(r)
    <3>1. Overwritten(r) = {}
      <4>1. r.do \notin SaveOptions \cup SaveAuthn \cup {"twoFactor"}
        BY <2>2 DEF SaveOptions, SaveAuthn
      <4> QED
        BY <4>1 DEF Overwritten
    <3>3. account' = account
      BY <2>2, <2>4 DEF ServeFlight
    <3>2. /\ davHeld' = CASE r.do = "add" -> davHeld \cup {r.on}
                          [] r.do = "delete" -> davHeld \ {r.on}
                          [] OTHER -> davHeld
          /\ davSaved' = CASE r.do = "rights" /\ r.to /\ r.on \in davHeld -> davSaved \cup {r.on}
                           [] r.do \in {"rights", "delete"} /\ ~r.to -> davSaved \ {r.on}
                           [] OTHER -> davSaved
          /\ gaps' = gaps \cup Overwritten(r)
      BY <2>4 DEF ServeFlight
    <3> QED
      BY <3>1, <3>2, <3>3 DEF SavesAccount
  <2>5. ASSUME ServeUnsaved(r)
        PROVE  account' = account /\ "unsaved" \in gaps' /\ r.do # "list" /\ UNCHANGED davServer
    BY <2>2, <2>5 DEF ServeUnsaved, SaveSession, onServer
  <2>6. ServesAccount(r, new)
    BY <1>2, <2>0, <2>1, <2>2, <2>3, <2>4, <2>5 DEF ServesAccount
  <2> QED
    BY <1>2, <2>0, <2>4, <2>5, <2>6
<1>3. ASSUME NEW r \in flights, UNCHANGED <<view, spent>>,
             AccountsListed(r) \/ AccountAdded(r) \/ AccountDeleted(r) \/ AccountToggled(r)
      PROVE  Kept /\ LandsAccount(r)
  <2>1. r.served = TRUE
    BY <1>0, <1>3
    DEF FlightOK, AccountsListed, AccountAdded, AccountDeleted, AccountToggled,
       Answer
  <2>2. CASE AccountsListed(r)
    BY <1>3, <2>1, <2>2 DEF LandsAccount, AccountsListed, Answer, onServer
  <2>3. CASE AccountAdded(r)
    BY <1>3, <2>1, <2>3 DEF LandsAccount, AccountAdded, Answer, onServer, Overlapped
  <2>4. CASE AccountDeleted(r)
    BY <1>3, <2>1, <2>4 DEF LandsAccount, AccountDeleted, Answer, onServer, Overlapped
  <2>5. CASE AccountToggled(r)
    BY <1>3, <2>1, <2>5 DEF LandsAccount, AccountToggled, Answer, onServer, Overlapped
  <2> QED
    BY <1>3, <2>2, <2>3, <2>4, <2>5
<1>4. ASSUME NEW r \in flights, FlightFailed(r), UNCHANGED <<view, spent>>
      PROVE  Kept /\ Fails(r)
  BY <1>4 DEF FlightFailed, Fails, onServer, davServer, davList
<1>5. ASSUME NEW r \in flights,
             \/ SettingsLoaded(r) \/ HomeToggled(r) \/ PdfSaved(r) \/ SecretCame(r)
             \/ PromptDone(r) \/ TwoFactorDone(r) \/ KeyBegun(r) \/ KeyAdded(r)
             \/ KeyRemoved(r) \/ LoadUser(r)
      PROVE  FALSE
  BY <1>0, <1>5, Dialogs
  DEF LoadUser, Saves, SaveOptions, SaveAuthn, SaveSession, SettingsLoaded,
      HomeToggled, PdfSaved, SecretCame, PromptDone,
     TwoFactorDone, KeyBegun, KeyAdded, KeyRemoved, Answer, FlightOK, Kinds
<1>6. CASE UNCHANGED settingsVars
  BY <1>6 DEF settingsVars, onServer
<1> QED
  BY <1>1, <1>2, <1>3, <1>4, <1>5, <1>6 DEF Step, SettingsNext

(* Requests keep their types, and a number each. *)
LEMMA FlightsStep ==
    ASSUME TypeInv, view' = view,
           \/ \E r : FlightOK(r)' /\ r.n = changes + 1 /\ Sending(r) /\ changes < MaxChanges
           \/ \E r \in flights : \E new : Becomes(r, new) /\ FlightOK(new)'
           \/ (\E r \in flights : Landed(r)) /\ changes' = changes
           \/ UNCHANGED <<flights, changes>>
    PROVE  /\ changes' \in 0 .. MaxChanges /\ IsFiniteSet(flights)'
           /\ \A r \in flights' : FlightOK(r)'
           /\ \A r, q \in flights' : r.n = q.n => r = q
<1>0. /\ changes \in 0 .. MaxChanges /\ MaxChanges \in Nat /\ IsFiniteSet(flights)
      /\ \A r \in flights : FlightOK(r) /\ r.n \in 0 .. changes
      /\ \A r, q \in flights : r.n = q.n => r = q
  BY SettingsAssumption DEF TypeInv, FlightOK
<1>1. ASSUME changes' \in {changes, changes + 1}, NEW r \in flights PROVE FlightOK(r)'
  BY <1>0, <1>1 DEF FlightOK
<1>2. CASE \E r : FlightOK(r)' /\ r.n = changes + 1 /\ Sending(r) /\ changes < MaxChanges
  <2>1. PICK r : FlightOK(r)' /\ r.n = changes + 1 /\ Sending(r) /\ changes < MaxChanges
    BY <1>2
  <2>2. IsFiniteSet(flights')
    BY <1>0, <2>1, FS_AddElement DEF Sending
  <2> QED
    BY <1>0, <1>1, <2>1, <2>2 DEF Sending
<1>3. CASE \E r \in flights : \E new : Becomes(r, new) /\ FlightOK(new)'
  <2>0. PICK r \in flights : \E new : Becomes(r, new) /\ FlightOK(new)'
    BY <1>3
  <2>1. PICK new : Becomes(r, new) /\ FlightOK(new)'
    BY <2>0
  <2>2. IsFiniteSet(flights')
    <3>1. IsFiniteSet(flights \ {r})
      BY <1>0, FS_RemoveElement
    <3> QED
      BY <2>1, <3>1, FS_AddElement DEF Becomes
  <2> QED
    BY <1>0, <1>1, <2>1, <2>2 DEF Becomes
<1>4. CASE (\E r \in flights : Landed(r)) /\ changes' = changes
  <2>1. IsFiniteSet(flights')
    BY <1>0, <1>4, FS_RemoveElement DEF Landed
  <2> QED
    BY <1>0, <1>1, <1>4, <2>1 DEF Landed
<1>5. CASE UNCHANGED <<flights, changes>>
  BY <1>0, <1>1, <1>5
<1> QED
  BY <1>2, <1>3, <1>4, <1>5

(* What the page, the server and the dialogs hold keeps its type. *)
LEMMA HeldTypeStep ==
    ASSUME TypeInv, Step
    PROVE  /\ {secretShown', secretMade', challenge'} \subseteq 0 .. MaxChanges
           /\ spent' \subseteq Keys \cup Accounts
           /\ dav' \cup davRights' \cup davHeld' \cup davSaved' \subseteq Accounts
           /\ prompt' \in {"none"} \cup DOMAIN SettingDialogs
           /\ busy' \in {"none", "pdf"} \cup DOMAIN SettingDialogs
<1>0. /\ \A r \in flights : FlightOK(r)
      /\ changes \in 0 .. MaxChanges /\ MaxChanges \in Nat
      /\ {secretShown, secretMade, challenge} \subseteq 0 .. MaxChanges
      /\ spent \subseteq Keys \cup Accounts
      /\ dav \cup davRights \cup davHeld \cup davSaved \subseteq Accounts
      /\ prompt \in {"none"} \cup DOMAIN SettingDialogs
      /\ busy \in {"none", "pdf"} \cup DOMAIN SettingDialogs
  BY SettingsAssumption DEF TypeInv, SettingsTypeOK
<1>1. CASE \/ ToggleHome /\ UNCHANGED spent
           \/ \E k \in Keys : AddKey(k) \/ (RemoveKey(k) /\ UNCHANGED spent)
           \/ \E x \in Accounts :
                \/ AddAccount(x)
                \/ (DeleteAccount(x) \/ ToggleAccount(x)) /\ UNCHANGED spent
  BY <1>0, <1>1
  DEF ToggleHome, AddKey, RemoveKey, AddAccount, DeleteAccount, ToggleAccount,
     onServer, davServer, davList, dialogState
<1>2. CASE /\ UNCHANGED spent
           /\ \/ ClosePrompt \/ SubmitPrompt \/ \E s \in PdfSwitches : TogglePdf(s)
              \/ \E d \in DOMAIN SettingDialogs : OpenPrompt(d)
  BY <1>0, <1>2, Dialogs
  DEF ClosePrompt, SubmitPrompt, TogglePdf, OpenPrompt, LoadingOf,
     onServer, davServer, davList
<1>3. ASSUME NEW r \in flights, UNCHANGED spent, ServeFlight(r)
      PROVE  /\ {secretShown', secretMade', challenge'} \subseteq 0 .. MaxChanges
             /\ dav' \cup davRights' \cup davHeld' \cup davSaved' \subseteq Accounts
             /\ UNCHANGED <<prompt, busy>>
  <2>1. /\ r.n \in 0 .. MaxChanges /\ {r.had.secret, r.had.challenge} \subseteq 0 .. MaxChanges
        /\ r.do \in {"add", "delete", "rights"} => r.on \in Accounts
    BY <1>0 DEF FlightOK, HadOK
  <2>2. /\ secretMade' \in {r.n, secretMade, r.had.secret}
        /\ challenge' \in {r.n, challenge, r.had.challenge}
    BY <1>3 DEF ServeFlight
  <2>3. davHeld' \subseteq Accounts /\ davSaved' \subseteq Accounts
    <3>1. \/ davHeld' = davHeld \/ davHeld' = davHeld \ {r.on}
          \/ r.do = "add" /\ davHeld' = davHeld \cup {r.on}
      BY <1>3 DEF ServeFlight
    <3>2. \/ davSaved' = davSaved \/ davSaved' = davSaved \ {r.on}
          \/ r.do = "rights" /\ davSaved' = davSaved \cup {r.on}
      BY <1>3 DEF ServeFlight
    <3> QED
      BY <1>0, <2>1, <3>1, <3>2
  <2> QED
    BY <1>0, <1>3, <2>1, <2>2, <2>3 DEF ServeFlight, davList, dialogState
<1>4. ASSUME NEW r \in flights, UNCHANGED spent,
             \/ SettingsLoaded(r) \/ AccountsListed(r) \/ HomeToggled(r)
             \/ PdfSaved(r) \/ SecretCame(r) \/ PromptDone(r) \/ TwoFactorDone(r)
             \/ KeyBegun(r) \/ KeyAdded(r) \/ KeyRemoved(r) \/ FlightFailed(r)
             \/ LoadUser(r) \/ ServeUnsaved(r)
      PROVE  /\ secretShown' \in 0 .. MaxChanges /\ UNCHANGED onServer
             /\ dav' \subseteq Accounts /\ UNCHANGED davRights
             /\ prompt' \in {"none", "twoFactor", prompt} /\ busy' \in {"none", busy}
  <2>1. /\ r.seen \subseteq Accounts
        /\ r.do = "secret" /\ r.served => r.to \in 0 .. MaxChanges
    BY <1>0 DEF FlightOK
  <2> QED
    BY <1>0, <1>4, <2>1
    DEF SettingsLoaded, AccountsListed, HomeToggled, PdfSaved, SecretCame, PromptDone,
       TwoFactorDone, KeyBegun, KeyAdded, KeyRemoved, FlightFailed, LoadUser, ServeUnsaved, Answer,
       davList, dialogState
<1>5. ASSUME NEW r \in flights, UNCHANGED spent,
             AccountAdded(r) \/ AccountDeleted(r) \/ AccountToggled(r)
      PROVE  /\ UNCHANGED <<onServer, dialogState>> /\ dav' \subseteq Accounts
             /\ davRights' \subseteq Accounts
  <2>1. r.seen \subseteq Accounts /\ r.on \in Accounts
    BY <1>0, <1>5 DEF FlightOK, AccountAdded, AccountDeleted, AccountToggled, Answer
  <2> QED
    BY <1>0, <1>5, <2>1 DEF AccountAdded, AccountDeleted, AccountToggled
<1>6. CASE UNCHANGED settingsVars
  BY <1>0, <1>6 DEF settingsVars, onServer, davServer, davList, dialogState
<1>7. ASSUME UNCHANGED <<onServer, spent>>,
             /\ secretShown' \in 0 .. MaxChanges
             /\ dav' \subseteq Accounts /\ davRights' \subseteq Accounts
             /\ prompt' \in {"none", "twoFactor", prompt} /\ busy' \in {"none", busy}
      PROVE  /\ {secretShown', secretMade', challenge'} \subseteq 0 .. MaxChanges
             /\ spent' \subseteq Keys \cup Accounts
             /\ dav' \cup davRights' \cup davHeld' \cup davSaved' \subseteq Accounts
             /\ prompt' \in {"none"} \cup DOMAIN SettingDialogs
             /\ busy' \in {"none", "pdf"} \cup DOMAIN SettingDialogs
  BY <1>0, <1>7, Dialogs DEF onServer, davServer
<1>8. CASE SettingsNext
  <2>1. CASE view = "settings" /\ ~(\E r \in flights : ServeFlight(r))
    BY <1>0, <1>1, <1>2, <1>4, <1>5, <1>7, <1>8, <2>1
    DEF SettingsNext, dialogState, davList
  <2>2. CASE view # "settings" /\ ~(\E r \in flights : ServeFlight(r))
    BY <1>0, <1>1, <1>4, <1>5, <1>7, <1>8, <2>2 DEF SettingsNext, dialogState, davList
  <2>3. CASE \E r \in flights : ServeFlight(r)
    <3>1. PICK r \in flights : ServeFlight(r)
      BY <2>3
    <3>2. CASE spent' = spent
      BY <1>0, <1>3, <3>1, <3>2
    <3>3. CASE spent' # spent
      BY <1>0, <1>1, <1>8, <3>3 DEF SettingsNext
    <3> QED
      BY <3>2, <3>3
  <2> QED
    BY <2>1, <2>2, <2>3
<1> QED
  BY <1>6, <1>8 DEF Step

(* Every step keeps the types, stays on its page and forgets no gap. *)
LEMMA TypeStep ==
    ASSUME TypeInv, Step
    PROVE  TypeInv' /\ view' = view /\ gaps \subseteq gaps'
<1>0. /\ \A r \in flights : FlightOK(r)
      /\ changes \in 0 .. MaxChanges /\ MaxChanges \in Nat
      /\ screen \in SettingsRecord(BOOLEAN) /\ account \in SettingsRecord(0 .. MaxChanges + 1)
      /\ dav \subseteq Accounts /\ davHeld \subseteq Accounts /\ screen.keys \subseteq Keys
      /\ secretMade \in 0 .. MaxChanges /\ view \in {"settings", "webdav"}
  BY SettingsAssumption, SettingsFields DEF TypeInv, SettingsTypeOK
<1> DEFINE Moved == \/ \E r : FlightOK(r)' /\ r.n = changes + 1 /\ Sending(r)
                              /\ changes < MaxChanges
                    \/ \E r \in flights : \E new : Becomes(r, new) /\ FlightOK(new)'
                    \/ (\E r \in flights : Landed(r)) /\ changes' = changes
                    \/ UNCHANGED <<flights, changes>>
           Recorded == /\ screen' \in SettingsRecord(BOOLEAN)
                       /\ account' \in SettingsRecord(0 .. MaxChanges + 1)
<1>1. ASSUME view = "settings"
      PROVE  view' = view /\ gaps \subseteq gaps' /\ Moved /\ Recorded
  <2>0. view' = view /\ gaps \subseteq gaps'
    BY <1>1, SettingsMoves
  <2>1. ASSUME NEW r, SendsSetting(r), changes < MaxChanges PROVE Moved /\ Recorded
    <3>1. /\ Fresh(r, r.do, r.on, r.to) /\ Sending(r) /\ account' = account
      BY <2>1 DEF SendsSetting
    <3>2. FlightOK(r)'
      <4>1. /\ IsFlight(r) /\ r.n = changes + 1 /\ r.seen = dav /\ r.read = FALSE
            /\ r.served = FALSE /\ r.ok = TRUE /\ changes' = changes + 1 /\ HadOK(r.had)
        BY <3>1, NothingLoadedOK DEF Fresh, Sending
      <4>2. r.n \in 0 .. changes'
        BY <1>0, <4>1
      <4>3. /\ r.do \in Kinds(view')
            /\ r.do = "homepage" => r.on = "none" /\ r.to \in BOOLEAN
            /\ r.do = "pdf" => r.to \in [PdfSwitches -> BOOLEAN]
            /\ r.do \notin {"finish", "add", "delete", "rights"}
            /\ OnKey(r) => r.on \in Keys
        <5>1. screen.homepage \in BOOLEAN
          BY <1>0, SettingsFields
        <5> QED
          BY <1>0, <1>1, <2>0, <2>1, <5>1, Dialogs DEF SendsSetting, Kinds, OnKey
      <4> QED
        BY <1>0, <4>1, <4>2, <4>3 DEF FlightOK, OnKey, IsFlight
    <3>3. screen' \in SettingsRecord(BOOLEAN)
      BY <1>0, <2>1 DEF SendsSetting
    <3> QED
      BY <1>0, <2>1, <3>1, <3>2, <3>3 DEF Fresh
  <2>2. ASSUME NEW r \in flights, NEW new, ServesSetting(r, new)
        PROVE  Moved /\ Recorded
    <3>1. /\ Becomes(r, new) /\ new.ok \in BOOLEAN /\ screen' = screen /\ FlightOK(r)
          /\ new.do = r.do /\ new.served = TRUE /\ r.served = FALSE
          /\ new.read \in BOOLEAN /\ HadOK(new.had)
          /\ account' \in SettingsRecord(0 .. MaxChanges + 1)
      BY <1>0, <2>2, NothingLoadedOK DEF ServesSetting, Answers, FlightOK
    <3>2. /\ r.do = "load" => new.to = SettingsOf(account)
          /\ r.do = "secret" => new.to = r.n
          /\ r.do \notin {"load", "secret"} => new.to = r.to
          /\ new.seen = r.seen
          /\ r.do \notin {"twoFactor", "finish"} => new.ok
      <4>1. r.do # "list"
        BY <1>1, <3>1, Dialogs DEF FlightOK, Kinds
      <4> QED
        BY <2>2, <4>1 DEF ServesSetting, Answers, Accepted
    <3>3. SettingsOf(account) \in SettingsRecord(BOOLEAN)
      BY <1>0, SettingsFields DEF SettingsOf
    <3>4. FlightOK(new)'
      <4>1. /\ IsFlight(new) /\ new.n = r.n /\ new.on = r.on /\ changes' = changes
        BY <3>1 DEF Becomes
      <4>2. /\ r.n \in 0 .. MaxChanges
        BY <1>0, <3>1 DEF FlightOK
      <4> QED
        BY <1>0, <2>0, <3>1, <3>2, <3>3, <4>1, <4>2 DEF FlightOK, OnKey, IsFlight
    <3> QED
      BY <1>0, <3>1, <3>4
  <2>3. ASSUME NEW r \in flights, LandsSetting(r) PROVE Moved /\ Recorded
    <3>1. /\ FlightOK(r) /\ r.served /\ Landed(r) /\ changes' = changes /\ account' = account
      BY <1>0, <2>3 DEF LandsSetting
    <3>2. screen' \in SettingsRecord(BOOLEAN)
      <4>1. /\ r.do = "load" => r.to \in SettingsRecord(BOOLEAN)
            /\ OnKey(r) => r.on \in Keys
        BY <3>1 DEF FlightOK
      <4>2. /\ screen.homepage \in BOOLEAN /\ screen.twoFactor \in BOOLEAN
            /\ OnKey(r) => /\ screen.keys \cup {r.on} \in SUBSET Keys
                           /\ screen.keys \ {r.on} \in SUBSET Keys
        BY <1>0, <4>1, SettingsFields
      <4>3. CASE screen' = screen \/ (r.do = "load" /\ screen' = r.to)
        BY <1>0, <4>1, <4>3
      <4>4. CASE screen' = [screen EXCEPT !.homepage = ~@]
        BY <1>0, <4>2, <4>4, SettingsFields
      <4>5. CASE screen' = [screen EXCEPT !.twoFactor = ~@]
        BY <1>0, <4>2, <4>5, SettingsFields
      <4>6. CASE /\ OnKey(r)
                 /\ \/ screen' = [screen EXCEPT !.keys = @ \cup {r.on}]
                    \/ screen' = [screen EXCEPT !.keys = @ \ {r.on}]
        BY <1>0, <4>2, <4>6, SettingsFields
      <4> QED
        BY <2>3, <4>3, <4>4, <4>5, <4>6 DEF LandsSetting, OnKey
    <3> QED
      BY <1>0, <3>1, <3>2
  <2>4. ASSUME NEW r \in flights, NEW new, ContinuesSetting(r, new)
        PROVE  Moved /\ Recorded
    <3>1. /\ Becomes(r, new) /\ FlightOK(r) /\ r.do = "begin" /\ new.do = "finish"
          /\ new.to = r.n /\ new.served = FALSE /\ new.ok = TRUE /\ new.seen = r.seen
          /\ new.read = FALSE /\ new.had = r.had /\ account' = account /\ screen' = screen
      BY <1>0, <2>4 DEF ContinuesSetting
    <3>2. FlightOK(new)'
      <4>1. /\ IsFlight(new) /\ new.n = r.n /\ new.on = r.on /\ changes' = changes
        BY <3>1 DEF Becomes
      <4>2. /\ r.n \in 0 .. MaxChanges
        BY <1>0, <3>1 DEF FlightOK
      <4> QED
        BY <1>0, <1>1, <2>0, <3>1, <4>1, <4>2 DEF FlightOK, OnKey, IsFlight, Kinds
    <3> QED
      BY <1>0, <3>1, <3>2
  <2>5. ASSUME NEW r \in flights, Fails(r) PROVE Moved /\ Recorded
    BY <1>0, <2>5 DEF Fails
  <2>6. ASSUME NEW r \in flights, NEW new, ReadsSetting(r, new)
        PROVE  Moved /\ Recorded
    <3>1. /\ Becomes(r, new) /\ FlightOK(r) /\ new.do = r.do /\ new.to = r.to
          /\ new.seen = r.seen /\ new.ok = r.ok /\ new.served = FALSE /\ r.served = FALSE
          /\ new.read = TRUE /\ HadOK(new.had) /\ UNCHANGED <<account, screen>>
      BY <1>0, <2>6, LoadedOK DEF ReadsSetting, Reads
    <3>2. FlightOK(new)'
      <4>1. /\ IsFlight(new) /\ new.n = r.n /\ new.on = r.on /\ changes' = changes
        BY <3>1 DEF Becomes
      <4>2. /\ r.n \in 0 .. changes /\ r.do \in Kinds(view) /\ r.ok = TRUE
            /\ r.seen \subseteq Accounts
            /\ r.do = "homepage" => r.on = "none" /\ r.to \in BOOLEAN
            /\ r.do = "pdf" => r.to \in [PdfSwitches -> BOOLEAN]
            /\ r.do = "finish" => r.to \in 0 .. MaxChanges
            /\ OnKey(r) => r.on \in Keys
            /\ r.do \in {"add", "delete", "rights"} => r.on \in Accounts /\ r.to \in BOOLEAN
        BY <3>1 DEF FlightOK
      <4> QED
        BY <2>0, <3>1, <4>1, <4>2 DEF FlightOK, OnKey, IsFlight
    <3> QED
      BY <1>0, <3>1, <3>2
  <2> QED
    BY <1>0, <1>1, <2>0, <2>1, <2>2, <2>3, <2>4, <2>5, <2>6, SettingsMoves
<1>2. ASSUME view = "webdav"
      PROVE  view' = view /\ gaps \subseteq gaps' /\ Moved /\ Recorded
  <2>0. /\ view' = view /\ gaps \subseteq gaps' /\ account' = account
        /\ screen' = screen
    <3>1. screen' = screen
      <4>1. \A r \in flights : r.do \notin {"load", "homepage", "twoFactor", "finish", "unkey"}
        BY <1>0, <1>2, Dialogs DEF FlightOK, Kinds
      <4>2. ASSUME NEW x \in Accounts, AddAccount(x) \/ DeleteAccount(x) \/ ToggleAccount(x)
            PROVE  screen' = screen
        BY <4>2 DEF AddAccount, DeleteAccount, ToggleAccount
      <4>3. ASSUME NEW r \in flights,
                   \/ LoadUser(r) \/ ServeFlight(r) \/ ServeUnsaved(r) \/ AccountsListed(r)
                   \/ PdfSaved(r) \/ SecretCame(r) \/ PromptDone(r) \/ KeyBegun(r)
                   \/ AccountAdded(r) \/ AccountDeleted(r) \/ AccountToggled(r) \/ FlightFailed(r)
            PROVE  screen' = screen
        BY <4>3
        DEF LoadUser, ServeFlight, ServeUnsaved, AccountsListed, PdfSaved, SecretCame,
           PromptDone, KeyBegun, AccountAdded, AccountDeleted, AccountToggled, FlightFailed
      <4>4. ASSUME NEW r \in flights,
                   \/ SettingsLoaded(r) \/ HomeToggled(r) \/ TwoFactorDone(r)
                   \/ KeyAdded(r) \/ KeyRemoved(r)
            PROVE  FALSE
        BY <4>1, <4>4
        DEF SettingsLoaded, HomeToggled, TwoFactorDone, KeyAdded, KeyRemoved, Answer
      <4>5. CASE UNCHANGED settingsVars
        BY <4>5 DEF settingsVars
      <4> QED
        BY <1>2, <4>2, <4>3, <4>4, <4>5 DEF Step, SettingsNext
    <3> QED
      BY <1>2, <3>1, AccountsMoves
  <2>1. ASSUME NEW r, SendsAccount(r), changes < MaxChanges PROVE Moved
    <3>1. /\ Fresh(r, r.do, r.on, r.to) /\ Sending(r)
      BY <2>1 DEF SendsAccount
    <3>2. FlightOK(r)'
      <4>1. /\ IsFlight(r) /\ r.n = changes + 1 /\ r.seen = dav /\ r.read = FALSE
            /\ r.served = FALSE /\ r.ok = TRUE /\ changes' = changes + 1 /\ HadOK(r.had)
        BY <3>1, NothingLoadedOK DEF Fresh, Sending
      <4>2. r.n \in 0 .. changes'
        BY <1>0, <4>1
      <4>3. /\ r.do \in {"add", "delete", "rights"}
            /\ r.on \in Accounts /\ r.to \in BOOLEAN
        BY <1>0, <2>1 DEF SendsAccount
      <4> QED
        BY <1>0, <1>2, <2>0, <4>1, <4>2, <4>3 DEF FlightOK, OnKey, IsFlight, Kinds
    <3> QED
      BY <2>1, <3>1, <3>2 DEF Fresh
  <2>2. ASSUME NEW r \in flights, NEW new, ServesAccount(r, new) PROVE Moved
    <3>1. /\ Becomes(r, new) /\ FlightOK(r) /\ new.do = r.do /\ new.served = TRUE
          /\ new.ok = TRUE /\ new.seen = IF r.do = "list" THEN davHeld ELSE r.seen
          /\ r.do # "list" => new.to = r.to
          /\ new.read = r.read /\ HadOK(new.had)
      BY <1>0, <2>2, NothingLoadedOK DEF ServesAccount
    <3>2. FlightOK(new)'
      <4>1. /\ IsFlight(new) /\ new.n = r.n /\ new.on = r.on /\ changes' = changes
        BY <3>1 DEF Becomes
      <4>2. r.do \in {"list", "add", "delete", "rights"}
        BY <1>2, <3>1 DEF FlightOK, Kinds
      <4>3. new.seen \subseteq Accounts
        BY <1>0, <3>1 DEF FlightOK
      <4> QED
        BY <1>0, <1>2, <2>0, <3>1, <4>1, <4>2, <4>3 DEF FlightOK, OnKey, IsFlight, Kinds
    <3> QED
      BY <3>1, <3>2
  <2>3. ASSUME NEW r \in flights, LandsAccount(r) \/ Fails(r) PROVE Moved
    BY <2>3 DEF LandsAccount, Fails
  <2> QED
    BY <1>0, <1>2, <2>0, <2>1, <2>2, <2>3, AccountsMoves
<1>3. view' = view /\ gaps \subseteq gaps' /\ Moved /\ Recorded
  BY <1>0, <1>1, <1>2
<1> HIDE DEF Recorded
<1>4. /\ changes' \in 0 .. MaxChanges /\ IsFiniteSet(flights)'
      /\ \A r \in flights' : FlightOK(r)'
      /\ \A r, q \in flights' : r.n = q.n => r = q
  BY <1>3, FlightsStep
<1> QED
  BY <1>0, <1>3, <1>4, HeldTypeStep DEF TypeInv, SettingsTypeOK, Recorded

-----------------------------------------------------------------------------
(* The page of the settings *)

Clean == gaps \cap {"failed", "early", "unsaved"} = {}
Served(r, do, on) == r.do = do /\ r.on = on /\ r.served = TRUE /\ r.ok = TRUE

(* Until the settings arrive the page is blank, and nothing but secrets is   *)
(* asked for.                                                               *)
Loading == \E r \in flights : r.do = "load"
Blank ==
    /\ screen = SettingsOf(BlankSettings) /\ account.keys = {}
    /\ \A r \in flights : r.do \in {"load", "secret"}
    /\ \A r, q \in flights : r.do = "load" /\ q.do = "load" => r = q
    /\ \A r \in flights : r.do = "load" /\ r.served => r.to = SettingsOf(account)

(* The switch of the home page is off by what is under way for it. *)
HomeInv ==
    /\ \A r, q \in flights : r.do = "homepage" /\ q.do = "homepage" => r = q
    /\ \A r \in flights : r.do = "homepage" =>
         /\ r.to = ~screen.homepage
         /\ account.homepage = IF r.served THEN r.to ELSE screen.homepage
    /\ (\A r \in flights : r.do # "homepage") => screen.homepage = account.homepage

(* Every right code flips two-factor authentication, once on the server and  *)
(* once on the page: the two differ while an odd number has only come to    *)
(* the server.                                                              *)
Flips == {r \in flights : r.do = "twoFactor" /\ r.served = TRUE /\ r.ok = TRUE}
Odd(n) == n % 2 = 1
TwoFactorInv == Odd(Cardinality(Flips)) <=> (screen.twoFactor # (account.twoFactor # 0))

(* An authenticator is registered once, by one request, and removed after;  *)
(* page and server differ by what has only come to the server.              *)
KeyInv ==
    /\ screen.keys \subseteq spent
    /\ \A r \in flights : OnKey(r) => r.on \in spent
    /\ \A r \in flights : r.do \in {"begin", "finish"} =>
         /\ r.on \notin screen.keys
         /\ \A q \in flights : OnKey(q) /\ q.on = r.on => q = r
         /\ r.do = "begin" \/ ~r.served => r.on \notin account.keys
         /\ Served(r, "finish", r.on) => r.on \in account.keys
    /\ \A r \in flights : r.do = "unkey" /\ r.served => r.on \notin account.keys
    /\ \A k \in account.keys \ screen.keys : \E r \in flights : Served(r, "finish", k)
    /\ \A k \in screen.keys \ account.keys : \E r \in flights : Served(r, "unkey", k)

(* A PDF option that is shown on is on, or about to be. *)
PdfInv ==
    \A s \in PdfSwitches : screen.pdf[s] =>
        account.pdf[s] \/ \E r \in flights : r.do = "pdf" /\ ~r.served /\ r.to[s]

Shown == /\ gaps \cap {"twice", "options"} = {} => HomeInv
         /\ "two_factor" \notin gaps => TwoFactorInv
         /\ "authn" \notin gaps => KeyInv
         /\ "options" \notin gaps => PdfInv
SettingsInv ==
    view = "settings" /\ Clean => IF Loading THEN Blank ELSE Shown

(* A step after the settings have arrived, in which nothing fails. *)
Moves ==
    /\ \/ \E r : SendsSetting(r)
       \/ \E r \in flights : \E new : ReadsSetting(r, new) \/ ServesSetting(r, new)
       \/ \E r \in flights : LandsSetting(r)
       \/ \E r \in flights : \E new : ContinuesSetting(r, new)
       \/ \E r \in flights : Fails(r)
       \/ UNCHANGED <<flights, changes, account, screen, spent, gaps>>
    /\ ~Loading /\ Clean' /\ gaps \subseteq gaps'

(* The switch of the home page, unless it is pressed again before the answer. *)
LEMMA HomeStep ==
    ASSUME TypeInv, Moves, gaps' \cap {"twice", "options"} = {}, HomeInv
    PROVE  HomeInv'
<1>0. /\ screen \in SettingsRecord(BOOLEAN) /\ account \in SettingsRecord(0 .. MaxChanges + 1)
      /\ screen.homepage \in BOOLEAN /\ account.homepage \in BOOLEAN
      /\ \A r \in flights : FlightOK(r)
      /\ gaps \subseteq gaps' /\ Clean' /\ ~Loading
  BY SettingsFields DEF TypeInv, SettingsTypeOK, Moves
<1>1. ASSUME NEW r, SendsSetting(r) PROVE HomeInv'
  <2>1. /\ flights' = flights \cup {r} /\ account' = account /\ r.served = FALSE
        /\ screen'.homepage = screen.homepage
    BY <1>1 DEF SendsSetting, Fresh, Sending
  <2>2. CASE r.do = "homepage"
    <3>1. r.to = ~screen.homepage /\ \A q \in flights : q.do # "homepage"
      BY <1>0, <1>1, <2>2, Dialogs DEF SendsSetting, Under, FlightOK
    <3> QED
      BY <1>0, <2>1, <2>2, <3>1 DEF HomeInv
  <2>3. CASE r.do # "homepage"
    BY <1>0, <2>1, <2>3 DEF HomeInv
  <2> QED
    BY <2>2, <2>3
<1>2. ASSUME NEW r \in flights, NEW new, ServesSetting(r, new) PROVE HomeInv'
  <2>1. /\ flights' = (flights \ {r}) \cup {new} /\ screen' = screen
        /\ new.do = r.do /\ new.served = TRUE /\ r.served = FALSE
        /\ r.do = "homepage" => new.to = r.to
    BY <1>2, Dialogs DEF ServesSetting, Answers, Becomes
  <2>2. CASE r.do = "homepage"
    <3>1. r.to \in BOOLEAN /\ account'.homepage = r.to
      BY <1>0, <1>2, <2>2 DEF ServesSetting, FlightOK, Clean
    <3> QED
      BY <1>0, <2>1, <2>2, <3>1 DEF HomeInv
  <2>3. CASE r.do # "homepage"
    <3>1. account'.homepage = account.homepage
      BY <1>0, <1>2, <2>3 DEF ServesSetting, Clean
    <3> QED
      BY <1>0, <2>1, <2>3, <3>1 DEF HomeInv
  <2> QED
    BY <2>2, <2>3
<1>3. ASSUME NEW r \in flights, LandsSetting(r) PROVE HomeInv'
  <2>1. /\ flights' = flights \ {r} /\ account' = account /\ r.served = TRUE
        /\ r.do # "load"
    BY <1>0, <1>3 DEF LandsSetting, Landed, Loading
  <2>2. CASE r.do = "homepage"
    <3>1. screen'.homepage = ~screen.homepage
      BY <1>0, <1>3, <2>2 DEF LandsSetting, SettingsRecord
    <3> QED
      BY <1>0, <2>1, <2>2, <3>1 DEF HomeInv
  <2>3. CASE r.do # "homepage"
    <3>1. screen'.homepage = screen.homepage
      BY <1>0, <1>3, <2>1, <2>3 DEF LandsSetting, SettingsRecord
    <3> QED
      BY <1>0, <2>1, <2>3, <3>1 DEF HomeInv
  <2> QED
    BY <2>2, <2>3
<1>4. ASSUME NEW r \in flights, NEW new, ContinuesSetting(r, new) PROVE HomeInv'
  BY <1>0, <1>4 DEF ContinuesSetting, Becomes, HomeInv
<1>7. ASSUME NEW r \in flights, NEW new, ReadsSetting(r, new) PROVE HomeInv'
  <2>1. /\ flights' = (flights \ {r}) \cup {new} /\ UNCHANGED <<screen, account>>
        /\ new.do = r.do /\ new.to = r.to /\ new.served = FALSE /\ r.served = FALSE
    BY <1>7 DEF ReadsSetting, Reads, Becomes
  <2> QED
    BY <1>0, <2>1 DEF HomeInv
<1>5. ASSUME NEW r \in flights, Fails(r) PROVE HomeInv'
  <2>1. r.do # "homepage"
    BY <1>0, <1>5 DEF Fails, Clean, FlightOK
  <2> QED
    BY <1>5, <2>1 DEF Fails, Landed, HomeInv
<1>6. CASE UNCHANGED <<flights, changes, account, screen, spent, gaps>>
  BY <1>6 DEF HomeInv
<1> QED
  BY <1>1, <1>2, <1>3, <1>4, <1>5, <1>6, <1>7 DEF Moves

(* A right code flips the server when served and the page when answered. *)
LEMMA TwoFactorStep ==
    ASSUME TypeInv, Moves, "two_factor" \notin gaps', TwoFactorInv
    PROVE  TwoFactorInv'
<1>0. /\ screen \in SettingsRecord(BOOLEAN) /\ account \in SettingsRecord(0 .. MaxChanges + 1)
      /\ screen.twoFactor \in BOOLEAN /\ account.twoFactor \in 0 .. MaxChanges + 1
      /\ \A r \in flights : FlightOK(r)
      /\ \A r, q \in flights : r.n = q.n => r = q
      /\ gaps \subseteq gaps' /\ Clean' /\ ~Loading
  BY SettingsFields DEF TypeInv, SettingsTypeOK, Moves
<1>a. IsFiniteSet(Flips) /\ Cardinality(Flips) \in Nat
  BY FS_Subset, FS_CardinalityType DEF TypeInv, Flips
<1>b. \A n \in Nat : Odd(n + 1) <=> ~Odd(n)
  BY DEF Odd
<1>c. ASSUME Flips' = Flips, screen'.twoFactor = screen.twoFactor,
             account'.twoFactor = account.twoFactor
      PROVE  TwoFactorInv'
  BY <1>c DEF TwoFactorInv
<1>1. ASSUME NEW r, SendsSetting(r) PROVE TwoFactorInv'
  <2>1. /\ flights' = flights \cup {r} /\ account' = account /\ r.served = FALSE
        /\ screen'.twoFactor = screen.twoFactor
    BY <1>1 DEF SendsSetting, Fresh, Sending
  <2>2. Flips' = Flips
    BY <2>1 DEF Flips
  <2> QED
    BY <1>c, <2>1, <2>2
<1>2. ASSUME NEW r \in flights, NEW new, ServesSetting(r, new) PROVE TwoFactorInv'
  <2>1. /\ flights' = (flights \ {r}) \cup {new} /\ screen' = screen
        /\ new.do = r.do /\ new.served = TRUE /\ r.served = FALSE /\ new.n = r.n
        /\ new.ok \in BOOLEAN
    BY <1>2 DEF ServesSetting, Answers, Becomes
  <2>2. CASE r.do = "twoFactor" /\ new.ok
    <3>1. new \notin Flips
      BY <1>0, <2>1 DEF Flips
    <3>2. Flips' = Flips \cup {new}
      BY <2>1, <2>2 DEF Flips
    <3>3. Cardinality(Flips') = Cardinality(Flips) + 1
      BY <1>a, <3>1, <3>2, FS_AddElement
    <3>6. (account'.twoFactor # 0) <=> ~(account.twoFactor # 0)
      BY <1>0, <1>2, <2>2 DEF ServesSetting, Clean
    <3> QED
      BY <1>0, <1>a, <1>b, <2>1, <3>3, <3>6 DEF TwoFactorInv
  <2>3. CASE ~(r.do = "twoFactor" /\ new.ok)
    <3>1. account'.twoFactor = account.twoFactor
      BY <1>0, <1>2, <2>3 DEF ServesSetting, Clean
    <3>2. Flips' = Flips
      BY <2>1, <2>3 DEF Flips
    <3> QED
      BY <1>c, <2>1, <3>1, <3>2
  <2> QED
    BY <2>2, <2>3
<1>3. ASSUME NEW r \in flights, LandsSetting(r) PROVE TwoFactorInv'
  <2>1. /\ flights' = flights \ {r} /\ account' = account
        /\ r.served = TRUE /\ r.ok = TRUE /\ r.do # "load"
    BY <1>0, <1>3 DEF LandsSetting, Landed, Loading
  <2>2. CASE r.do = "twoFactor"
    <3>1. r \in Flips /\ Flips' = Flips \ {r}
      BY <2>1, <2>2 DEF Flips
    <3>2. Cardinality(Flips') = Cardinality(Flips) - 1
      BY <1>a, <3>1, FS_RemoveElement
    <3>3. screen' = [screen EXCEPT !.twoFactor = ~@]
      BY <1>3, <2>2 DEF LandsSetting
    <3>4. screen'.twoFactor = ~screen.twoFactor
      BY <1>0, <3>3, SettingsFields
    <3>5. Cardinality(Flips') \in Nat /\ Cardinality(Flips) = Cardinality(Flips') + 1
      <4>1. IsFiniteSet(Flips')
        BY <1>a, <3>1, FS_RemoveElement
      <4> QED
        BY <1>a, <3>2, <4>1, FS_CardinalityType
    <3>6. Odd(Cardinality(Flips')) <=> ~Odd(Cardinality(Flips))
      BY <1>b, <3>5
    <3> QED
      BY <1>0, <2>1, <3>4, <3>6 DEF TwoFactorInv
  <2>3. CASE r.do # "twoFactor"
    <3>1. screen'.twoFactor = screen.twoFactor
      BY <1>0, <1>3, <2>1, <2>3 DEF LandsSetting, SettingsRecord
    <3>2. Flips' = Flips
      BY <2>1, <2>3 DEF Flips
    <3> QED
      BY <1>c, <2>1, <3>1, <3>2
  <2> QED
    BY <2>2, <2>3
<1>4. ASSUME NEW r \in flights, NEW new, ContinuesSetting(r, new) PROVE TwoFactorInv'
  <2>1. Flips' = Flips
    BY <1>4 DEF Flips, ContinuesSetting, Becomes
  <2> QED
    BY <1>4, <1>c, <2>1 DEF ContinuesSetting
<1>7. ASSUME NEW r \in flights, NEW new, ReadsSetting(r, new) PROVE TwoFactorInv'
  <2>1. Flips' = Flips
    BY <1>7 DEF Flips, ReadsSetting, Reads, Becomes
  <2> QED
    BY <1>7, <1>c, <2>1 DEF ReadsSetting
<1>5. ASSUME NEW r \in flights, Fails(r) PROVE TwoFactorInv'
  <2>1. r.ok = FALSE
    BY <1>0, <1>5 DEF Fails, Clean, FlightOK
  <2>2. Flips' = Flips
    BY <1>5, <2>1 DEF Flips, Fails, Landed
  <2> QED
    BY <1>5, <1>c, <2>2 DEF Fails
<1>6. CASE UNCHANGED <<flights, changes, account, screen, spent, gaps>>
  BY <1>6, <1>c DEF Flips
<1> QED
  BY <1>1, <1>2, <1>3, <1>4, <1>5, <1>6, <1>7 DEF Moves

(* Registrations and removals of authenticators may cross. *)
LEMMA KeyStep ==
    ASSUME TypeInv, Moves, "authn" \notin gaps', KeyInv
    PROVE  KeyInv'
<1>0. /\ screen \in SettingsRecord(BOOLEAN) /\ account \in SettingsRecord(0 .. MaxChanges + 1)
      /\ screen.keys \subseteq Keys /\ account.keys \subseteq Keys
      /\ \A r \in flights : FlightOK(r)
      /\ gaps \subseteq gaps' /\ Clean' /\ ~Loading
  BY SettingsFields DEF TypeInv, SettingsTypeOK, Moves
<1>1. ASSUME NEW r, SendsSetting(r) PROVE KeyInv'
  <2>1. /\ flights' = flights \cup {r} /\ account' = account /\ r.served = FALSE
        /\ screen'.keys = screen.keys
        /\ \/ ~OnKey(r) /\ spent' = spent
           \/ r.do = "begin" /\ r.on \in Keys \ spent /\ spent' = spent \cup {r.on}
           \/ r.do = "unkey" /\ r.on \in screen.keys /\ spent' = spent
    BY <1>1, Dialogs DEF SendsSetting, Fresh, Sending, OnKey
  <2>2. account.keys \subseteq spent
    BY DEF KeyInv, Served, OnKey
  <2>3. CASE ~OnKey(r)
    BY <2>1, <2>3 DEF KeyInv, OnKey, Served
  <2>4. CASE r.do = "begin"
    BY <2>1, <2>2, <2>4 DEF KeyInv, OnKey, Served
  <2>5. CASE r.do = "unkey"
    BY <2>1, <2>5 DEF KeyInv, OnKey, Served
  <2> QED
    BY <2>3, <2>4, <2>5, <2>1
<1>2. ASSUME NEW r \in flights, NEW new, ServesSetting(r, new) PROVE KeyInv'
  <2>1. /\ flights' = (flights \ {r}) \cup {new} /\ screen' = screen /\ spent' = spent
        /\ new.do = r.do /\ new.on = r.on /\ new.served = TRUE /\ r.served = FALSE
        /\ new.ok \in BOOLEAN
    BY <1>2 DEF ServesSetting, Answers, Becomes
  <2>2. OnKey(r) => r.on \in Keys
    BY <1>0 DEF FlightOK
  <2>3. CASE r.do = "finish" /\ new.ok
    <3>1. account'.keys = account.keys \cup {r.on}
      BY <1>0, <1>2, <2>3 DEF ServesSetting, Clean
    <3> QED
      BY <2>1, <2>3, <3>1 DEF KeyInv, OnKey, Served
  <2>4. CASE r.do = "unkey"
    <3>1. account'.keys = account.keys \ {r.on}
      BY <1>0, <1>2, <2>4 DEF ServesSetting, Clean
    <3>3. new.ok = TRUE
      BY <1>2, <2>4, Dialogs DEF ServesSetting, Answers, Accepted
    <3>4. \A k \in screen'.keys \ account'.keys : \E q \in flights' : Served(q, "unkey", k)
      BY <2>1, <2>4, <3>1, <3>3 DEF KeyInv, Served
    <3>5. \A k \in account'.keys \ screen'.keys : \E q \in flights' : Served(q, "finish", k)
      BY <2>1, <2>4, <3>1 DEF KeyInv, Served
    <3>6. \A q \in flights' : q.do \in {"begin", "finish"} =>
            /\ q.on \notin screen'.keys
            /\ \A p \in flights' : OnKey(p) /\ p.on = q.on => p = q
            /\ q.do = "begin" \/ ~q.served => q.on \notin account'.keys
            /\ Served(q, "finish", q.on) => q.on \in account'.keys
      BY <2>1, <2>4, <3>1 DEF KeyInv, OnKey, Served
    <3> QED
      BY <2>1, <2>4, <3>1, <3>4, <3>5, <3>6 DEF KeyInv, OnKey, Served
  <2>5. CASE r.do # "unkey" /\ ~(r.do = "finish" /\ new.ok)
    <3>1. account'.keys = account.keys
      BY <1>0, <1>2, <2>5 DEF ServesSetting, Clean
    <3>2. CASE OnKey(r)
      BY <2>1, <2>5, <3>1, <3>2 DEF KeyInv, OnKey, Served
    <3>3. CASE ~OnKey(r)
      BY <2>1, <2>5, <3>1, <3>3 DEF KeyInv, OnKey, Served
    <3> QED
      BY <3>2, <3>3
  <2> QED
    BY <2>3, <2>4, <2>5
<1>3. ASSUME NEW r \in flights, LandsSetting(r) PROVE KeyInv'
  <2>1. /\ flights' = flights \ {r} /\ account' = account /\ spent' = spent
        /\ r.served = TRUE /\ r.ok = TRUE /\ r.do # "load" /\ r.do # "begin"
    BY <1>0, <1>3 DEF LandsSetting, Landed, Loading
  <2>2. OnKey(r) => r.on \in Keys
    BY <1>0 DEF FlightOK
  <2>3. CASE r.do = "finish"
    <3>0. screen' = [screen EXCEPT !.keys = @ \cup {r.on}]
      BY <1>3, <2>3 DEF LandsSetting
    <3>1. screen'.keys = screen.keys \cup {r.on}
      <4>1. screen.keys \cup {r.on} \in SUBSET Keys
        BY <1>0, <2>2, <2>3 DEF OnKey
      <4> QED
        BY <1>0, <3>0, <4>1, SettingsFields
    <3>2. r.on \in account.keys /\ r.on \in spent
      BY <2>1, <2>3 DEF KeyInv, OnKey, Served
    <3> QED
      BY <2>1, <2>3, <3>1, <3>2 DEF KeyInv, OnKey, Served
  <2>4. CASE r.do = "unkey"
    <3>0. screen' = [screen EXCEPT !.keys = @ \ {r.on}]
      BY <1>3, <2>4 DEF LandsSetting
    <3>1. screen'.keys = screen.keys \ {r.on}
      <4>1. screen.keys \ {r.on} \in SUBSET Keys
        BY <1>0
      <4> QED
        BY <1>0, <3>0, <4>1, SettingsFields
    <3>2. r.on \notin account.keys
      BY <2>1, <2>4 DEF KeyInv
    <3> QED
      BY <2>1, <2>4, <3>1, <3>2 DEF KeyInv, OnKey, Served
  <2>5. CASE ~OnKey(r)
    <3>1. screen'.keys = screen.keys
      BY <1>0, <1>3, <2>1, <2>5 DEF LandsSetting, SettingsRecord, OnKey
    <3> QED
      BY <2>1, <2>5, <3>1 DEF KeyInv, OnKey, Served
  <2> QED
    BY <2>1, <2>3, <2>4, <2>5 DEF OnKey
<1>4. ASSUME NEW r \in flights, NEW new, ContinuesSetting(r, new) PROVE KeyInv'
  <2>1. /\ flights' = (flights \ {r}) \cup {new} /\ UNCHANGED <<account, screen, spent>>
        /\ r.do = "begin" /\ new.do = "finish" /\ new.on = r.on /\ new.served = FALSE
    BY <1>4 DEF ContinuesSetting, Becomes
  <2> QED
    BY <2>1 DEF KeyInv, OnKey, Served
<1>7. ASSUME NEW r \in flights, NEW new, ReadsSetting(r, new) PROVE KeyInv'
  <2>1. /\ flights' = (flights \ {r}) \cup {new} /\ UNCHANGED <<account, screen, spent>>
        /\ new.do = r.do /\ new.on = r.on /\ new.served = FALSE /\ r.served = FALSE
    BY <1>7 DEF ReadsSetting, Reads, Becomes
  <2> QED
    BY <2>1 DEF KeyInv, OnKey, Served
<1>5. ASSUME NEW r \in flights, Fails(r) PROVE KeyInv'
  <2>1. r.ok = FALSE
    BY <1>0, <1>5 DEF Fails, Clean, FlightOK
  <2> QED
    BY <1>5, <2>1 DEF Fails, Landed, KeyInv, Served
<1>6. CASE UNCHANGED <<flights, changes, account, screen, spent, gaps>>
  BY <1>6 DEF KeyInv, Served
<1> QED
  BY <1>1, <1>2, <1>3, <1>4, <1>5, <1>6, <1>7 DEF Moves

(* The server switches on what the page has shown on. *)
LEMMA PdfStep ==
    ASSUME TypeInv, Moves, "options" \notin gaps', PdfInv
    PROVE  PdfInv'
<1>0. /\ screen \in SettingsRecord(BOOLEAN) /\ account \in SettingsRecord(0 .. MaxChanges + 1)
      /\ screen.pdf \in [PdfSwitches -> BOOLEAN] /\ account.pdf \in [PdfSwitches -> BOOLEAN]
      /\ \A r \in flights : FlightOK(r)
      /\ gaps \subseteq gaps' /\ Clean' /\ ~Loading
  BY SettingsFields DEF TypeInv, SettingsTypeOK, Moves
<1>1. ASSUME NEW r, SendsSetting(r) PROVE PdfInv'
  <2>1. /\ flights' = flights \cup {r} /\ account' = account /\ r.served = FALSE
        /\ \/ r.do = "pdf" /\ r.to = screen'.pdf
           \/ screen' = screen
    BY <1>1 DEF SendsSetting, Fresh, Sending
  <2> QED
    BY <2>1 DEF PdfInv
<1>2. ASSUME NEW r \in flights, NEW new, ServesSetting(r, new) PROVE PdfInv'
  <2>1. flights' = (flights \ {r}) \cup {new} /\ screen' = screen
    BY <1>2 DEF ServesSetting, Becomes
  <2>2. CASE r.do = "pdf"
    <3>2. r.to \in [PdfSwitches -> BOOLEAN]
      BY <1>0, <2>2 DEF FlightOK
    <3>3. /\ PdfMerged(account.pdf, r.to) \in [PdfSwitches -> BOOLEAN]
          /\ \A s \in PdfSwitches :
                PdfMerged(account.pdf, r.to)[s] <=> account.pdf[s] \/ r.to[s]
      BY <1>0, <3>2 DEF PdfMerged
    <3>4. account'.pdf = PdfMerged(account.pdf, r.to)
      BY <1>0, <1>2, <2>2 DEF ServesSetting, Clean
    <3> QED
      BY <2>1, <3>3, <3>4 DEF PdfInv
  <2>3. CASE r.do # "pdf"
    <3>1. account'.pdf = account.pdf
      BY <1>0, <1>2, <2>3 DEF ServesSetting, Clean
    <3> QED
      BY <2>1, <2>3, <3>1 DEF PdfInv
  <2> QED
    BY <2>2, <2>3
<1>3. ASSUME NEW r \in flights, LandsSetting(r) PROVE PdfInv'
  <2>1. flights' = flights \ {r} /\ account' = account /\ r.served = TRUE /\ r.do # "load"
    BY <1>0, <1>3 DEF LandsSetting, Landed, Loading
  <2>2. screen'.pdf = screen.pdf
    BY <1>0, <1>3, <2>1 DEF LandsSetting, SettingsRecord
  <2> QED
    BY <2>1, <2>2 DEF PdfInv
<1>4. ASSUME NEW r \in flights, NEW new, ContinuesSetting(r, new) PROVE PdfInv'
  BY <1>4 DEF ContinuesSetting, Becomes, PdfInv
<1>7. ASSUME NEW r \in flights, NEW new, ReadsSetting(r, new) PROVE PdfInv'
  BY <1>7 DEF ReadsSetting, Reads, Becomes, PdfInv
<1>5. ASSUME NEW r \in flights, Fails(r) PROVE PdfInv'
  <2>1. r.do # "pdf"
    BY <1>0, <1>5 DEF Fails, Clean, FlightOK
  <2> QED
    BY <1>5, <2>1 DEF Fails, Landed, PdfInv
<1>6. CASE UNCHANGED <<flights, changes, account, screen, spent, gaps>>
  BY <1>6 DEF PdfInv
<1> QED
  BY <1>1, <1>2, <1>3, <1>4, <1>5, <1>6, <1>7 DEF Moves

(* While the settings are awaited the page stays blank; when they arrive   *)
(* it agrees with the server.                                              *)
LEMMA LoadStep ==
    ASSUME TypeInv, Loading, Blank, view = "settings", Step, Clean'
    PROVE  IF Loading' THEN Blank' ELSE Shown'
<1>0. /\ screen \in SettingsRecord(BOOLEAN) /\ account \in SettingsRecord(0 .. MaxChanges + 1)
      /\ \A r \in flights : FlightOK(r) /\ r.do \in {"load", "secret"}
      /\ Arriving
  BY DEF TypeInv, SettingsTypeOK, Blank, Loading, Arriving
<1>1. ASSUME NEW r, SendsSetting(r) PROVE Loading' /\ Blank'
  <2>1. /\ flights' = flights \cup {r} /\ account' = account /\ r.served = FALSE
        /\ r.do = "secret"
    BY <1>0, <1>1 DEF SendsSetting, Fresh, Sending, Clean
  <2>2. screen' = screen
    BY <1>1, <2>1 DEF SendsSetting
  <2> QED
    BY <2>1, <2>2 DEF Blank, Loading
<1>2. ASSUME NEW r \in flights, NEW new, ServesSetting(r, new) PROVE Loading' /\ Blank'
  <2>1. /\ flights' = (flights \ {r}) \cup {new} /\ screen' = screen /\ account' = account
        /\ new.do = r.do /\ r.served = FALSE
        /\ r.do = "load" => new.to = SettingsOf(account)
    BY <1>0, <1>2 DEF ServesSetting, Answers, Becomes
  <2>2. /\ \A q, p \in flights' : q.do = "load" /\ p.do = "load" => q = p
        /\ \A q \in flights' : q.do \in {"load", "secret"}
    BY <1>0, <2>1 DEF Blank
  <2>3. \A q \in flights' : q.do = "load" /\ q.served => q.to = SettingsOf(account)
    BY <2>1 DEF Blank
  <2> QED
    BY <2>1, <2>2, <2>3 DEF Blank, Loading, SettingsOf
<1>3. ASSUME NEW r \in flights, LandsSetting(r)
      PROVE  IF Loading' THEN Blank' ELSE Shown'
  <2>1. flights' = flights \ {r} /\ account' = account /\ r.served = TRUE
    BY <1>0, <1>3 DEF LandsSetting, Landed
  <2>2. CASE r.do = "load"
    <3>1. /\ screen' = SettingsOf(account)
          /\ \A q \in flights' : q.do = "secret"
      BY <1>0, <1>3, <2>1, <2>2 DEF LandsSetting, Blank
    <3>2. /\ screen'.homepage = account.homepage /\ screen'.keys = account.keys
          /\ screen'.pdf = account.pdf /\ screen'.twoFactor = (account.twoFactor # 0)
      BY <1>0, <3>1, SettingsFields DEF SettingsOf
    <3>3. HomeInv' /\ KeyInv' /\ PdfInv' /\ ~Loading'
      BY <2>1, <3>1, <3>2 DEF HomeInv, KeyInv, PdfInv, OnKey, Loading, Blank
    <3>4. TwoFactorInv'
      <4>1. Flips' = {}
        BY <3>1 DEF Flips
      <4>2. Cardinality(Flips') = 0 /\ ~Odd(0)
        BY <4>1, FS_EmptySet DEF Odd
      <4> QED
        BY <2>1, <3>2, <4>2 DEF TwoFactorInv
    <3> QED
      BY <3>3, <3>4 DEF Shown
  <2>3. CASE r.do = "secret"
    <3>1. screen' = screen
      BY <1>3, <2>3 DEF LandsSetting
    <3> QED
      BY <2>1, <2>3, <3>1 DEF Blank, Loading, SettingsOf
  <2> QED
    BY <1>0, <2>2, <2>3
<1>4. ASSUME NEW r \in flights, NEW new, ContinuesSetting(r, new) PROVE FALSE
  BY <1>0, <1>4 DEF ContinuesSetting
<1>7. ASSUME NEW r \in flights, NEW new, ReadsSetting(r, new) PROVE Loading' /\ Blank'
  <2>1. /\ flights' = (flights \ {r}) \cup {new} /\ UNCHANGED <<screen, account>>
        /\ new.do = r.do /\ new.served = FALSE
    BY <1>7 DEF ReadsSetting, Reads, Becomes
  <2>2. /\ \A q, p \in flights' : q.do = "load" /\ p.do = "load" => q = p
        /\ \A q \in flights' : q.do \in {"load", "secret"}
        /\ \A q \in flights' : q.do = "load" /\ q.served => q.to = SettingsOf(account)
    BY <1>0, <2>1 DEF Blank
  <2> QED
    BY <2>1, <2>2 DEF Blank, Loading, SettingsOf
<1>5. ASSUME NEW r \in flights, Fails(r) PROVE FALSE
  BY <1>0, <1>5 DEF Fails, Clean, FlightOK
<1>6. CASE UNCHANGED <<flights, changes, account, screen, spent, gaps>>
  BY <1>6 DEF Blank, Loading, SettingsOf
<1> QED
  BY <1>1, <1>2, <1>3, <1>4, <1>5, <1>6, <1>7, SettingsMoves

(* The invariant of that page is inductive. *)
LEMMA SettingsInvStep ==
    ASSUME TypeInv, SettingsInv, Step
    PROVE  SettingsInv'
<1>1. view' = view /\ gaps \subseteq gaps'
  BY TypeStep
<1>2. SUFFICES ASSUME view = "settings", Clean'
               PROVE  IF Loading' THEN Blank' ELSE Shown'
  BY <1>1 DEF SettingsInv
<1>3. IF Loading THEN Blank ELSE Shown
  BY <1>1, <1>2 DEF SettingsInv, Clean
<1>4. CASE Loading
  BY <1>2, <1>3, <1>4, LoadStep
<1>5. CASE ~Loading
  <2>1. Moves
    BY <1>1, <1>2, <1>5, SettingsMoves DEF Moves
  <2>2. ~Loading'
    <3>1. ASSUME NEW r, SendsSetting(r) PROVE ~Loading'
      BY <1>5, <3>1, Dialogs DEF SendsSetting, Sending, Loading
    <3>2. ASSUME NEW r \in flights, NEW new, ServesSetting(r, new) PROVE ~Loading'
      BY <1>5, <3>2 DEF ServesSetting, Becomes, Answers, Loading
    <3>3. ASSUME NEW r \in flights, LandsSetting(r) \/ Fails(r) PROVE ~Loading'
      BY <1>5, <3>3 DEF LandsSetting, Fails, Landed, Loading
    <3>4. ASSUME NEW r \in flights, NEW new, ContinuesSetting(r, new) PROVE ~Loading'
      BY <1>5, <3>4 DEF ContinuesSetting, Becomes, Loading
    <3>5. ASSUME NEW r \in flights, NEW new, ReadsSetting(r, new) PROVE ~Loading'
      BY <1>5, <3>5 DEF ReadsSetting, Reads, Becomes, Loading
    <3> QED
      BY <1>5, <2>1, <3>1, <3>2, <3>3, <3>4, <3>5 DEF Moves, Loading
  <2>3. gaps' \cap {"twice", "options"} = {} => HomeInv'
    BY <1>1, <1>3, <1>5, <2>1, HomeStep DEF Shown
  <2>4. /\ "two_factor" \notin gaps' => TwoFactorInv'
        /\ "authn" \notin gaps' => KeyInv'
        /\ "options" \notin gaps' => PdfInv'
    BY <1>1, <1>3, <1>5, <2>1, TwoFactorStep, KeyStep, PdfStep DEF Shown
  <2> QED
    BY <2>2, <2>3, <2>4 DEF Shown
<1> QED
  BY <1>4, <1>5

(* A page opens with one request under way. *)
LEMMA SettingsStarts ==
    ASSUME SettingsInit
    PROVE  TypeInv /\ SettingsInv
<1>0. /\ MaxChanges \in Nat /\ Old \subseteq Accounts
  BY SettingsAssumption
<1>1. PICK r : /\ flights = {r} /\ IsFlight(r) /\ r.n = 0
               /\ r.do = (IF view = "settings" THEN "load" ELSE "list")
               /\ r.on = "none" /\ r.seen = dav /\ r.served = FALSE /\ r.ok = TRUE
               /\ r.read = FALSE /\ HadOK(r.had)
  <2>1. PICK do : do = IF view = "settings" THEN "load" ELSE "list"
    OBVIOUS
  <2>2. PICK r : r = [Flight(do, "none", account) EXCEPT !.n = 0]
    OBVIOUS
  <2>3. flights = {r}
    BY <2>1, <2>2 DEF SettingsInit
  <2>4. /\ IsFlight(r) /\ r.n = 0 /\ r.do = do /\ r.on = "none" /\ r.seen = dav
        /\ r.served = FALSE /\ r.ok = TRUE /\ r.read = FALSE /\ r.had = NothingLoaded
    BY <2>2 DEF Flight, IsFlight, FlightFields
  <2> QED
    BY <2>1, <2>3, <2>4, NothingLoadedOK
<1>2. /\ BlankSettings \in SettingsRecord(0 .. MaxChanges + 1)
      /\ OtherSettings \in SettingsRecord(0 .. MaxChanges + 1)
      /\ BlankSettings.keys = {} /\ OtherSettings.keys = {}
  BY <1>0 DEF BlankSettings, OtherSettings, SettingsRecord
<1>3. SettingsOf(BlankSettings) \in SettingsRecord(BOOLEAN)
  <2>1. PICK b \in BOOLEAN : b = (BlankSettings.twoFactor # 0)
    OBVIOUS
  <2>2. [BlankSettings EXCEPT !.twoFactor = b] \in SettingsRecord(BOOLEAN)
    BY <1>2, SettingsFields
  <2> QED
    BY <2>1, <2>2 DEF SettingsOf
<1>4. SettingsTypeOK
  BY <1>0, <1>2, <1>3 DEF SettingsInit, SettingsTypeOK
<1>5. FlightOK(r)
  <2>1. r.n \in 0 .. changes /\ r.seen \subseteq Accounts /\ r.do \in {"load", "list"}
    BY <1>0, <1>1 DEF SettingsInit
  <2>2. r.do \in Kinds(view)
    BY <1>1 DEF SettingsInit, Kinds
  <2> QED
    BY <1>1, <2>1, <2>2 DEF FlightOK, OnKey
<1>6. IsFiniteSet(flights)
  BY <1>1, FS_Singleton
<1>7. TypeInv
  BY <1>0, <1>1, <1>4, <1>5, <1>6 DEF TypeInv, SettingsInit
<1>8. SettingsInv
  BY <1>1, <1>2 DEF SettingsInv, SettingsInit, Loading, Blank
<1> QED
  BY <1>7, <1>8

(* With nothing under way the invariant says that page and server agree. *)
LEMMA SettingsFinally ==
    ASSUME TypeInv, SettingsInv
    PROVE  SettingsShown
<1>1. SUFFICES ASSUME view = "settings", Settled
               PROVE  /\ "two_factor" \notin gaps =>
                           screen.twoFactor = (account.twoFactor # 0)
                      /\ "authn" \notin gaps => screen.keys = account.keys
                      /\ gaps \cap {"twice", "options"} = {} =>
                           screen.homepage = account.homepage
                      /\ "options" \notin gaps =>
                           \A s \in PdfSwitches : screen.pdf[s] => account.pdf[s]
  BY DEF SettingsShown
<1>2. flights = {} /\ Shown
  BY <1>1 DEF Settled, SettingsInv, Clean, Loading
<1>3. Cardinality(Flips) = 0 /\ ~Odd(0)
  <2>1. Flips = {}
    BY <1>2 DEF Flips
  <2> QED
    BY <2>1, FS_EmptySet DEF Odd
<1>4. screen.twoFactor \in BOOLEAN
  BY SettingsFields DEF TypeInv, SettingsTypeOK
<1>5. "two_factor" \notin gaps => screen.twoFactor = (account.twoFactor # 0)
  BY <1>2, <1>3, <1>4 DEF Shown, TwoFactorInv
<1>6. "authn" \notin gaps => screen.keys = account.keys
  BY <1>2 DEF Shown, KeyInv
<1>7. gaps \cap {"twice", "options"} = {} => screen.homepage = account.homepage
  BY <1>2 DEF Shown, HomeInv
<1>8. "options" \notin gaps => \A s \in PdfSwitches : screen.pdf[s] => account.pdf[s]
  BY <1>2 DEF Shown, PdfInv
<1> QED
  BY <1>5, <1>6, <1>7, <1>8

(* The settings page, once nothing is under way, shows what the server     *)
(* has (handleToggleHome, twoFactor, addCredential and the other answers of*)
(* UserSetting), whatever the order in which requests are read, served and *)
(* answered - unless one has saved a column of the user over another.      *)
THEOREM SettingsSafe == SettingsSpec => []SettingsTypeOK /\ []SettingsShown
<1>1. SettingsInit => TypeInv /\ SettingsInv
  BY SettingsStarts
<1>2. TypeInv /\ SettingsInv /\ [SettingsNext]_settingsVars => (TypeInv /\ SettingsInv)'
  BY TypeStep, SettingsInvStep DEF Step
<1>3. TypeInv /\ SettingsInv => SettingsTypeOK /\ SettingsShown
  BY SettingsFinally DEF TypeInv
<1> QED
  BY <1>1, <1>2, <1>3, PTL DEF SettingsSpec

-----------------------------------------------------------------------------
(* The page of the WebDAV accounts *)

(* Until the list arrives nothing is listed, and nothing else is under way.  *)
Listing == \E r \in flights : r.do = "list"
Bare ==
    /\ dav = {} /\ davRights = {} /\ davSaved = {} /\ davHeld = Old /\ Old \subseteq spent
    /\ \A r \in flights : r.do = "list" /\ (r.served => r.seen = davHeld)
    /\ \A r, q \in flights : r = q

(* An account is new, and nobody else's, while its addition is under way;    *)
(* page and server differ by what has only come to the server.              *)
HeldInv ==
    /\ dav \subseteq spent /\ davHeld \subseteq spent
    /\ \A r \in flights : r.on \in spent
    /\ \A r \in flights : r.do = "add" =>
         /\ r.on \notin dav /\ (r.served => r.on \in davHeld)
         /\ \A q \in flights : q.on = r.on => q = r
    /\ \A r \in flights : r.do = "delete" /\ r.served => r.on \notin davHeld
    /\ \A x \in davHeld \ dav : \E r \in flights : Served(r, "add", x)
    /\ \A x \in dav \ davHeld : \E r \in flights : Served(r, "delete", x)

(* The same of the rights, unless toggles of one account cross.             *)
RightsKept ==
    /\ davSaved \subseteq davHeld /\ davRights \subseteq spent
    /\ \A r \in flights : r.do = "add" => r.on \notin davRights \cup davSaved
    /\ \A r \in flights : r.do = "delete" => r.to = FALSE
RightsInv ==
    /\ \A r, q \in flights : r.do = "rights" /\ q.do = "rights" /\ r.on = q.on => r = q
    /\ \A r \in flights : r.do = "rights" /\ r.served =>
         IF r.to THEN r.on \in davHeld => r.on \in davSaved ELSE r.on \notin davSaved
    /\ \A x \in (dav \cap davRights) \ davSaved : \E r \in flights :
         Served(r, "delete", x) \/ (Served(r, "rights", x) /\ r.to = FALSE)
    /\ \A x \in davSaved \ (dav \cap davRights) : \E r \in flights :
         Served(r, "rights", x) /\ r.to = TRUE

Agreed == HeldInv /\ RightsKept /\ ("twice" \notin gaps => RightsInv)
AccountsInv ==
    view = "webdav" /\ Clean /\ "overlapped" \notin gaps =>
        IF Listing THEN Bare ELSE Agreed

(* A step of that page after the list has arrived, in which nothing fails    *)
(* and no answer meets a list other than the one it was asked from.         *)
Adds(r) ==
    /\ flights' = flights \cup {r} /\ r.served = FALSE
    /\ UNCHANGED <<dav, davRights, davHeld, davSaved>>
    /\ \/ /\ r.do = "add" /\ r.on \notin spent /\ spent' = spent \cup {r.on}
       \/ r.do = "delete" /\ r.on \in dav /\ r.to = FALSE /\ spent' = spent
       \/ /\ r.do = "rights" /\ r.on \in dav /\ r.to \in BOOLEAN /\ spent' = spent
          /\ "twice" \notin gaps' => ~Under("rights", r.on)
Serves(r, new) ==
    /\ r.served = FALSE /\ flights' = (flights \ {r}) \cup {new} /\ new.on = r.on
    /\ new.do = r.do /\ new.served = TRUE /\ new.ok = TRUE /\ new.to = r.to
    /\ UNCHANGED <<dav, davRights, spent>>
    /\ \/ /\ r.do = "add" /\ davHeld' = davHeld \cup {r.on} /\ davSaved' = davSaved
       \/ /\ r.do = "delete" /\ davHeld' = davHeld \ {r.on}
          /\ r.to = FALSE => davSaved' = davSaved \ {r.on}
       \/ /\ r.do = "rights" /\ r.to = TRUE /\ davHeld' = davHeld
          /\ davSaved' = IF r.on \in davHeld THEN davSaved \cup {r.on} ELSE davSaved
       \/ /\ r.do = "rights" /\ r.to = FALSE /\ davHeld' = davHeld
          /\ davSaved' = davSaved \ {r.on}
Lands(r) ==
    /\ r.served = TRUE /\ r.ok = TRUE /\ flights' = flights \ {r}
    /\ UNCHANGED <<davHeld, davSaved, spent>>
    /\ \/ r.do = "add" /\ dav' = dav \cup {r.on} /\ davRights' = davRights
       \/ r.do = "delete" /\ dav' = dav \ {r.on} /\ davRights' = davRights \ {r.on}
       \/ /\ r.do = "rights" /\ r.to = TRUE /\ dav' = dav
          /\ davRights' = davRights \cup {r.on}
       \/ /\ r.do = "rights" /\ r.to = FALSE /\ dav' = dav
          /\ davRights' = davRights \ {r.on}
Unmoved == UNCHANGED <<flights, dav, davRights, davHeld, davSaved, spent>>

(* Once the list has arrived there are no other steps, unless a failure    *)
(* or an overlap is noted.                                                 *)
LEMMA AgreedMoves ==
    ASSUME TypeInv, view = "webdav", Step, ~Listing, Clean', "overlapped" \notin gaps'
    PROVE  /\ ~Listing'
           /\ \/ \E r : Adds(r)
              \/ \E r \in flights : \E new : Serves(r, new)
              \/ \E r \in flights : Lands(r)
              \/ Unmoved
<1>0. /\ \A r \in flights : /\ r.do \in {"add", "delete", "rights"} /\ r.ok = TRUE
                            /\ r.served \in BOOLEAN /\ r.to \in BOOLEAN
  BY Dialogs DEF TypeInv, FlightOK, Kinds, Listing
<1>1. ASSUME NEW r, SendsAccount(r) PROVE ~Listing' /\ Adds(r)
  <2>1. /\ flights' = flights \cup {r} /\ r.served = FALSE
        /\ UNCHANGED <<dav, davRights, davHeld, davSaved>>
        /\ r.do \in {"add", "delete", "rights"}
    BY <1>1 DEF SendsAccount, Fresh, Sending, davList, davServer
  <2> QED
    BY <1>0, <1>1, <2>1 DEF SendsAccount, Adds, Listing
<1>2. ASSUME NEW r \in flights, NEW new, ServesAccount(r, new) PROVE ~Listing' /\ Serves(r, new)
  <2>1. /\ flights' = (flights \ {r}) \cup {new} /\ new.on = r.on /\ new.do = r.do
        /\ new.served = TRUE /\ new.ok = TRUE /\ new.to = r.to /\ r.served = FALSE
        /\ UNCHANGED <<dav, davRights, spent>>
    BY <1>0, <1>2 DEF ServesAccount, Becomes, davList
  <2> QED
    BY <1>0, <1>2, <2>1 DEF ServesAccount, SavesAccount, Serves, Listing, Clean
<1>3. ASSUME NEW r \in flights, LandsAccount(r) PROVE ~Listing' /\ Lands(r)
  <2>1. r.seen = dav
    BY <1>0, <1>3 DEF LandsAccount
  <2> QED
    BY <1>0, <1>3, <2>1 DEF LandsAccount, Landed, Lands, Listing, davServer
<1>4. ASSUME NEW r \in flights, Fails(r) PROVE FALSE
  BY <1>0, <1>4 DEF Fails, Clean
<1>5. CASE UNCHANGED <<flights, changes, davList, davServer, spent, gaps>>
  BY <1>0, <1>5 DEF Unmoved, Listing, davList, davServer
<1> QED
  BY <1>1, <1>2, <1>3, <1>4, <1>5, AccountsMoves

(* Which accounts there are. *)
LEMMA HeldStep ==
    ASSUME HeldInv,
           \/ \E r : Adds(r)
           \/ \E r \in flights : \E new : Serves(r, new)
           \/ \E r \in flights : Lands(r)
           \/ Unmoved
    PROVE  HeldInv'
<1>1. ASSUME NEW r, Adds(r) PROVE HeldInv'
  BY <1>1 DEF Adds, HeldInv, Served
<1>2. ASSUME NEW r \in flights, NEW new, Serves(r, new) PROVE HeldInv'
  <2>1. CASE r.do = "add"
    BY <1>2, <2>1 DEF Serves, HeldInv, Served
  <2>2. CASE r.do = "delete"
    BY <1>2, <2>2 DEF Serves, HeldInv, Served
  <2>3. CASE r.do = "rights"
    BY <1>2, <2>3 DEF Serves, HeldInv, Served
  <2> QED
    BY <1>2, <2>1, <2>2, <2>3 DEF Serves
<1>3. ASSUME NEW r \in flights, Lands(r) PROVE HeldInv'
  <2>1. CASE r.do = "add"
    BY <1>3, <2>1 DEF Lands, HeldInv, Served
  <2>2. CASE r.do = "delete"
    BY <1>3, <2>2 DEF Lands, HeldInv, Served
  <2>3. CASE r.do = "rights"
    BY <1>3, <2>3 DEF Lands, HeldInv, Served
  <2> QED
    BY <1>3, <2>1, <2>2, <2>3 DEF Lands
<1>4. CASE Unmoved
  BY <1>4 DEF Unmoved, HeldInv, Served
<1> QED
  BY <1>1, <1>2, <1>3, <1>4

(* Rights are of accounts that exist. *)
LEMMA KeptStep ==
    ASSUME HeldInv, RightsKept,
           \/ \E r : Adds(r)
           \/ \E r \in flights : \E new : Serves(r, new)
           \/ \E r \in flights : Lands(r)
           \/ Unmoved
    PROVE  RightsKept'
<1>1. ASSUME NEW r, Adds(r) PROVE RightsKept'
  BY <1>1 DEF Adds, HeldInv, RightsKept
<1>2. ASSUME NEW r \in flights, NEW new, Serves(r, new) PROVE RightsKept'
  BY <1>2 DEF Serves, HeldInv, RightsKept
<1>3. ASSUME NEW r \in flights, Lands(r) PROVE RightsKept'
  BY <1>3 DEF Lands, HeldInv, RightsKept
<1>4. CASE Unmoved
  BY <1>4 DEF Unmoved, RightsKept
<1> QED
  BY <1>1, <1>2, <1>3, <1>4

(* Which accounts are read-only. *)
LEMMA RightsStep ==
    ASSUME HeldInv, RightsKept, RightsInv, "twice" \notin gaps',
           \/ \E r : Adds(r)
           \/ \E r \in flights : \E new : Serves(r, new)
           \/ \E r \in flights : Lands(r)
           \/ Unmoved
    PROVE  RightsInv'
<1>1. ASSUME NEW r, Adds(r) PROVE RightsInv'
  BY <1>1 DEF Adds, HeldInv, RightsKept, RightsInv, Served, Under
<1>2. ASSUME NEW r \in flights, NEW new, Serves(r, new) PROVE RightsInv'
  <2>1. CASE r.do = "add"
    BY <1>2, <2>1 DEF Serves, HeldInv, RightsInv, Served
  <2>2. CASE r.do = "delete"
    BY <1>2, <2>2 DEF Serves, RightsKept, RightsInv, Served
  <2>3. CASE r.do = "rights" /\ r.to = TRUE
    BY <1>2, <2>3 DEF Serves, RightsInv, Served
  <2>4. CASE r.do = "rights" /\ r.to = FALSE
    BY <1>2, <2>4 DEF Serves, RightsInv, Served
  <2> QED
    BY <1>2, <2>1, <2>2, <2>3, <2>4 DEF Serves
<1>3. ASSUME NEW r \in flights, Lands(r) PROVE RightsInv'
  <2>1. CASE r.do = "add"
    BY <1>3, <2>1 DEF Lands, RightsKept, RightsInv, Served
  <2>2. CASE r.do = "delete"
    BY <1>3, <2>2 DEF Lands, HeldInv, RightsKept, RightsInv, Served
  <2>3. CASE r.do = "rights" /\ r.to = TRUE
    BY <1>3, <2>3 DEF Lands, HeldInv, RightsKept, RightsInv, Served
  <2>4. CASE r.do = "rights" /\ r.to = FALSE
    BY <1>3, <2>4 DEF Lands, RightsInv, Served
  <2> QED
    BY <1>3, <2>1, <2>2, <2>3, <2>4 DEF Lands
<1>4. CASE Unmoved
  BY <1>4 DEF Unmoved, RightsInv, Served
<1> QED
  BY <1>1, <1>2, <1>3, <1>4

(* While the list is awaited nothing changes; when it arrives it is the    *)
(* one of the server.                                                      *)
LEMMA ListStep ==
    ASSUME TypeInv, view = "webdav", Step, Listing, Bare, Clean'
    PROVE  IF Listing' THEN Bare' ELSE Agreed'
<1>0. /\ Arriving
      /\ \A r \in flights : /\ r.do = "list" /\ r.ok = TRUE /\ (r.served => r.seen = davHeld)
                            /\ flights = {r}
  BY Dialogs DEF TypeInv, FlightOK, Listing, Bare, Arriving
<1>1. ASSUME NEW r, SendsAccount(r) PROVE FALSE
  BY <1>0, <1>1 DEF SendsAccount, Clean
<1>2. ASSUME NEW r \in flights, NEW new, ServesAccount(r, new) PROVE Listing' /\ Bare'
  <2>1. /\ flights' = {new} /\ new.do = "list" /\ new.seen = davHeld
        /\ UNCHANGED <<davHeld, davSaved, dav, davRights, spent>>
    BY <1>0, <1>2 DEF ServesAccount, SavesAccount, Becomes, davList
  <2> QED
    BY <2>1 DEF Bare, Listing
<1>3. ASSUME NEW r \in flights, LandsAccount(r) PROVE ~Listing' /\ Agreed'
  <2>1. /\ flights' = {} /\ dav' = davHeld /\ UNCHANGED <<davRights, davHeld, davSaved, spent>>
    BY <1>0, <1>3 DEF LandsAccount, Landed, davServer
  <2> QED
    BY <2>1 DEF Bare, Listing, Agreed, HeldInv, RightsKept, RightsInv
<1>4. ASSUME NEW r \in flights, Fails(r) PROVE FALSE
  BY <1>0, <1>4 DEF Fails, Clean
<1>5. CASE UNCHANGED <<flights, changes, davList, davServer, spent, gaps>>
  BY <1>5 DEF Bare, Listing, davList, davServer
<1> QED
  BY <1>1, <1>2, <1>3, <1>4, <1>5, AccountsMoves

(* The invariant of the accounts is inductive. *)
LEMMA AccountsInvStep ==
    ASSUME TypeInv, AccountsInv, Step
    PROVE  AccountsInv'
<1>1. view' = view /\ gaps \subseteq gaps'
  BY TypeStep
<1>2. SUFFICES ASSUME view = "webdav", Clean', "overlapped" \notin gaps'
               PROVE  IF Listing' THEN Bare' ELSE Agreed'
  BY <1>1 DEF AccountsInv
<1>3. /\ Clean /\ ("twice" \notin gaps' => "twice" \notin gaps)
      /\ IF Listing THEN Bare ELSE Agreed
  BY <1>1, <1>2 DEF AccountsInv, Clean
<1>4. CASE Listing
  BY <1>2, <1>3, <1>4, ListStep
<1>5. CASE ~Listing
  <2>1. /\ ~Listing'
        /\ \/ \E r : Adds(r)
           \/ \E r \in flights : \E new : Serves(r, new)
           \/ \E r \in flights : Lands(r)
           \/ Unmoved
    BY <1>2, <1>5, AgreedMoves
  <2>2. HeldInv' /\ RightsKept'
    BY <1>3, <1>5, <2>1, HeldStep, KeptStep DEF Agreed
  <2>3. "twice" \notin gaps' => RightsInv'
    BY <1>3, <1>5, <2>1, RightsStep DEF Agreed
  <2> QED
    BY <2>1, <2>2, <2>3 DEF Agreed
<1> QED
  BY <1>4, <1>5

(* With nothing under way the invariant says that list and server agree. *)
LEMMA AccountsFinally ==
    ASSUME AccountsInv
    PROVE  AccountsShown
<1>1. SUFFICES ASSUME view = "webdav", Settled, "overlapped" \notin gaps
               PROVE  /\ dav = davHeld
                      /\ "twice" \notin gaps => davRights \cap dav = davSaved
  BY DEF AccountsShown
<1>2. flights = {} /\ Agreed
  BY <1>1 DEF AccountsInv, Settled, Clean, Listing
<1>3. dav = davHeld
  BY <1>2 DEF Agreed, HeldInv
<1>4. "twice" \notin gaps => davRights \cap dav = davSaved
  BY <1>2 DEF Agreed, RightsInv
<1> QED
  BY <1>3, <1>4

(* So does the list of WebDAV accounts (component/Setting/WebDAV), unless  *)
(* a change was worked into a list that another had replaced.              *)
THEOREM AccountsSafe == SettingsSpec => []AccountsShown
<1>1. SettingsInit => TypeInv /\ AccountsInv
  <2>1. ASSUME SettingsInit PROVE AccountsInv
    <3>1. ASSUME view = "webdav" PROVE Listing /\ Bare
      <4>1. PICK r : r = [Flight("list", "none", account) EXCEPT !.n = 0]
        OBVIOUS
      <4>2. flights = {r} /\ r.do = "list" /\ r.served = FALSE
        BY <2>1, <3>1, <4>1 DEF SettingsInit, Flight
      <4> QED
        BY <2>1, <4>2 DEF SettingsInit, Listing, Bare
    <3> QED
      BY <3>1 DEF AccountsInv
  <2> QED
    BY <2>1, SettingsStarts
<1>2. TypeInv /\ AccountsInv /\ [SettingsNext]_settingsVars => (TypeInv /\ AccountsInv)'
  BY TypeStep, AccountsInvStep DEF Step
<1>3. AccountsInv => AccountsShown
  BY AccountsFinally
<1> QED
  BY <1>1, <1>2, <1>3, PTL DEF SettingsSpec
===============================================================================
