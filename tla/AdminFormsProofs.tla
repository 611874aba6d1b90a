---------------------------- MODULE AdminFormsProofs ---------------------------
(***************************************************************************)
(* Theorems about the forms of the administrator.  Of the forms of the     *)
(* settings, for any number of changes, requests and administrators: what  *)
(* a save leaves alone, what a form shows once it is saved, and that what  *)
(* is saved is used.  Of the guides, for any number of edits and requests: *)
(* that what they save is complete, shown by the pages that follow, and as *)
(* it was where nobody touched it.                                         *)
(***************************************************************************)
EXTENDS OptionForms, PolicyGuide, TLAPS

Step == OptionNext \/ UNCHANGED optionVars

Options == [Names -> Values]
PostRecord == [n : Nat, do : {"load", "save", "test", "apply"}, with : Options,
               at : {"server", "client"}, visit : Nat, blind : BOOLEAN]

Typed ==
    /\ OptionTypeOK /\ posts \subseteq PostRecord
    /\ called \in Nat /\ visit \in Nat /\ typed \in 0 .. MaxTyping

\* The names of a page never change, and neither does what it starts with.
LEMMA SamePage ==
    ASSUME UNCHANGED optionPage
    PROVE  UNCHANGED <<Here, Names, InitialOptions>> /\ Options' = Options
           /\ PostRecord' = PostRecord
<1>1. Here' = Here
  BY DEF Here
<1>2. Names' = Names
  BY <1>1 DEF Names
<1>3. Options' = Options
  BY <1>2 DEF Options
<1>4. InitialOptions' = InitialOptions
  BY <1>1, <1>2 DEF InitialOptions
<1>5. PostRecord' = PostRecord
  BY <1>3 DEF PostRecord
<1> QED
  BY <1>1, <1>2, <1>3, <1>4, <1>5

LEMMA ValuesKnown ==
    /\ Empty \in Values /\ Initial \in Values /\ Held \in Values /\ Theirs \in Values
    /\ \A k \in 1 .. MaxTyping : Theirs + k \in Values
  BY OptionAssumption DEF Values, Empty, Initial, Held, Theirs

LEMMA InitialTyped == InitialOptions \in Options
  BY ValuesKnown DEF InitialOptions, Options

\* A form is shown before its options have come, or it is not.
LEMMA EarlyKnown == \A p \in DOMAIN OptionPages : OptionPages[p].early \in BOOLEAN
<1>1. /\ AccessPage.early \in BOOLEAN /\ CaptchaPage.early \in BOOLEAN
      /\ SitePage.early \in BOOLEAN
  BY DEF OptionPage, AccessPage, CaptchaPage, SitePage
<1>2. /\ MailPage.early \in BOOLEAN /\ ImagePage.early \in BOOLEAN
      /\ UploadDownloadPage.early \in BOOLEAN
  BY DEF OptionPage, MailPage, ImagePage, UploadDownloadPage
<1>3. ThemePage.early \in BOOLEAN /\ GroupForm.early \in BOOLEAN /\ UserForm.early \in BOOLEAN
  BY DEF OptionPage, ThemePage, GroupForm, UserForm
<1> QED
  BY <1>1, <1>2, <1>3 DEF OptionPages

LEMMA NextPage == Step => UNCHANGED optionPage
<1> SUFFICES ASSUME Step
             PROVE  UNCHANGED optionPage
  OBVIOUS
<1>1. CASE \E c \in posts : \/ CallServed(c) \/ OptionsLoaded(c) \/ OptionsSaved(c)
                            \/ OtherAnswered(c) \/ OptionFailed(c)
  BY <1>1 DEF CallServed, OptionsLoaded, OptionsSaved, OtherAnswered, OptionFailed
<1>2. CASE \E f \in Names : EditOption(f) \/ OtherAdmin(f)
  BY <1>2 DEF EditOption, OtherAdmin
<1>3. CASE ReopenPage \/ SubmitOptions \/ TestOptions
  BY <1>3 DEF ReopenPage, SubmitOptions, TestOptions
<1> QED
  BY <1>1, <1>2, <1>3 DEF Step, OptionNext, optionVars

LEMMA RiftsStay == Step => rifts \subseteq rifts'
<1> SUFFICES ASSUME Step
             PROVE  rifts \subseteq rifts'
  OBVIOUS
<1>1. CASE \E c \in posts : \/ CallServed(c) \/ OptionsLoaded(c) \/ OptionsSaved(c)
                            \/ OtherAnswered(c) \/ OptionFailed(c)
  BY <1>1 DEF CallServed, OptionsLoaded, OptionsSaved, OtherAnswered, OptionFailed
<1>2. CASE \E f \in Names : EditOption(f) \/ OtherAdmin(f)
  BY <1>2 DEF EditOption, OtherAdmin
<1>3. CASE ReopenPage \/ SubmitOptions \/ TestOptions
  BY <1>3 DEF ReopenPage, SubmitOptions, TestOptions
<1> QED
  BY <1>1, <1>2, <1>3 DEF Step, OptionNext, optionVars

\* A request of the page carries what it shows.
LEMMA RequestTyped ==
    ASSUME Typed, NEW do \in {"load", "save", "test", "apply"}
    PROVE  Request(do) \in PostRecord
<1>1. options \in Options /\ called + 1 \in Nat /\ visit \in Nat /\ (~loaded) \in BOOLEAN
  BY DEF Typed, OptionTypeOK, Options
<1> QED
  BY <1>1 DEF Request, PostRecord

LEMMA TypedStep == Typed /\ Step => Typed'
<1> SUFFICES ASSUME Typed, Step
             PROVE  Typed'
  OBVIOUS
<1>0. /\ optionPage' = optionPage /\ Names' = Names /\ PostRecord' = PostRecord
      /\ optionPage \in DOMAIN OptionPages
  BY NextPage, SamePage DEF Typed, OptionTypeOK
<1>1. /\ options \in Options /\ held \in Options /\ applied \in Options
      /\ opened \in BOOLEAN /\ saving \in BOOLEAN /\ loaded \in BOOLEAN
      /\ dirty \subseteq Names /\ mine \subseteq Names /\ theirs \subseteq Names
      /\ posts \subseteq PostRecord /\ called \in Nat /\ visit \in Nat
      /\ typed \in 0 .. MaxTyping
  BY DEF Typed, OptionTypeOK, Options
<1> SUFFICES /\ options' \in Options /\ held' \in Options /\ applied' \in Options
             /\ opened' \in BOOLEAN /\ saving' \in BOOLEAN /\ loaded' \in BOOLEAN
             /\ dirty' \subseteq Names /\ mine' \subseteq Names /\ theirs' \subseteq Names
             /\ posts' \subseteq PostRecord /\ called' \in Nat /\ visit' \in Nat
             /\ typed' \in 0 .. MaxTyping
  <2>1. \A c \in PostRecord : c.with \in Options /\ c.at \in {"server", "client"}
    BY DEF PostRecord
  <2> QED
    BY <1>0, <2>1 DEF Typed, OptionTypeOK, Options
<1>2. CASE ReopenPage
  <2>1. [Request("load") EXCEPT !.visit = visit'] \in PostRecord
    <3>1. Request("load") \in PostRecord /\ visit' \in Nat
      BY <1>1, <1>2, RequestTyped DEF ReopenPage
    <3> QED
      BY <3>1 DEF PostRecord
  <2>2. Here.early \in BOOLEAN
    BY <1>0, EarlyKnown DEF Here
  <2>3. /\ options' \in Options /\ opened' \in BOOLEAN /\ posts' \subseteq PostRecord
        /\ saving' = FALSE /\ loaded' = FALSE /\ dirty' = {}
    BY <1>1, <1>2, <2>1, <2>2, InitialTyped DEF ReopenPage
  <2>4. called' \in Nat /\ visit' \in Nat
    BY <1>1, <1>2 DEF ReopenPage
  <2>5. UNCHANGED <<typed, held, applied, theirs, mine>>
    BY <1>2 DEF ReopenPage, backend
  <2> QED
    BY <1>1, <2>3, <2>4, <2>5
<1>3. CASE \E f \in Names : EditOption(f)
  <2>1. PICK f \in Names : EditOption(f)
    BY <1>3
  <2>2. typed' \in 1 .. MaxTyping
    BY <1>1, <2>1, OptionAssumption DEF EditOption
  <2>3. [options EXCEPT ![f] = Theirs + typed'] \in Options
    BY <1>1, <2>2, ValuesKnown DEF Options
  <2> QED
    BY <1>1, <2>1, <2>2, <2>3 DEF EditOption, backend
<1>4. CASE SubmitOptions
  BY <1>1, <1>4, RequestTyped DEF SubmitOptions, Send, backend
<1>5. CASE TestOptions
  BY <1>1, <1>5, RequestTyped DEF TestOptions, Send, backend
<1>6. CASE \E c \in posts : CallServed(c)
  <2>1. PICK c \in posts : CallServed(c)
    BY <1>6
  <2>2. c \in PostRecord
    BY <1>1
  <2>3. [c EXCEPT !.at = "client", !.with = IF c.do = "load" THEN held ELSE @] \in PostRecord
    <3>1. (IF c.do = "load" THEN held ELSE c.with) \in Options
      BY <1>1, <2>2 DEF PostRecord
    <3> QED
      BY <2>2, <3>1 DEF PostRecord
  <2>4. held' \in Options /\ applied' \in Options
    BY <1>1, <2>1, <2>2 DEF CallServed, PostRecord
  <2> QED
    BY <1>1, <2>1, <2>3, <2>4 DEF CallServed, formState
<1>7. CASE \E c \in posts : OptionsLoaded(c)
  <2>1. PICK c \in posts : OptionsLoaded(c)
    BY <1>7
  <2>2. c.with \in Options
    BY <1>1 DEF PostRecord
  <2> QED
    BY <1>1, <2>1, <2>2 DEF OptionsLoaded, backend
<1>8. CASE \E c \in posts : OptionsSaved(c)
  <2>1. PICK c \in posts : OptionsSaved(c)
    BY <1>8
  <2>2. [c EXCEPT !.do = "apply", !.at = "server"] \in PostRecord
    BY <1>1 DEF PostRecord
  <2> QED
    BY <1>1, <2>1, <2>2 DEF OptionsSaved, backend
<1>9. CASE \E c \in posts : OtherAnswered(c) \/ OptionFailed(c)
  BY <1>1, <1>9 DEF OtherAnswered, OptionFailed, backend
<1>10. CASE \E f \in Names : OtherAdmin(f)
  BY <1>1, <1>10, ValuesKnown DEF OtherAdmin, formState, Options
<1>11. CASE UNCHANGED optionVars
  BY <1>1, <1>11 DEF optionVars, formState, backend
<1> QED
  BY <1>2, <1>3, <1>4, <1>5, <1>6, <1>7, <1>8, <1>9, <1>10, <1>11 DEF Step, OptionNext

LEMMA TypedInit == OptionInit => Typed
<1> SUFFICES ASSUME OptionInit
             PROVE  Typed
  OBVIOUS
<1>1. options \in Options /\ held \in Options /\ applied \in Options
  BY InitialTyped, ValuesKnown DEF OptionInit, Options
<1>2. Here.early \in BOOLEAN
  BY EarlyKnown DEF OptionInit, Here
<1>3. posts \subseteq PostRecord
  <2>1. called + 1 \in Nat /\ 1 \in Nat /\ visit \in Nat /\ (~loaded) \in BOOLEAN
    BY DEF OptionInit
  <2>2. Request("load") \in PostRecord
    BY <1>1, <2>1 DEF Request, PostRecord
  <2>3. [Request("load") EXCEPT !.n = 1] \in PostRecord
    BY <2>1, <2>2 DEF PostRecord
  <2> QED
    BY <2>3 DEF OptionInit
<1>4. \A c \in posts : c.with \in Options /\ c.at \in {"server", "client"}
  BY <1>3 DEF PostRecord
<1>5. /\ optionPage \in DOMAIN OptionPages /\ opened \in BOOLEAN /\ saving \in BOOLEAN
      /\ loaded \in BOOLEAN /\ dirty \cup mine \cup theirs \subseteq Names
  BY <1>2 DEF OptionInit
<1>6. OptionTypeOK
  BY <1>1, <1>4, <1>5 DEF OptionTypeOK, Options
<1> QED
  BY <1>3, <1>6, OptionAssumption DEF OptionInit, Typed

-----------------------------------------------------------------------------
(* What is saved is used.                                                  *)

\* Until the server uses what it holds, a save is answered or a request to use it comes.
UseComing ==
    \E c \in posts : (c.do = "save" /\ c.at = "client") \/ (c.do = "apply" /\ c.at = "server")
AppliedInv == Here.applies /\ "failed" \notin rifts => applied = held \/ UseComing

LEMMA AppliedStep == Typed /\ AppliedInv /\ Step => AppliedInv'
<1> SUFFICES ASSUME Typed, AppliedInv, Step, Here.applies, "failed" \notin rifts'
             PROVE  applied' = held' \/ UseComing'
  BY NextPage, SamePage DEF AppliedInv
<1>0. \A c \in posts : c \in PostRecord
  BY DEF Typed
<1>1. CASE UNCHANGED <<held, applied>> /\ posts \subseteq posts' /\ rifts \subseteq rifts'
  BY <1>1 DEF AppliedInv, UseComing
<1>2. CASE ReopenPage \/ SubmitOptions \/ TestOptions \/ \E f \in Names : EditOption(f)
  BY <1>1, <1>2 DEF ReopenPage, SubmitOptions, TestOptions, EditOption, Send, backend
<1>3. CASE \E f \in Names : OtherAdmin(f)
  BY <1>3 DEF OtherAdmin
<1>4. ASSUME NEW c \in posts, CallServed(c)
      PROVE  applied' = held' \/ UseComing'
  <2> PICK new : new = [c EXCEPT !.at = "client", !.with = IF c.do = "load" THEN held ELSE @]
    OBVIOUS
  <2>1. new.do = c.do /\ new.at = "client" /\ posts' = (posts \ {c}) \cup {new}
    BY <1>0, <1>4 DEF CallServed, PostRecord
  <2>2. CASE c.do = "save"
    BY <2>1, <2>2 DEF UseComing
  <2>3. CASE c.do = "apply"
    BY <1>4, <2>3 DEF CallServed
  <2>4. CASE c.do \notin {"save", "apply"}
    <3>1. held' = held /\ applied' = applied /\ rifts' = rifts
      BY <1>4, <2>4 DEF CallServed
    <3> QED
      BY <2>1, <2>4, <3>1 DEF AppliedInv, UseComing
  <2> QED
    BY <2>2, <2>3, <2>4
<1>5. ASSUME NEW c \in posts, OptionsSaved(c)
      PROVE  UseComing'
  <2> PICK new : new = [c EXCEPT !.do = "apply", !.at = "server"]
    OBVIOUS
  <2>1. new.do = "apply" /\ new.at = "server" /\ new \in posts'
    BY <1>0, <1>5 DEF OptionsSaved, PostRecord
  <2> QED
    BY <2>1 DEF UseComing
<1>6. ASSUME NEW c \in posts, OptionsLoaded(c) \/ OtherAnswered(c) \/ OptionFailed(c)
      PROVE  applied' = held' \/ UseComing'
  <2>1. /\ posts' = posts \ {c} /\ UNCHANGED <<held, applied>> /\ rifts \subseteq rifts'
        /\ ~(c.do = "save" /\ c.at = "client") /\ ~(c.do = "apply" /\ c.at = "server")
    BY <1>6 DEF OptionsLoaded, OtherAnswered, OptionFailed, backend
  <2> QED
    BY <2>1 DEF AppliedInv, UseComing
<1>7. CASE UNCHANGED optionVars
  BY <1>1, <1>7 DEF optionVars, backend
<1> QED
  BY <1>2, <1>3, <1>4, <1>5, <1>6, <1>7 DEF Step, OptionNext

-----------------------------------------------------------------------------
(* What a save leaves alone.                                               *)

\* Values that differ from the first ones only where somebody has changed them.
Faithful(w) == \A f \in Names \ mine : w[f] = IF f \in theirs THEN Theirs ELSE Held

KeptInv ==
    rifts \cap {"blind", "stale"} = {} =>
        /\ Faithful(held)
        /\ \A c \in posts : c.do = "save" \/ (c.do = "load" /\ c.at = "client") =>
                              Faithful(c.with)
        /\ loaded => Faithful(options)

LEMMA KeptStep == Typed /\ KeptInv /\ Step => KeptInv'
<1> SUFFICES ASSUME Typed, KeptInv, Step, rifts' \cap {"blind", "stale"} = {}
             PROVE  /\ Faithful(held)'
                    /\ \A c \in posts' : c.do = "save" \/ (c.do = "load" /\ c.at = "client") =>
                                           Faithful(c.with)'
                    /\ loaded' => Faithful(options)'
  BY DEF KeptInv
<1>0. Names' = Names /\ \A c \in posts : c \in PostRecord
  BY NextPage, SamePage DEF Typed
<1>a. /\ held \in [Names -> Values] /\ options \in [Names -> Values]
  BY DEF Typed, OptionTypeOK
<1>b. rifts \subseteq rifts'
  BY RiftsStay
<1>c. /\ Faithful(held)
      /\ \A c \in posts : c.do = "save" \/ (c.do = "load" /\ c.at = "client") =>
                            Faithful(c.with)
      /\ loaded => Faithful(options)
  BY <1>b DEF KeptInv
<1>d. ASSUME UNCHANGED <<mine, theirs>>, NEW w, Faithful(w)
      PROVE  \A f \in Names' \ mine' : w[f] = IF f \in theirs' THEN Theirs ELSE Held
  BY <1>0, <1>d DEF Faithful
<1>1. CASE ReopenPage
  <2> PICK new : new = [Request("load") EXCEPT !.visit = visit']
    OBVIOUS
  <2>1. new.do = "load" /\ new.at = "server" /\ posts' = posts \cup {new}
    BY <1>1 DEF ReopenPage, Request
  <2>2. UNCHANGED <<mine, theirs, held>> /\ ~loaded'
    BY <1>1 DEF ReopenPage, backend
  <2> QED
    BY <1>0, <1>c, <2>1, <2>2 DEF Faithful
<1>2. CASE SubmitOptions
  <2> PICK new : new = Request("save")
    OBVIOUS
  <2>1. /\ new.do = "save" /\ new.with = options /\ posts' = posts \cup {new}
        /\ loaded /\ UNCHANGED <<mine, theirs, held, loaded, options>>
    BY <1>2 DEF SubmitOptions, Send, Request, backend
  <2> QED
    BY <1>0, <1>c, <2>1 DEF Faithful
<1>3. CASE TestOptions
  <2> PICK new : new = Request("test")
    OBVIOUS
  <2>1. /\ new.do = "test" /\ posts' = posts \cup {new}
        /\ UNCHANGED <<mine, theirs, held, loaded, options>>
    BY <1>3 DEF TestOptions, Send, Request, backend
  <2> QED
    BY <1>0, <1>c, <2>1 DEF Faithful
<1>4. ASSUME NEW f \in Names, EditOption(f)
      PROVE  /\ Faithful(held)'
             /\ \A c \in posts' : c.do = "save" \/ (c.do = "load" /\ c.at = "client") =>
                                    Faithful(c.with)'
             /\ loaded' => Faithful(options)'
  <2>1. /\ mine' = mine \cup {f} /\ UNCHANGED <<posts, held, theirs, loaded>>
        /\ \A x \in Names \ {f} : options'[x] = options[x]
    BY <1>4, <1>a DEF EditOption, backend
  <2> QED
    BY <1>0, <1>c, <2>1 DEF Faithful
<1>5. ASSUME NEW f \in Names, OtherAdmin(f)
      PROVE  /\ Faithful(held)'
             /\ \A c \in posts' : c.do = "save" \/ (c.do = "load" /\ c.at = "client") =>
                                    Faithful(c.with)'
             /\ loaded' => Faithful(options)'
  <2>1. /\ theirs' = theirs \cup {f} /\ UNCHANGED <<posts, mine, loaded>>
        /\ ~loaded /\ \A c \in posts : c.do # "save" /\ c.at # "client"
        /\ held' = [held EXCEPT ![f] = Theirs]
    BY <1>5 DEF OtherAdmin, formState
  <2>2. \A x \in Names \ mine : held'[x] = IF x \in theirs' THEN Theirs ELSE Held
    BY <1>a, <1>c, <2>1 DEF Faithful
  <2> QED
    BY <1>0, <2>1, <2>2 DEF Faithful
<1>6. ASSUME NEW c \in posts, CallServed(c)
      PROVE  /\ Faithful(held)'
             /\ \A d \in posts' : d.do = "save" \/ (d.do = "load" /\ d.at = "client") =>
                                    Faithful(d.with)'
             /\ loaded' => Faithful(options)'
  <2> PICK new : new = [c EXCEPT !.at = "client", !.with = IF c.do = "load" THEN held ELSE @]
    OBVIOUS
  <2>1. /\ new.do = c.do /\ new.with = IF c.do = "load" THEN held ELSE c.with
        /\ posts' = (posts \ {c}) \cup {new}
        /\ UNCHANGED <<mine, theirs, loaded, options>>
    BY <1>0, <1>6 DEF CallServed, PostRecord, formState
  <2>2. held' = held \/ (c.do = "save" /\ held' = c.with)
    BY <1>6 DEF CallServed
  <2>3. Faithful(held)'
    BY <1>0, <1>c, <2>1, <2>2 DEF Faithful
  <2>4. new.do \in {"save", "load"} => Faithful(new.with)'
    BY <1>0, <1>c, <2>1 DEF Faithful
  <2>5. \A d \in posts : d.do = "save" \/ (d.do = "load" /\ d.at = "client") =>
                            Faithful(d.with)'
    BY <1>0, <1>c, <2>1 DEF Faithful
  <2>6. loaded' => Faithful(options)'
    BY <1>0, <1>c, <2>1 DEF Faithful
  <2> QED
    BY <2>1, <2>3, <2>4, <2>5, <2>6
<1>7. ASSUME NEW c \in posts, OptionsLoaded(c)
      PROVE  /\ Faithful(held)'
             /\ \A d \in posts' : d.do = "save" \/ (d.do = "load" /\ d.at = "client") =>
                                    Faithful(d.with)'
             /\ loaded' => Faithful(options)'
  <2>1. /\ posts' = posts \ {c} /\ UNCHANGED <<mine, theirs, held>>
        /\ options' = c.with \/ UNCHANGED <<options, loaded>>
        /\ c.do = "load" /\ c.at = "client"
    BY <1>7 DEF OptionsLoaded, backend
  <2> QED
    BY <1>0, <1>c, <2>1 DEF Faithful
<1>8. ASSUME NEW c \in posts, OptionsSaved(c)
      PROVE  /\ Faithful(held)'
             /\ \A d \in posts' : d.do = "save" \/ (d.do = "load" /\ d.at = "client") =>
                                    Faithful(d.with)'
             /\ loaded' => Faithful(options)'
  <2> PICK new : new = [c EXCEPT !.do = "apply", !.at = "server"]
    OBVIOUS
  <2>1. /\ new.do = "apply" /\ posts' \subseteq posts \cup {new}
        /\ UNCHANGED <<mine, theirs, held, loaded, options>>
    BY <1>0, <1>8 DEF OptionsSaved, PostRecord, backend
  <2> QED
    BY <1>0, <1>c, <2>1 DEF Faithful
<1>9. CASE \E c \in posts : OtherAnswered(c) \/ OptionFailed(c)
  <2>1. posts' \subseteq posts /\ UNCHANGED <<mine, theirs, held, loaded, options>>
    BY <1>9 DEF OtherAnswered, OptionFailed, backend
  <2> QED
    BY <1>0, <1>c, <2>1 DEF Faithful
<1>10. CASE UNCHANGED optionVars
  BY <1>0, <1>c, <1>10 DEF optionVars, backend, formState, Faithful
<1> QED
  BY <1>1, <1>2, <1>3, <1>4, <1>5, <1>6, <1>7, <1>8, <1>9, <1>10 DEF Step, OptionNext

-----------------------------------------------------------------------------
(* What a saved form shows.                                                *)

\* A visit loads once, and has one save or test under way at most.
Visited == visit <= called /\ \A c \in posts : c.visit <= visit
Loading(c) == c.do = "load" /\ c.visit = visit
LoadsOnce ==
    /\ \A c, d \in posts : Loading(c) /\ Loading(d) => c = d
    /\ loaded => \A c \in posts : ~Loading(c)
Saving(c) == c.do \in {"save", "test"} /\ c.visit = visit
SavesOnce ==
    /\ ~saving => \A c \in posts : ~Saving(c)
    /\ \A c, d \in posts : Saving(c) /\ Saving(d) => c = d
BlindFirst == ~loaded => \A c \in posts : c.do = "save" /\ c.visit = visit => c.blind
VisitInv == Visited /\ LoadsOnce /\ SavesOnce /\ BlindFirst

\* A save of the filled form, on its way to the server.
Coming(c) == c.do = "save" /\ c.at = "server" /\ c.visit = visit /\ ~c.blind

\* What has not been typed since the last save is what the server has, or will have.
ShownInv ==
    rifts \cap {"overtaken", "stale"} = {} =>
        /\ \A c \in posts : c.do = "load" /\ c.at = "client" /\ c.visit = visit => c.with = held
        /\ loaded => \A f \in Names \ dirty :
                        /\ \A c \in posts : Coming(c) => options[f] = c.with[f]
                        /\ (\A c \in posts : ~Coming(c)) => options[f] = held[f]

LEMMA VisitStep == Typed /\ VisitInv /\ Step => VisitInv'
<1> SUFFICES ASSUME Typed, VisitInv, Step
             PROVE  VisitInv'
  OBVIOUS
<1>0. /\ \A c \in posts : c \in PostRecord /\ c.visit \in Nat
      /\ visit \in Nat /\ called \in Nat
  BY DEF Typed, PostRecord
<1>1. CASE ReopenPage
  <2> PICK new : new = [Request("load") EXCEPT !.visit = visit']
    OBVIOUS
  <2>1. /\ new.do = "load" /\ new.visit = visit' /\ posts' = posts \cup {new}
        /\ called' = called + 1 /\ visit' = called' /\ ~loaded' /\ ~saving'
    BY <1>1 DEF ReopenPage, Request
  <2>2. \A c \in posts : c.visit # visit' /\ c.visit <= visit'
    BY <1>0, <2>1 DEF VisitInv, Visited
  <2>3. Visited'
    <3>1. visit' <= called' /\ new.visit <= visit'
      BY <1>0, <2>1
    <3> QED
      BY <2>1, <2>2, <3>1 DEF Visited
  <2>4. LoadsOnce'
    BY <1>0, <2>1, <2>2 DEF VisitInv, Visited, LoadsOnce, Loading
  <2>5. SavesOnce'
    BY <1>0, <2>1, <2>2 DEF VisitInv, Visited, SavesOnce, Saving
  <2>6. BlindFirst'
    BY <1>0, <2>1, <2>2 DEF VisitInv, Visited, BlindFirst
  <2> QED
    BY <2>3, <2>4, <2>5, <2>6 DEF VisitInv
<1>2. ASSUME NEW do \in {"save", "test"}, Send(do), ~saving, saving',
             UNCHANGED <<visit, loaded>>
      PROVE  VisitInv'
  <2> PICK new : new = Request(do)
    OBVIOUS
  <2>1. /\ new.do = do /\ new.visit = visit /\ new.blind = ~loaded
        /\ posts' = posts \cup {new} /\ called' = called + 1
    BY <1>2 DEF Send, Request
  <2>2. Visited'
    BY <1>0, <1>2, <2>1 DEF VisitInv, Visited
  <2>3. LoadsOnce'
    BY <1>0, <1>2, <2>1 DEF VisitInv, Visited, LoadsOnce, Loading
  <2>4. SavesOnce'
    BY <1>0, <1>2, <2>1 DEF VisitInv, Visited, SavesOnce, Saving
  <2>5. BlindFirst'
    BY <1>0, <1>2, <2>1 DEF VisitInv, Visited, BlindFirst
  <2> QED
    BY <2>2, <2>3, <2>4, <2>5 DEF VisitInv
<1>3. CASE SubmitOptions \/ TestOptions
  BY <1>2, <1>3 DEF SubmitOptions, TestOptions
<1>4. CASE \E f \in Names : EditOption(f) \/ OtherAdmin(f)
  BY <1>4 DEF EditOption, OtherAdmin, formState, VisitInv, Visited, LoadsOnce, Loading,
                      SavesOnce, Saving, BlindFirst
<1>5. ASSUME NEW c \in posts, CallServed(c)
      PROVE  VisitInv'
  <2> PICK new : new = [c EXCEPT !.at = "client", !.with = IF c.do = "load" THEN held ELSE @]
    OBVIOUS
  <2>1. /\ new.do = c.do /\ new.visit = c.visit /\ new.blind = c.blind
        /\ posts' = (posts \ {c}) \cup {new} /\ UNCHANGED <<visit, loaded, saving, called>>
    BY <1>0, <1>5 DEF CallServed, PostRecord, formState
  <2>2. Visited'
    BY <1>0, <2>1 DEF VisitInv, Visited
  <2>3. LoadsOnce'
    BY <1>0, <2>1 DEF VisitInv, Visited, LoadsOnce, Loading
  <2>4. SavesOnce'
    <3>1. \A d \in posts : Saving(d)' = Saving(d)
      BY <2>1 DEF Saving
    <3>2. Saving(new)' = Saving(c) /\ saving' = saving
      BY <2>1 DEF Saving
    <3> QED
      BY <2>1, <3>1, <3>2 DEF VisitInv, SavesOnce
  <2>5. BlindFirst'
    BY <1>0, <2>1 DEF VisitInv, Visited, BlindFirst
  <2> QED
    BY <2>2, <2>3, <2>4, <2>5 DEF VisitInv
<1>6. ASSUME NEW c \in posts, OptionsLoaded(c)
      PROVE  VisitInv'
  <2>1. /\ posts' = posts \ {c} /\ c.do = "load" /\ UNCHANGED <<visit, saving, called>>
        /\ IF c.visit = visit THEN loaded' = TRUE ELSE loaded' = loaded
    BY <1>6 DEF OptionsLoaded
  <2>2. Visited'
    BY <1>0, <2>1 DEF VisitInv, Visited
  <2>3. LoadsOnce'
    BY <1>0, <2>1 DEF VisitInv, Visited, LoadsOnce, Loading
  <2>4. SavesOnce'
    BY <1>0, <2>1 DEF VisitInv, Visited, SavesOnce, Saving
  <2>5. BlindFirst'
    BY <1>0, <2>1 DEF VisitInv, Visited, BlindFirst
  <2> QED
    BY <2>2, <2>3, <2>4, <2>5 DEF VisitInv
<1>7. ASSUME NEW c \in posts, OptionsSaved(c)
      PROVE  VisitInv'
  <2> PICK new : new = [c EXCEPT !.do = "apply", !.at = "server"]
    OBVIOUS
  <2>1. /\ new.do = "apply" /\ new.visit = c.visit /\ c.do = "save"
        /\ posts' \subseteq (posts \ {c}) \cup {new} /\ UNCHANGED <<visit, loaded, called>>
        /\ saving' = (saving /\ c.visit # visit)
    BY <1>0, <1>7 DEF OptionsSaved, PostRecord
  <2>2. Visited'
    BY <1>0, <2>1 DEF VisitInv, Visited
  <2>3. LoadsOnce'
    BY <1>0, <2>1 DEF VisitInv, Visited, LoadsOnce, Loading
  <2>4. SavesOnce'
    BY <1>0, <2>1 DEF VisitInv, Visited, SavesOnce, Saving
  <2>5. BlindFirst'
    BY <1>0, <2>1 DEF VisitInv, Visited, BlindFirst
  <2> QED
    BY <2>2, <2>3, <2>4, <2>5 DEF VisitInv
<1>8. ASSUME NEW c \in posts, OtherAnswered(c) \/ OptionFailed(c)
      PROVE  VisitInv'
  <2>1. /\ posts' = posts \ {c} /\ UNCHANGED <<visit, loaded, called>>
        /\ ~saving' => ~saving \/ (c.do \in {"save", "test"} /\ c.visit = visit)
    BY <1>8 DEF OtherAnswered, OptionFailed
  <2>2. Visited'
    BY <1>0, <2>1 DEF VisitInv, Visited
  <2>3. LoadsOnce'
    BY <1>0, <2>1 DEF VisitInv, Visited, LoadsOnce, Loading
  <2>4. SavesOnce'
    BY <1>0, <2>1 DEF VisitInv, Visited, SavesOnce, Saving
  <2>5. BlindFirst'
    BY <1>0, <2>1 DEF VisitInv, Visited, BlindFirst
  <2> QED
    BY <2>2, <2>3, <2>4, <2>5 DEF VisitInv
<1>9. CASE UNCHANGED optionVars
  BY <1>9 DEF optionVars, formState, VisitInv, Visited, LoadsOnce, Loading,
                      SavesOnce, Saving, BlindFirst
<1> QED
  BY <1>1, <1>3, <1>4, <1>5, <1>6, <1>7, <1>8, <1>9 DEF Step, OptionNext

LEMMA ShownStep == Typed /\ VisitInv /\ ShownInv /\ Step => ShownInv'
<1> SUFFICES ASSUME Typed, VisitInv, ShownInv, Step, rifts' \cap {"overtaken", "stale"} = {}
             PROVE  ShownInv'
  BY DEF ShownInv
<1>0. /\ Names' = Names /\ \A c \in posts : c \in PostRecord /\ c.visit \in Nat
      /\ visit \in Nat /\ called \in Nat /\ loaded \in BOOLEAN
  BY NextPage, SamePage DEF Typed, OptionTypeOK, PostRecord
<1>a. rifts \subseteq rifts'
  BY RiftsStay
<1>b. \A c \in posts : c.do = "load" /\ c.at = "client" /\ c.visit = visit => c.with = held
  BY <1>a DEF ShownInv
<1>c. ASSUME loaded, NEW f \in Names \ dirty
      PROVE  /\ \A c \in posts : Coming(c) => options[f] = c.with[f]
             /\ (\A c \in posts : ~Coming(c)) => options[f] = held[f]
  BY <1>a, <1>c DEF ShownInv
<1>1. CASE ReopenPage
  <2> PICK new : new = [Request("load") EXCEPT !.visit = visit']
    OBVIOUS
  <2>1. /\ new.do = "load" /\ new.at = "server" /\ posts' = posts \cup {new}
        /\ visit' = called + 1 /\ ~loaded'
    BY <1>1 DEF ReopenPage, Request
  <2>2. \A c \in posts : c.visit # visit'
    BY <1>0, <2>1 DEF VisitInv, Visited
  <2> QED
    BY <2>1, <2>2 DEF ShownInv
<1>2. CASE SubmitOptions
  <2> PICK new : new = Request("save")
    OBVIOUS
  <2>1. /\ new.do = "save" /\ new.at = "server" /\ new.visit = visit /\ new.blind = ~loaded
        /\ new.with = options /\ posts' = posts \cup {new} /\ ~saving
        /\ UNCHANGED <<visit, loaded, held, options>>
    BY <1>2 DEF SubmitOptions, Send, Request, backend
  <2>2. \A c \in posts : ~Coming(c)'
    BY <2>1 DEF VisitInv, SavesOnce, Saving, Coming
  <2>3. loaded' => Coming(new)'
    BY <2>1 DEF Coming
  <2> QED
    BY <1>0, <1>b, <2>1, <2>2, <2>3 DEF ShownInv
<1>3. CASE TestOptions
  <2> PICK new : new = Request("test")
    OBVIOUS
  <2>1. /\ new.do = "test" /\ posts' = posts \cup {new}
        /\ UNCHANGED <<visit, loaded, held, options, dirty>>
    BY <1>3 DEF TestOptions, Send, Request, backend
  <2>2. ~Coming(new)' /\ \A c \in posts : Coming(c)' = Coming(c)
    BY <2>1 DEF Coming
  <2> QED
    BY <1>0, <1>b, <1>c, <2>1, <2>2 DEF ShownInv
<1>4. ASSUME NEW f \in Names, EditOption(f)
      PROVE  ShownInv'
  <2>1. /\ dirty' = dirty \cup {f} /\ UNCHANGED <<posts, held, visit, loaded>>
        /\ \A x \in Names \ {f} : options'[x] = options[x]
    BY <1>4 DEF EditOption, backend, Typed, OptionTypeOK
  <2>2. \A c \in posts : Coming(c)' = Coming(c)
    BY <2>1 DEF Coming
  <2> QED
    BY <1>0, <1>b, <1>c, <2>1, <2>2 DEF ShownInv
<1>5. ASSUME NEW f \in Names, OtherAdmin(f)
      PROVE  ShownInv'
  <2>1. ~loaded' /\ posts' = posts /\ \A c \in posts : c.at # "client"
    BY <1>5 DEF OtherAdmin, formState
  <2> QED
    BY <2>1 DEF ShownInv
<1>6. ASSUME NEW c \in posts, CallServed(c)
      PROVE  ShownInv'
  <2> PICK new : new = [c EXCEPT !.at = "client", !.with = IF c.do = "load" THEN held ELSE @]
    OBVIOUS
  <2>1. /\ new.do = c.do /\ new.visit = c.visit /\ new.at = "client"
        /\ posts' = (posts \ {c}) \cup {new} /\ c.at = "server"
        /\ UNCHANGED <<visit, loaded, options, dirty>>
        /\ c.do = "load" => new.with = held
    BY <1>0, <1>6 DEF CallServed, PostRecord, formState
  <2>2. ~Coming(new)' /\ \A d \in posts : Coming(d)' = Coming(d)
    BY <2>1 DEF Coming
  <2>3. CASE c.do # "save"
    <3>1. held' = held /\ ~Coming(c)
      BY <1>6, <2>3 DEF CallServed, Coming
    <3> QED
      BY <1>0, <1>b, <1>c, <2>1, <2>2, <3>1 DEF ShownInv
  <2>4. CASE c.do = "save"
    <3>1. held' = c.with /\ ~Outdated(c)
      BY <1>6, <2>4 DEF CallServed
    <3>2. \A l \in posts : ~(l.do = "load" /\ l.at = "client" /\ l.visit = visit)
      BY <3>1 DEF Outdated
    <3>3. loaded => Coming(c)
      BY <2>1, <2>4, <3>1 DEF Outdated, Coming
    <3>4. \A d \in posts \ {c} : ~(Coming(c) /\ Coming(d))
      BY DEF VisitInv, SavesOnce, Saving, Coming
    <3> QED
      BY <1>0, <1>c, <2>1, <2>2, <2>4, <3>1, <3>2, <3>3, <3>4 DEF ShownInv
  <2> QED
    BY <2>3, <2>4
<1>7. ASSUME NEW c \in posts, OptionsLoaded(c)
      PROVE  ShownInv'
  <2>1. /\ posts' = posts \ {c} /\ c.do = "load" /\ c.at = "client"
        /\ UNCHANGED <<visit, held>>
    BY <1>7 DEF OptionsLoaded, backend
  <2>2. \A d \in posts : Coming(d)' = Coming(d)
    BY <2>1 DEF Coming
  <2>3. CASE c.visit = visit
    <3>1. options' = held
      BY <1>7, <1>b, <2>1, <2>3 DEF OptionsLoaded
    <3>2. \A d \in posts : ~Coming(d)
      BY <2>1, <2>3 DEF VisitInv, BlindFirst, LoadsOnce, Loading, Coming
    <3> QED
      BY <1>0, <1>b, <2>1, <2>2, <3>1, <3>2 DEF ShownInv
  <2>4. CASE c.visit # visit
    <3>1. UNCHANGED <<options, loaded, dirty>> /\ ~Coming(c)
      BY <1>7, <2>4 DEF OptionsLoaded, Coming
    <3> QED
      BY <1>0, <1>b, <1>c, <2>1, <2>2, <3>1 DEF ShownInv
  <2> QED
    BY <2>3, <2>4
<1>8. ASSUME NEW c \in posts, OptionsSaved(c)
      PROVE  ShownInv'
  <2> PICK new : new = [c EXCEPT !.do = "apply", !.at = "server"]
    OBVIOUS
  <2>1. /\ new.do = "apply" /\ c.at = "client"
        /\ posts' = posts \ {c} \/ posts' = (posts \ {c}) \cup {new}
        /\ UNCHANGED <<visit, loaded, options, dirty, held>>
    BY <1>0, <1>8 DEF OptionsSaved, PostRecord, backend
  <2>2. ~Coming(new)' /\ ~Coming(c) /\ \A d \in posts : Coming(d)' = Coming(d)
    BY <2>1 DEF Coming
  <2> QED
    BY <1>0, <1>b, <1>c, <2>1, <2>2 DEF ShownInv
<1>9. ASSUME NEW c \in posts, OtherAnswered(c) \/ OptionFailed(c)
      PROVE  ShownInv'
  <2>1. /\ posts' = posts \ {c} /\ UNCHANGED <<visit, loaded, options, held>>
        /\ dirty' = Names \/ (dirty' = dirty /\ ~Coming(c))
    BY <1>9 DEF OtherAnswered, OptionFailed, backend, Coming
  <2>2. \A d \in posts : Coming(d)' = Coming(d)
    BY <2>1 DEF Coming
  <2> QED
    BY <1>0, <1>b, <1>c, <2>1, <2>2 DEF ShownInv
<1>10. CASE UNCHANGED optionVars
  BY <1>0, <1>b, <1>c, <1>10 DEF optionVars, backend, formState, ShownInv, Coming
<1> QED
  BY <1>1, <1>2, <1>3, <1>4, <1>5, <1>6, <1>7, <1>8, <1>9, <1>10 DEF Step, OptionNext

\* OptionSpec => []OptionTypeOK.
THEOREM OptionTypes == OptionSpec => []OptionTypeOK
<1>1. Typed => OptionTypeOK
  BY DEF Typed
<1> QED
  BY <1>1, TypedInit, TypedStep, PTL DEF OptionSpec, Step

\* OptionSpec => []OptionsApplied: with nothing under way and no request failed, the server
\* uses the options that it holds.
THEOREM Applied == OptionSpec => []OptionsApplied
<1>1. OptionInit => Typed /\ AppliedInv
  BY TypedInit DEF OptionInit, AppliedInv
<1>2. Typed /\ AppliedInv /\ Step => (Typed /\ AppliedInv)'
  BY TypedStep, AppliedStep
<1>3. AppliedInv => OptionsApplied
  BY DEF AppliedInv, OptionsApplied, UseComing
<1> QED
  BY <1>1, <1>2, <1>3, PTL DEF OptionSpec, Step

\* OptionSpec => []OptionsKept: an option its user has not touched keeps its value, although
\* a save writes them all, unless a form is saved unloaded or after another administrator's.
THEOREM Kept == OptionSpec => []OptionsKept
<1>1. OptionInit => Typed /\ KeptInv
  BY TypedInit DEF OptionInit, KeptInv, Faithful, Request
<1>2. Typed /\ KeptInv /\ Step => (Typed /\ KeptInv)'
  BY TypedStep, KeptStep
<1>3. KeptInv => OptionsKept
  BY DEF KeptInv, OptionsKept, Faithful
<1> QED
  BY <1>1, <1>2, <1>3, PTL DEF OptionSpec, Step

\* OptionSpec => []OptionsShown: a form that is saved shows what the server has, whatever
\* is answered late, unless another save came in between.
THEOREM Shown == OptionSpec => []OptionsShown
<1>1. OptionInit => Typed /\ VisitInv /\ ShownInv
  <2> SUFFICES ASSUME OptionInit
               PROVE  VisitInv /\ ShownInv
    BY TypedInit
  <2> PICK new : new = [Request("load") EXCEPT !.n = 1]
    OBVIOUS
  <2>1. /\ new.do = "load" /\ new.at = "server" /\ new.visit = visit /\ posts = {new}
        /\ visit = 1 /\ called = 1 /\ ~loaded /\ ~saving
    BY DEF OptionInit, Request
  <2> QED
    BY <2>1
    DEF VisitInv, Visited, LoadsOnce, Loading, SavesOnce, Saving, BlindFirst, ShownInv
<1>2. Typed /\ VisitInv /\ ShownInv /\ Step => (Typed /\ VisitInv /\ ShownInv)'
  BY TypedStep, VisitStep, ShownStep
<1>3. Typed /\ ShownInv => OptionsShown
  <2> SUFFICES ASSUME Typed, ShownInv, posts = {}, loaded, dirty = {},
                      rifts \cap {"overtaken", "stale"} = {}
               PROVE  options = held
    BY DEF OptionsShown
  <2>1. \A f \in Names : options[f] = held[f]
    BY DEF ShownInv
  <2>2. options \in [Names -> Values] /\ held \in [Names -> Values]
    BY DEF Typed, OptionTypeOK
  <2> QED
    BY <2>1, <2>2
<1> QED
  BY <1>1, <1>2, <1>3, PTL DEF OptionSpec, Step

-----------------------------------------------------------------------------
(* The guides *)

(* The page of a node that is the master. *)
MasterRPC == [Aria2RPC EXCEPT !.back = 0]

(* What a page may require, what can be typed on it and pressed. *)
Inputs(p) == p.must \cup {p.when[t] : t \in DOMAIN p.when}
Typing(p) == Inputs(p) \cup (p.free \cap Fields) \cup p.flip
Switches(p) == (DOMAIN p.when \cup p.free) \cap Toggles

Shape(p, must, when, typing, switches) ==
    p.must = must /\ p.when = when /\ Typing(p) = typing /\ Switches(p) = switches
Goes(p, then, back, asks, skips, bare) ==
    /\ p.then = then /\ p.back = back /\ p.asks = asks
    /\ p.skips = skips /\ p.bare = bare
PageTyped(p) ==
    /\ Typing(p) \subseteq Fields /\ DOMAIN p.when \subseteq Switches(p)
    /\ "tps_limit" \notin Inputs(p)
    /\ p.then \in {"next", "save", "check", "nothing"}
    /\ p.asks \in {"nothing", "leave", "test", "cors", "scf", "oauth"}
    /\ p.skips \in BOOLEAN /\ p.bare \in BOOLEAN /\ p.back \in {-1, 0, 1}

(* Pages that several guides have. *)
LEMMA PagesOfAll ==
    /\ Shape(Path, {"DirNameRule"}, [AutoRename |-> "FileNameRule"],
             {"DirNameRule", "FileNameRule"}, {"AutoRename"})
    /\ Goes(Path, "next", 1, "nothing", FALSE, FALSE)
    /\ Shape(SourceLink, {}, <<>>, {}, {"IsOriginLinkEnable"})
    /\ Goes(SourceLink, "next", 1, "nothing", FALSE, FALSE)
    /\ Shape(Naming, {"Name"}, <<>>, {"Name"}, {})
    /\ Goes(Naming, "save", 1, "nothing", FALSE, FALSE)
    /\ Shape(Done, {}, <<>>, {}, {})
    /\ Goes(Done, "nothing", 0, "leave", FALSE, FALSE)
    /\ Shape(S3Cors, {}, <<>>, {}, {})
    /\ Goes(S3Cors, "nothing", 0, "cors", TRUE, FALSE)
    /\ PageTyped(Path) /\ PageTyped(SourceLink) /\ PageTyped(Naming)
       /\ PageTyped(Done) /\ PageTyped(S3Cors)
BY DEF Path, SourceLink, Naming, Done, S3Cors, Button, Form, PageTyped, Shape, Goes,
   Typing, Switches, Inputs, Fields, Toggles

(* The pages for policies of local and remote storage. *)
LEMMA PagesOfNodes ==
    /\ Shape(LocalPath, {"DirNameRule"}, [AutoRename |-> "FileNameRule"],
             {"DirNameRule", "FileNameRule"}, {"AutoRename"})
    /\ Goes(LocalPath, "check", 0, "nothing", FALSE, FALSE)
    /\ Shape(LocalSource, {}, [useCDN |-> "BaseURL"], {"BaseURL"},
             {"useCDN", "IsOriginLinkEnable"})
    /\ Goes(LocalSource, "next", 1, "nothing", FALSE, FALSE)
    /\ Shape(LocalUpload, {}, <<>>, {"MaxSize", "file_type", "chunk_size"}, {})
    /\ Goes(LocalUpload, "next", 1, "nothing", FALSE, FALSE)
    /\ Shape(RemoteNode, {"SecretKey", "Server"}, <<>>, {"SecretKey", "Server"}, {})
    /\ Goes(RemoteNode, "next", 0, "test", FALSE, FALSE)
    /\ Shape(RemoteSource, {}, [useCDN |-> "BaseURL"], {"BaseURL"},
             {"useCDN", "IsOriginLinkEnable"})
    /\ Goes(RemoteSource, "next", 1, "nothing", FALSE, FALSE)
    /\ Shape(RemoteUpload, {}, <<>>, {"MaxSize", "file_type", "chunk_size"}, {})
    /\ Goes(RemoteUpload, "next", 1, "nothing", FALSE, FALSE)
    /\ PageTyped(LocalPath) /\ PageTyped(LocalSource) /\ PageTyped(LocalUpload)
       /\ PageTyped(RemoteNode) /\ PageTyped(RemoteSource) /\ PageTyped(RemoteUpload)
BY DEF LocalPath, LocalSource, LocalUpload, RemoteNode, RemoteSource, RemoteUpload,
   Path, SourceLink, Cdn, LocalSize, LocalTypes, ChunkSize, SizeLimit, TypeLimit,
   RemoteSecret, RemoteSize, RemoteTypes, Form, PageTyped, Shape, Goes, Typing,
   Switches, Inputs, Fields, Toggles

(* Those for Qiniu and Upyun. *)
LEMMA PagesOfQiniuUpyun ==
    /\ Shape(QiniuBucket, {"BucketName", "BaseURL", "AccessKey", "SecretKey"}, <<>>,
             {"BucketName", "BaseURL", "AccessKey", "SecretKey"}, {"IsPrivate"})
    /\ Goes(QiniuBucket, "next", 0, "nothing", FALSE, FALSE)
    /\ Shape(QiniuUpload, {}, <<>>, {"MaxSize", "file_type", "mimetype", "chunk_size"},
             {"placeholder_with_size"})
    /\ Goes(QiniuUpload, "next", 1, "nothing", FALSE, FALSE)
    /\ Shape(UpyunBucket, {"BucketName", "BaseURL", "AccessKey", "SecretKey"},
             [IsPrivate |-> "token"],
             {"BucketName", "BaseURL", "AccessKey", "SecretKey", "token"},
             {"IsPrivate"})
    /\ Goes(UpyunBucket, "next", 0, "nothing", FALSE, FALSE)
    /\ Shape(UpyunUpload, {}, <<>>, {"MaxSize", "file_type"}, {})
    /\ Goes(UpyunUpload, "next", 1, "nothing", FALSE, FALSE)
    /\ PageTyped(QiniuBucket) /\ PageTyped(QiniuUpload) /\ PageTyped(UpyunBucket)
       /\ PageTyped(UpyunUpload)
BY DEF QiniuBucket, QiniuUpload, UpyunBucket, UpyunUpload, QiniuHost, AccessKeys,
   QiniuSize, QiniuTypes, QiniuMimeTypes, ChunkSize, Placeholder, SizeLimit, TypeLimit,
   UpyunToken, UpyunSize, UpyunTypes, Form, PageTyped, Shape, Goes, Typing, Switches,
   Inputs, Fields, Toggles

(* Those for S3, OSS and COS. *)
LEMMA PagesOfS3OSSCOS ==
    /\ Shape(S3Bucket, {"BucketName", "AccessKey", "SecretKey", "Name"},
             [useCDN |-> "BaseURL"],
             {"BucketName", "AccessKey", "SecretKey", "Name", "BaseURL", "Server"},
             {"useCDN", "IsPrivate"})
    /\ Goes(S3Bucket, "next", 0, "nothing", FALSE, FALSE)
    /\ Shape(S3Upload, {}, <<>>, {"MaxSize", "file_type", "chunk_size"},
             {"placeholder_with_size"})
    /\ Goes(S3Upload, "save", 1, "nothing", FALSE, FALSE)
    /\ Shape(OSSBucket, {"BucketName", "Server", "AccessKey", "SecretKey", "Name"},
             [useCDN |-> "BaseURL", useLanEndpoint |-> "server_side_endpoint"],
             {"BucketName", "Server", "AccessKey", "SecretKey", "Name", "BaseURL",
              "server_side_endpoint"},
             {"useCDN", "useLanEndpoint", "IsPrivate"})
    /\ Goes(OSSBucket, "next", 0, "nothing", FALSE, FALSE)
    /\ Shape(OSSUpload, {}, <<>>, {"MaxSize", "file_type", "chunk_size"},
             {"placeholder_with_size"})
    /\ Goes(OSSUpload, "save", 1, "nothing", FALSE, FALSE)
    /\ Shape(COSBucket, {"BucketName", "Server", "AccessKey", "SecretKey", "Name"},
             [useCDN |-> "BaseURL"],
             {"BucketName", "Server", "AccessKey", "SecretKey", "Name", "BaseURL"},
             {"useCDN", "IsPrivate"})
    /\ Goes(COSBucket, "next", 0, "nothing", FALSE, FALSE)
    /\ Shape(COSUpload, {}, <<>>, {"MaxSize", "file_type"}, {"placeholder_with_size"})
    /\ Goes(COSUpload, "save", 1, "nothing", FALSE, FALSE)
    /\ Shape(COSCallback, {}, <<>>, {}, {})
    /\ Goes(COSCallback, "nothing", 0, "scf", TRUE, FALSE)
    /\ PageTyped(S3Bucket) /\ PageTyped(S3Upload) /\ PageTyped(OSSBucket)
       /\ PageTyped(OSSUpload) /\ PageTyped(COSBucket) /\ PageTyped(COSUpload)
       /\ PageTyped(COSCallback)
BY DEF S3Bucket, S3Upload, OSSBucket, OSSUpload, COSBucket, COSUpload, COSCallback,
   S3Host, S3Cdn, Cdn, AccessKeys, S3Size, S3Types, ChunkSize, Placeholder, SizeLimit,
   TypeLimit, OSSHost, OSSEndpoints, OSSSize, OSSTypes, COSHost, COSCdn, COSSize,
   COSTypes, Button, Form, PageTyped, Shape, Goes, Typing, Switches, Inputs, Fields,
   Toggles

(* Those for OneDrive. *)
LEMMA PagesOfOneDrive ==
    /\ Shape(OneDriveAccount, {"BucketName", "SecretKey", "Name"},
             [useSharePoint |-> "od_driver", useCDN |-> "od_proxy"],
             {"BucketName", "SecretKey", "Name", "od_driver", "od_proxy"},
             {"useSharePoint", "useCDN"})
    /\ Goes(OneDriveAccount, "next", 0, "nothing", FALSE, FALSE)
    /\ Shape(OneDriveUpload, {}, <<>>,
             {"MaxSize", "file_type", "tps_limit", "chunk_size"},
             {"placeholder_with_size"})
    /\ Goes(OneDriveUpload, "save", -1, "nothing", FALSE, FALSE)
    /\ Shape(OneDriveGrant, {}, <<>>, {}, {})
    /\ Goes(OneDriveGrant, "nothing", 0, "oauth", FALSE, FALSE)
    /\ PageTyped(OneDriveAccount) /\ PageTyped(OneDriveUpload)
       /\ PageTyped(OneDriveGrant)
BY DEF OneDriveAccount, OneDriveUpload, OneDriveGrant, OneDriveApp, OneDriveDrive,
   OneDriveSize, OneDriveTypes, OneDriveRate, ChunkSize, Placeholder, SizeLimit,
   TypeLimit, Button, Form, PageTyped, Shape, Goes, Typing, Switches, Inputs, Fields,
   Toggles

(* Those of a node, and the table of all settings. *)
LEMMA PagesOfDownloads ==
    /\ Shape(Communication, {"SlaveKey", "Server"}, <<>>, {"SlaveKey", "Server"}, {})
    /\ Goes(Communication, "next", 0, "test", FALSE, FALSE)
    /\ Shape(Aria2RPC, {}, [Aria2Enabled |-> "rpc_server"], {"rpc_server"},
             {"Aria2Enabled"})
    /\ Goes(Aria2RPC, "next", 1, "test", FALSE, TRUE)
    /\ Shape(MasterRPC, {}, [Aria2Enabled |-> "rpc_server"], {"rpc_server"},
             {"Aria2Enabled"})
    /\ Goes(MasterRPC, "next", 0, "test", FALSE, TRUE)
    /\ Shape(Metainfo, {"Name", "Rank"}, <<>>, {"Name", "Rank"}, {})
    /\ Goes(Metainfo, "save", 0, "nothing", FALSE, FALSE)
    /\ Shape(EditProForm, {"Name"}, <<>>,
             {"Name", "Server", "BucketName", "BaseURL", "AccessKey", "SecretKey", "MaxSize",
              "DirNameRule", "FileNameRule", "token", "file_type", "mimetype", "od_driver",
              "od_proxy", "server_side_endpoint", "chunk_size", "tps_limit"},
             {"IsPrivate", "AutoRename", "IsOriginLinkEnable", "placeholder_with_size"})
    /\ Goes(EditProForm, "save", 0, "nothing", FALSE, FALSE)
    /\ PageTyped(Communication) /\ PageTyped(Aria2RPC) /\ PageTyped(MasterRPC)
       /\ PageTyped(Metainfo) /\ PageTyped(EditProForm)
BY DEF Communication, Aria2RPC, MasterRPC, Metainfo, EditProForm, AriaServer,
   EditProHost, EditProRules, EditProOptions, EditProLimits, AccessKeys, Form,
   PageTyped, Shape, Goes, Typing, Switches, Inputs, Fields, Toggles

(* What holds of all of them.  Behind the page that saves there is nothing   *)
(* to fill in; what a page requires or shows is no business of another.      *)
Saved(S, n) == \E m \in 1 .. n - 1 : S[m].then = "save"
Own(g) == g \in {"local", "remote"}
Node(g) == g \in {"node", "master"}
Onward(g, p) ==
    \/ p.then \in {"next", "check"} \/ (p.then = "save" /\ g # "pro")
    \/ p.skips \/ p.asks \in {"cors", "scf"}

PageSound(g, S, n) ==
    LET p == S[n] IN
    /\ Onward(g, p) => n + 1 \in DOMAIN S
    /\ p.back # 0 => n - p.back \in DOMAIN S
    /\ p.back < 0 => p.then = "save"
    /\ p.skips \/ p.asks \in {"cors", "scf"} => Saved(S, n)
    /\ Saved(S, n) => /\ Typing(p) = {} /\ Switches(p) = {} /\ p.back = 0
                      /\ p.then = "nothing"

\* The path of a local policy is on its first page, which is left by testing it.
LocalPage(S, n) ==
    LET p == S[n] IN
    /\ p.then = "check" <=> n = 1
    /\ n > 1 => "DirNameRule" \notin Typing(p)
    /\ ~p.skips /\ p.back >= 0 /\ p.asks \in {"nothing", "leave"}
\* The way back of a node is from a page that is not validated.
NodePage(g, S, n) ==
    LET p == S[n] IN
    /\ p.then # "check" /\ ~p.skips /\ p.back >= 0 /\ (p.back # 0 => p.bare)
    /\ p.asks \in {"nothing", "leave", "test"}
    /\ g = "master" => (n = 1 => p.bare) /\ (n > 2 => Saved(S, n))
PageOwn(g, S, n) ==
    /\ IF g = "local" THEN LocalPage(S, n) ELSE S[n].then # "check"
    /\ Node(g) => NodePage(g, S, n)
    /\ g = "pro" => n = 1
    /\ Own(g) /\ "useCDN" \in Switches(S[n]) =>
         "BaseURL" \in Typing(S[n]) /\ "IsOriginLinkEnable" \in Switches(S[n])

\* What submitting clears no page requires, but the one whose toggle it goes by.
Spares(D, p) ==
    \A t \in DOMAIN D : /\ D[t] \notin p.must
                        /\ \A u \in DOMAIN p.when : p.when[u] = D[t] => u = t
\* A toggle of the page that nobody has pressed clears nothing, but for the CDN.
DropSound(g, t) ==
    /\ t \in Toggles /\ Guide[g].drops[t] \in Fields
    /\ \/ t \in Guide[g].reads /\ ~Own(g)
       \/ Guide[g].drops[t] = "BaseURL" /\ g \in {"local", "remote", "s3", "oss", "cos"}

Apart(p, q) == Typing(p) \cap Typing(q) = {} /\ Switches(p) \cap Switches(q) = {}

GuideSound(g) ==
    LET S == Guide[g].steps
        D == Guide[g].drops
    IN  /\ \E k \in 1 .. 7 : DOMAIN S = 1 .. k
        /\ \A n \in DOMAIN S : /\ PageTyped(S[n]) /\ PageSound(g, S, n) /\ PageOwn(g, S, n)
                                /\ Spares(D, S[n])
        /\ \A m \in DOMAIN S, n \in DOMAIN S : m < n => Apart(S[m], S[n])
        /\ \A t \in DOMAIN D : DropSound(g, t)
        /\ Guide[g].reads \subseteq PageToggles

(* The guide of local storage. *)
LEMMA LocalSound == GuideSound("local")
<1> DEFINE S == Guide["local"].steps
           D == Guide["local"].drops
<1>1. Guide["local"] = LocalGuide
  BY DEF Guide
<1>2. /\ DOMAIN S = 1 .. 5 /\ S[1] = LocalPath /\ S[2] = LocalSource
      /\ S[3] = LocalUpload /\ S[4] = Naming /\ S[5] = Done /\ D = Cdn
      /\ Guide["local"].reads = {}
  BY <1>1 DEF LocalGuide, LocalName, LocalDone, LocalSave
<1> HIDE DEF S, D
<1>3. \A n \in DOMAIN S : Saved(S, n) <=> n > 4
  BY <1>2, PagesOfAll, PagesOfNodes DEF Saved, Goes
<1>4. \A n \in DOMAIN S : PageTyped(S[n])
  BY <1>2, PagesOfAll, PagesOfNodes
<1>5. \A n \in DOMAIN S : PageSound("local", S, n)
  BY <1>2, <1>3, PagesOfAll, PagesOfNodes DEF PageSound, Onward, Shape, Goes
<1>6. \A n \in DOMAIN S : PageOwn("local", S, n)
  BY <1>2, <1>3, PagesOfAll, PagesOfNodes
  DEF PageOwn, LocalPage, NodePage, Node, Own, Shape, Goes
<1>7. \A n \in DOMAIN S : Spares(D, S[n])
  BY <1>2, PagesOfAll, PagesOfNodes DEF Spares, Shape, Cdn
<1>8. \A m \in DOMAIN S, n \in DOMAIN S : m < n => Apart(S[m], S[n])
  BY <1>2, PagesOfAll, PagesOfNodes DEF Apart, Shape
<1>9. /\ \A t \in DOMAIN D : DropSound("local", t)
      /\ Guide["local"].reads \subseteq PageToggles
  BY <1>2 DEF DropSound, Own, Toggles, PageToggles, Fields, D, Cdn
<1>10. \E k \in 1 .. 7 : DOMAIN S = 1 .. k
  BY <1>2
<1> QED
  BY <1>10, <1>4, <1>5, <1>6, <1>7, <1>8, <1>9 DEF GuideSound, S, D

(* The guide of remote storage. *)
LEMMA RemoteSound == GuideSound("remote")
<1> DEFINE S == Guide["remote"].steps
           D == Guide["remote"].drops
<1>1. Guide["remote"] = RemoteGuide
  BY DEF Guide
<1>2. /\ DOMAIN S = 1 .. 6 /\ S[1] = RemoteNode /\ S[2] = Path
      /\ S[3] = RemoteSource /\ S[4] = RemoteUpload /\ S[5] = Naming /\ S[6] = Done
      /\ D = Cdn /\ Guide["remote"].reads = {}
  BY <1>1 DEF RemoteGuide, RemotePath, RemoteName, RemoteDone, RemoteSave
<1> HIDE DEF S, D
<1>3. \A n \in DOMAIN S : Saved(S, n) <=> n > 5
  BY <1>2, PagesOfAll, PagesOfNodes DEF Saved, Goes
<1>4. \A n \in DOMAIN S : PageTyped(S[n])
  BY <1>2, PagesOfAll, PagesOfNodes
<1>5. \A n \in DOMAIN S : PageSound("remote", S, n)
  BY <1>2, <1>3, PagesOfAll, PagesOfNodes DEF PageSound, Onward, Shape, Goes
<1>6. \A n \in DOMAIN S : PageOwn("remote", S, n)
  BY <1>2, <1>3, PagesOfAll, PagesOfNodes
  DEF PageOwn, LocalPage, NodePage, Node, Own, Shape, Goes
<1>7. \A n \in DOMAIN S : Spares(D, S[n])
  BY <1>2, PagesOfAll, PagesOfNodes DEF Spares, Shape, Cdn
<1>8. \A m \in DOMAIN S, n \in DOMAIN S : m < n => Apart(S[m], S[n])
  BY <1>2, PagesOfAll, PagesOfNodes DEF Apart, Shape
<1>9. /\ \A t \in DOMAIN D : DropSound("remote", t)
      /\ Guide["remote"].reads \subseteq PageToggles
  BY <1>2 DEF DropSound, Own, Toggles, PageToggles, Fields, D, Cdn
<1>10. \E k \in 1 .. 7 : DOMAIN S = 1 .. k
  BY <1>2
<1> QED
  BY <1>10, <1>4, <1>5, <1>6, <1>7, <1>8, <1>9 DEF GuideSound, S, D

(* The guide of Qiniu. *)
LEMMA QiniuSound == GuideSound("qiniu")
<1> DEFINE S == Guide["qiniu"].steps
           D == Guide["qiniu"].drops
<1>1. Guide["qiniu"] = QiniuGuide
  BY DEF Guide
<1>2. /\ DOMAIN S = 1 .. 6 /\ S[1] = QiniuBucket /\ S[2] = Path /\ S[3] = SourceLink
      /\ S[4] = QiniuUpload /\ S[5] = Naming /\ S[6] = Done /\ D = <<>>
      /\ Guide["qiniu"].reads = {}
  BY <1>1 DEF QiniuGuide, QiniuPath, QiniuSource, QiniuName, QiniuDone, QiniuSave
<1> HIDE DEF S, D
<1>3. \A n \in DOMAIN S : Saved(S, n) <=> n > 5
  BY <1>2, PagesOfAll, PagesOfQiniuUpyun DEF Saved, Goes
<1>4. \A n \in DOMAIN S : PageTyped(S[n])
  BY <1>2, PagesOfAll, PagesOfQiniuUpyun
<1>5. \A n \in DOMAIN S : PageSound("qiniu", S, n)
  BY <1>2, <1>3, PagesOfAll, PagesOfQiniuUpyun DEF PageSound, Onward, Shape, Goes
<1>6. \A n \in DOMAIN S : PageOwn("qiniu", S, n)
  BY <1>2, <1>3, PagesOfAll, PagesOfQiniuUpyun
  DEF PageOwn, LocalPage, NodePage, Node, Own, Shape, Goes
<1>7. \A n \in DOMAIN S : Spares(D, S[n])
  BY <1>2, PagesOfAll, PagesOfQiniuUpyun DEF Spares, Shape
<1>8. \A m \in DOMAIN S, n \in DOMAIN S : m < n => Apart(S[m], S[n])
  BY <1>2, PagesOfAll, PagesOfQiniuUpyun DEF Apart, Shape
<1>9. /\ \A t \in DOMAIN D : DropSound("qiniu", t)
      /\ Guide["qiniu"].reads \subseteq PageToggles
  BY <1>2 DEF DropSound, Own, Toggles, PageToggles, Fields, D
<1>10. \E k \in 1 .. 7 : DOMAIN S = 1 .. k
  BY <1>2
<1> QED
  BY <1>10, <1>4, <1>5, <1>6, <1>7, <1>8, <1>9 DEF GuideSound, S, D

(* The guide of Upyun. *)
LEMMA UpyunSound == GuideSound("upyun")
<1> DEFINE S == Guide["upyun"].steps
           D == Guide["upyun"].drops
<1>1. Guide["upyun"] = UpyunGuide
  BY DEF Guide
<1>2. /\ DOMAIN S = 1 .. 6 /\ S[1] = UpyunBucket /\ S[2] = Path /\ S[3] = SourceLink
      /\ S[4] = UpyunUpload /\ S[5] = Naming /\ S[6] = Done /\ D = <<>>
      /\ Guide["upyun"].reads = {}
  BY <1>1 DEF UpyunGuide, UpyunPath, UpyunSource, UpyunName, UpyunDone, UpyunSave
<1> HIDE DEF S, D
<1>3. \A n \in DOMAIN S : Saved(S, n) <=> n > 5
  BY <1>2, PagesOfAll, PagesOfQiniuUpyun DEF Saved, Goes
<1>4. \A n \in DOMAIN S : PageTyped(S[n])
  BY <1>2, PagesOfAll, PagesOfQiniuUpyun
<1>5. \A n \in DOMAIN S : PageSound("upyun", S, n)
  BY <1>2, <1>3, PagesOfAll, PagesOfQiniuUpyun DEF PageSound, Onward, Shape, Goes
<1>6. \A n \in DOMAIN S : PageOwn("upyun", S, n)
  BY <1>2, <1>3, PagesOfAll, PagesOfQiniuUpyun
  DEF PageOwn, LocalPage, NodePage, Node, Own, Shape, Goes
<1>7. \A n \in DOMAIN S : Spares(D, S[n])
  BY <1>2, PagesOfAll, PagesOfQiniuUpyun DEF Spares, Shape
<1>8. \A m \in DOMAIN S, n \in DOMAIN S : m < n => Apart(S[m], S[n])
  BY <1>2, PagesOfAll, PagesOfQiniuUpyun DEF Apart, Shape
<1>9. /\ \A t \in DOMAIN D : DropSound("upyun", t)
      /\ Guide["upyun"].reads \subseteq PageToggles
  BY <1>2 DEF DropSound, Own, Toggles, PageToggles, Fields, D
<1>10. \E k \in 1 .. 7 : DOMAIN S = 1 .. k
  BY <1>2
<1> QED
  BY <1>10, <1>4, <1>5, <1>6, <1>7, <1>8, <1>9 DEF GuideSound, S, D

(* The guide of S3. *)
LEMMA S3Sound == GuideSound("s3")
<1> DEFINE S == Guide["s3"].steps
           D == Guide["s3"].drops
<1>1. Guide["s3"] = S3Guide
  BY DEF Guide
<1>2. /\ DOMAIN S = 1 .. 6 /\ S[1] = S3Bucket /\ S[2] = Path /\ S[3] = SourceLink
      /\ S[4] = S3Upload /\ S[5] = S3Cors /\ S[6] = Done /\ D = Cdn
      /\ Guide["s3"].reads = {}
  BY <1>1 DEF S3Guide, S3Path, S3Source, S3Done, S3Save
<1> HIDE DEF S, D
<1>3. \A n \in DOMAIN S : Saved(S, n) <=> n > 4
  BY <1>2, PagesOfAll, PagesOfS3OSSCOS DEF Saved, Goes
<1>4. \A n \in DOMAIN S : PageTyped(S[n])
  BY <1>2, PagesOfAll, PagesOfS3OSSCOS
<1>5. \A n \in DOMAIN S : PageSound("s3", S, n)
  BY <1>2, <1>3, PagesOfAll, PagesOfS3OSSCOS DEF PageSound, Onward, Shape, Goes
<1>6. \A n \in DOMAIN S : PageOwn("s3", S, n)
  BY <1>2, <1>3, PagesOfAll, PagesOfS3OSSCOS
  DEF PageOwn, LocalPage, NodePage, Node, Own, Shape, Goes
<1>7. \A n \in DOMAIN S : Spares(D, S[n])
  BY <1>2, PagesOfAll, PagesOfS3OSSCOS DEF Spares, Shape, Cdn
<1>8. \A m \in DOMAIN S, n \in DOMAIN S : m < n => Apart(S[m], S[n])
  BY <1>2, PagesOfAll, PagesOfS3OSSCOS DEF Apart, Shape
<1>9. /\ \A t \in DOMAIN D : DropSound("s3", t)
      /\ Guide["s3"].reads \subseteq PageToggles
  BY <1>2 DEF DropSound, Own, Toggles, PageToggles, Fields, D, Cdn
<1>10. \E k \in 1 .. 7 : DOMAIN S = 1 .. k
  BY <1>2
<1> QED
  BY <1>10, <1>4, <1>5, <1>6, <1>7, <1>8, <1>9 DEF GuideSound, S, D

(* The guide of OSS. *)
LEMMA OSSSound == GuideSound("oss")
<1> DEFINE S == Guide["oss"].steps
           D == Guide["oss"].drops
<1>1. Guide["oss"] = OSSGuide
  BY DEF Guide
<1>2. /\ DOMAIN S = 1 .. 6 /\ S[1] = OSSBucket /\ S[2] = Path /\ S[3] = SourceLink
      /\ S[4] = OSSUpload /\ S[5] = S3Cors /\ S[6] = Done /\ D = OSSEndpoints
      /\ Guide["oss"].reads = {"useLanEndpoint"}
  BY <1>1 DEF OSSGuide, OSSPath, OSSSource, OSSCors, OSSDone, OSSSave
<1> HIDE DEF S, D
<1>3. \A n \in DOMAIN S : Saved(S, n) <=> n > 4
  BY <1>2, PagesOfAll, PagesOfS3OSSCOS DEF Saved, Goes
<1>4. \A n \in DOMAIN S : PageTyped(S[n])
  BY <1>2, PagesOfAll, PagesOfS3OSSCOS
<1>5. \A n \in DOMAIN S : PageSound("oss", S, n)
  BY <1>2, <1>3, PagesOfAll, PagesOfS3OSSCOS DEF PageSound, Onward, Shape, Goes
<1>6. \A n \in DOMAIN S : PageOwn("oss", S, n)
  BY <1>2, <1>3, PagesOfAll, PagesOfS3OSSCOS
  DEF PageOwn, LocalPage, NodePage, Node, Own, Shape, Goes
<1>7. \A n \in DOMAIN S : Spares(D, S[n])
  BY <1>2, PagesOfAll, PagesOfS3OSSCOS DEF Spares, Shape, OSSEndpoints
<1>8. \A m \in DOMAIN S, n \in DOMAIN S : m < n => Apart(S[m], S[n])
  BY <1>2, PagesOfAll, PagesOfS3OSSCOS DEF Apart, Shape
<1>9. /\ \A t \in DOMAIN D : DropSound("oss", t)
      /\ Guide["oss"].reads \subseteq PageToggles
  BY <1>2 DEF DropSound, Own, Toggles, PageToggles, Fields, D, OSSEndpoints
<1>10. \E k \in 1 .. 7 : DOMAIN S = 1 .. k
  BY <1>2
<1> QED
  BY <1>10, <1>4, <1>5, <1>6, <1>7, <1>8, <1>9 DEF GuideSound, S, D

(* The guide of COS. *)
LEMMA COSSound == GuideSound("cos")
<1> DEFINE S == Guide["cos"].steps
           D == Guide["cos"].drops
<1>1. Guide["cos"] = COSGuide
  BY DEF Guide
<1>2. /\ DOMAIN S = 1 .. 7 /\ S[1] = COSBucket /\ S[2] = Path /\ S[3] = SourceLink
      /\ S[4] = COSUpload /\ S[5] = S3Cors /\ S[6] = COSCallback /\ S[7] = Done
      /\ D = Cdn /\ Guide["cos"].reads = {}
  BY <1>1 DEF COSGuide, COSPath, COSSource, COSCors, COSDone, COSSave
<1> HIDE DEF S, D
<1>3. \A n \in DOMAIN S : Saved(S, n) <=> n > 4
  BY <1>2, PagesOfAll, PagesOfS3OSSCOS DEF Saved, Goes
<1>4. \A n \in DOMAIN S : PageTyped(S[n])
  BY <1>2, PagesOfAll, PagesOfS3OSSCOS
<1>5. \A n \in DOMAIN S : PageSound("cos", S, n)
  BY <1>2, <1>3, PagesOfAll, PagesOfS3OSSCOS DEF PageSound, Onward, Shape, Goes
<1>6. \A n \in DOMAIN S : PageOwn("cos", S, n)
  BY <1>2, <1>3, PagesOfAll, PagesOfS3OSSCOS
  DEF PageOwn, LocalPage, NodePage, Node, Own, Shape, Goes
<1>7. \A n \in DOMAIN S : Spares(D, S[n])
  <2>1. D = [useCDN |-> "BaseURL"]
    BY <1>2 DEF Cdn
  <2>2. \A n \in 1 .. 3 : Spares(D, S[n])
    BY <1>2, <2>1, PagesOfAll, PagesOfS3OSSCOS DEF Spares, Shape
  <2>3. \A n \in 4 .. 7 : Spares(D, S[n])
    BY <1>2, <2>1, PagesOfAll, PagesOfS3OSSCOS DEF Spares, Shape
  <2> QED
    BY <1>2, <2>2, <2>3
<1>8. \A m \in DOMAIN S, n \in DOMAIN S : m < n => Apart(S[m], S[n])
  BY <1>2, PagesOfAll, PagesOfS3OSSCOS DEF Apart, Shape
<1>9. /\ \A t \in DOMAIN D : DropSound("cos", t)
      /\ Guide["cos"].reads \subseteq PageToggles
  BY <1>2 DEF DropSound, Own, Toggles, PageToggles, Fields, D, Cdn
<1>10. \E k \in 1 .. 7 : DOMAIN S = 1 .. k
  BY <1>2
<1> QED
  BY <1>10, <1>4, <1>5, <1>6, <1>7, <1>8, <1>9 DEF GuideSound, S, D

(* The guide of OneDrive. *)
LEMMA OneDriveSound == GuideSound("onedrive")
<1> DEFINE S == Guide["onedrive"].steps
           D == Guide["onedrive"].drops
<1>1. Guide["onedrive"] = OneDriveGuide
  BY DEF Guide
<1>2. /\ DOMAIN S = 1 .. 5 /\ S[1] = OneDriveAccount /\ S[2] = Path
      /\ S[3] = SourceLink /\ S[4] = OneDriveUpload /\ S[5] = OneDriveGrant
      /\ D = OneDriveDrive /\ Guide["onedrive"].reads = {"useSharePoint", "useCDN"}
  BY <1>1 DEF OneDriveGuide, OneDrivePath, OneDriveSource, OneDriveSave
<1> HIDE DEF S, D
<1>3. \A n \in DOMAIN S : Saved(S, n) <=> n > 4
  BY <1>2, PagesOfAll, PagesOfOneDrive DEF Saved, Goes
<1>4. \A n \in DOMAIN S : PageTyped(S[n])
  BY <1>2, PagesOfAll, PagesOfOneDrive
<1>5. \A n \in DOMAIN S : PageSound("onedrive", S, n)
  BY <1>2, <1>3, PagesOfAll, PagesOfOneDrive DEF PageSound, Onward, Shape, Goes
<1>6. \A n \in DOMAIN S : PageOwn("onedrive", S, n)
  BY <1>2, <1>3, PagesOfAll, PagesOfOneDrive
  DEF PageOwn, LocalPage, NodePage, Node, Own, Shape, Goes
<1>7. \A n \in DOMAIN S : Spares(D, S[n])
  BY <1>2, PagesOfAll, PagesOfOneDrive DEF Spares, Shape, OneDriveDrive
<1>8. \A m \in DOMAIN S, n \in DOMAIN S : m < n => Apart(S[m], S[n])
  BY <1>2, PagesOfAll, PagesOfOneDrive DEF Apart, Shape
<1>9. /\ \A t \in DOMAIN D : DropSound("onedrive", t)
      /\ Guide["onedrive"].reads \subseteq PageToggles
  BY <1>2 DEF DropSound, Own, Toggles, PageToggles, Fields, D, OneDriveDrive
<1>10. \E k \in 1 .. 7 : DOMAIN S = 1 .. k
  BY <1>2
<1> QED
  BY <1>10, <1>4, <1>5, <1>6, <1>7, <1>8, <1>9 DEF GuideSound, S, D

(* The guide of a node. *)
LEMMA NodeSound == GuideSound("node")
<1> DEFINE S == Guide["node"].steps
           D == Guide["node"].drops
<1>1. Guide["node"] = NodeGuide
  BY DEF Guide
<1>2. /\ DOMAIN S = 1 .. 4 /\ S[1] = Communication /\ S[2] = Aria2RPC
      /\ S[3] = Metainfo /\ S[4] = Done /\ D = <<>> /\ Guide["node"].reads = {}
  BY <1>1 DEF NodeGuide, Completed
<1> HIDE DEF S, D
<1>3. \A n \in DOMAIN S : Saved(S, n) <=> n > 3
  BY <1>2, PagesOfAll, PagesOfDownloads DEF Saved, Goes
<1>4. \A n \in DOMAIN S : PageTyped(S[n])
  BY <1>2, PagesOfAll, PagesOfDownloads
<1>5. \A n \in DOMAIN S : PageSound("node", S, n)
  BY <1>2, <1>3, PagesOfAll, PagesOfDownloads DEF PageSound, Onward, Shape, Goes
<1>6. \A n \in DOMAIN S : PageOwn("node", S, n)
  BY <1>2, <1>3, PagesOfAll, PagesOfDownloads
  DEF PageOwn, LocalPage, NodePage, Node, Own, Shape, Goes
<1>7. \A n \in DOMAIN S : Spares(D, S[n])
  BY <1>2, PagesOfAll, PagesOfDownloads DEF Spares, Shape
<1>8. \A m \in DOMAIN S, n \in DOMAIN S : m < n => Apart(S[m], S[n])
  BY <1>2, PagesOfAll, PagesOfDownloads DEF Apart, Shape
<1>9. /\ \A t \in DOMAIN D : DropSound("node", t)
      /\ Guide["node"].reads \subseteq PageToggles
  BY <1>2 DEF DropSound, Own, Toggles, PageToggles, Fields, D
<1>10. \E k \in 1 .. 7 : DOMAIN S = 1 .. k
  BY <1>2
<1> QED
  BY <1>10, <1>4, <1>5, <1>6, <1>7, <1>8, <1>9 DEF GuideSound, S, D

(* The guide of the node that is the master. *)
LEMMA MasterSound == GuideSound("master")
<1> DEFINE S == Guide["master"].steps
           D == Guide["master"].drops
<1>1. Guide["master"] = MasterGuide
  BY DEF Guide
<1>2. /\ DOMAIN S = 1 .. 3 /\ S[1] = MasterRPC /\ S[2] = Metainfo /\ S[3] = Done
      /\ D = <<>> /\ Guide["master"].reads = {}
  BY <1>1 DEF MasterGuide, NodeGuide, MasterRPC, Completed
<1> HIDE DEF S, D
<1>3. \A n \in DOMAIN S : Saved(S, n) <=> n > 2
  BY <1>2, PagesOfAll, PagesOfDownloads DEF Saved, Goes
<1>4. \A n \in DOMAIN S : PageTyped(S[n])
  BY <1>2, PagesOfAll, PagesOfDownloads
<1>5. \A n \in DOMAIN S : PageSound("master", S, n)
  BY <1>2, <1>3, PagesOfAll, PagesOfDownloads DEF PageSound, Onward, Shape, Goes
<1>6. \A n \in DOMAIN S : PageOwn("master", S, n)
  BY <1>2, <1>3, PagesOfAll, PagesOfDownloads
  DEF PageOwn, LocalPage, NodePage, Node, Own, Shape, Goes
<1>7. \A n \in DOMAIN S : Spares(D, S[n])
  BY <1>2, PagesOfAll, PagesOfDownloads DEF Spares, Shape
<1>8. \A m \in DOMAIN S, n \in DOMAIN S : m < n => Apart(S[m], S[n])
  BY <1>2, PagesOfAll, PagesOfDownloads DEF Apart, Shape
<1>9. /\ \A t \in DOMAIN D : DropSound("master", t)
      /\ Guide["master"].reads \subseteq PageToggles
  BY <1>2 DEF DropSound, Own, Toggles, PageToggles, Fields, D
<1>10. \E k \in 1 .. 7 : DOMAIN S = 1 .. k
  BY <1>2
<1> QED
  BY <1>10, <1>4, <1>5, <1>6, <1>7, <1>8, <1>9 DEF GuideSound, S, D

(* The table of all settings. *)
LEMMA ProSound == GuideSound("pro")
<1> DEFINE S == Guide["pro"].steps
           D == Guide["pro"].drops
<1>1. Guide["pro"] = EditPro
  BY DEF Guide
<1>2. /\ DOMAIN S = 1 .. 1 /\ S[1] = EditProForm /\ D = <<>>
      /\ Guide["pro"].reads = {}
  BY <1>1 DEF EditPro
<1> HIDE DEF S, D
<1>3. \A n \in DOMAIN S : Saved(S, n) <=> n > 1
  BY <1>2, PagesOfDownloads DEF Saved, Goes
<1>4. \A n \in DOMAIN S : PageTyped(S[n])
  BY <1>2, PagesOfDownloads
<1>5. \A n \in DOMAIN S : PageSound("pro", S, n)
  BY <1>2, <1>3, PagesOfDownloads DEF PageSound, Onward, Shape, Goes
<1>6. \A n \in DOMAIN S : PageOwn("pro", S, n)
  BY <1>2, <1>3, PagesOfDownloads
  DEF PageOwn, LocalPage, NodePage, Node, Own, Shape, Goes
<1>7. \A n \in DOMAIN S : Spares(D, S[n])
  BY <1>2, PagesOfDownloads DEF Spares, Shape
<1>8. \A m \in DOMAIN S, n \in DOMAIN S : m < n => Apart(S[m], S[n])
  BY <1>2, PagesOfDownloads DEF Apart, Shape
<1>9. /\ \A t \in DOMAIN D : DropSound("pro", t)
      /\ Guide["pro"].reads \subseteq PageToggles
  BY <1>2 DEF DropSound, Own, Toggles, PageToggles, Fields, D
<1>10. \E k \in 1 .. 7 : DOMAIN S = 1 .. k
  BY <1>2
<1> QED
  BY <1>10, <1>4, <1>5, <1>6, <1>7, <1>8, <1>9 DEF GuideSound, S, D

(* So it holds of every guide. *)
LEMMA GuidesSound == \A g \in DOMAIN Guide : GuideSound(g)
<1>1. DOMAIN Guide = {"local", "remote", "qiniu", "upyun", "s3", "oss", "cos", "onedrive",
                      "node", "master", "pro"}
  BY DEF Guide
<1> QED
  BY <1>1, LocalSound, RemoteSound, QiniuSound, UpyunSound, S3Sound, OSSSound, COSSound,
     OneDriveSound, NodeSound, MasterSound, ProSound

-----------------------------------------------------------------------------
(* The steps of a guide *)

GuideStep == GuideNext \/ UNCHANGED guideVars

\* Who asks for what, and where the answer leads.
Leads(do, to) ==
    /\ to \in {0} \cup DOMAIN G.steps
    /\ do \in {"site", "check", "save", "test", "cors", "scf", "oauth"}
    /\ do = "site" => guide = "onedrive" /\ ~editing
    /\ do = "check" => guide = "local"
    /\ do \in {"site", "test", "oauth"} => to = 0
    /\ do \in {"cors", "scf"} => Saved(G.steps, to)
    /\ do = "save" => \/ Saved(G.steps, to) \/ (guide = "pro" /\ to = 1)
                      \/ (Node(guide) /\ editing)
    /\ Node(guide) => do \in {"save", "test"}
RequestOK(r) == r.n \in 1 .. asked /\ r.body \in PolicyDraft /\ Leads(r.do, r.to)

GuideTyped ==
    /\ GuideTypeOK
    /\ guide = "" => step = 0 /\ pending = {} /\ known = FALSE /\ editing = FALSE
    /\ \A r \in pending : RequestOK(r)

\* The user fills in, clears or presses something of the page.
Touches(fs) ==
    /\ AtStep /\ fs # {} /\ Touch(fs)
    /\ UNCHANGED <<fixed, server, request, step, loading>>
    /\ fs \subseteq Typing(This) \cup Switches(This) /\ edits' \in 0 .. MaxEdits
    /\ form' \in [Fields -> Texts] /\ on' \subseteq Toggles
    /\ \A t \in Toggles \ fs : t \in on' <=> t \in on
    /\ \A f \in Fields \ fs :
         form'[f] = form[f] \/ (f = "BaseURL" /\ Own(guide) /\ "useCDN" \in fs)

(* The page that is shown is one of the guide. *)
LEMMA PageShown ==
    ASSUME GuideTyped
    PROVE  /\ guide # "" => guide \in DOMAIN Guide
           /\ AtStep => /\ guide \in DOMAIN Guide /\ guide # "" /\ step \in DOMAIN G.steps
                        /\ PageTyped(This) /\ PageSound(guide, G.steps, step)
                        /\ PageOwn(guide, G.steps, step) /\ Spares(G.drops, This)
           /\ pending # {} => guide \in DOMAIN Guide
<1>a. guide \in {""} \cup DOMAIN Guide /\ (AtStep => step \in DOMAIN G.steps)
  BY DEF GuideTyped, GuideTypeOK
<1>b. guide = "" => step = 0 /\ pending = {}
  BY DEF GuideTyped
<1>c. step = 0 => ~AtStep
  BY DEF AtStep
<1>1. /\ guide \in {""} \cup DOMAIN Guide /\ (AtStep => step \in DOMAIN G.steps)
      /\ guide = "" => ~AtStep /\ pending = {}
  BY <1>a, <1>b, <1>c
<1>2. ASSUME AtStep
      PROVE  /\ guide \in DOMAIN Guide /\ guide # "" /\ step \in DOMAIN G.steps
             /\ PageTyped(This) /\ PageSound(guide, G.steps, step)
             /\ PageOwn(guide, G.steps, step) /\ Spares(G.drops, This)
  <2>1. guide \in DOMAIN Guide /\ guide # "" /\ step \in DOMAIN G.steps
    BY <1>1, <1>2
  <2>2. GuideSound(guide)
    BY <2>1, GuidesSound
  <2> QED
    BY <2>1, <2>2 DEF GuideSound, This, G
<1> QED
  BY <1>1, <1>2

(* What belongs to a guide stays, for as long as it is open. *)
LEMMA GuideKept ==
    ASSUME UNCHANGED fixed
    PROVE  /\ guide' = guide /\ editing' = editing /\ G' = G
           /\ \A s : s = step' => (step' = step => This' = This)
BY DEF fixed, G, This
(* What is sent is what the form shows. *)
LEMMA BodyKept ==
    ASSUME UNCHANGED <<guide, form, on>>
    PROVE  Body' = Body
BY DEF Body, Dropped, Derived, Cut, Shows, G

(* What is sent is a draft. *)
LEMMA BodyTyped ==
    ASSUME GuideTyped
    PROVE  /\ Body \in PolicyDraft
           /\ Body.on = on
           /\ \A f \in Fields : ~Dropped(f) /\ ~Derived(f) /\ ~Cut(f) => Body.fields[f] = form[f]
           /\ \A f \in Fields : ~Dropped(f) /\ Derived(f) => Body.fields[f] = "derived"
<1>1. form \in [Fields -> Texts] /\ on \subseteq Toggles
  BY DEF GuideTyped, GuideTypeOK, PolicyDraft, Texts
<1>2. "Server" \in Fields
  BY DEF Fields
<1> DEFINE Said(f) == IF Dropped(f) THEN IF guide = "cos" THEN form["Server"] ELSE ""
                      ELSE IF Derived(f) THEN "derived"
                      ELSE IF Cut(f) THEN "" ELSE form[f]
<1>3. Body = [fields |-> [f \in Fields |-> Said(f)], on |-> on]
  BY DEF Body
<1>4. ASSUME NEW f \in Fields
      PROVE  /\ Said(f) \in Texts
             /\ ~Dropped(f) /\ ~Derived(f) /\ ~Cut(f) => Said(f) = form[f]
             /\ ~Dropped(f) /\ Derived(f) => Said(f) = "derived"
  <2>1. form[f] \in Texts /\ form["Server"] \in Texts
    BY <1>1, <1>2, <1>4
  <2>2. "" \in Texts /\ "derived" \in Texts
    BY DEF Texts
  <2> QED
    BY <2>1, <2>2
<1> HIDE DEF Said
<1> QED
  BY <1>1, <1>3, <1>4 DEF PolicyDraft

(* What the server makes of a draft is one, but for the path. *)
LEMMA AddedTyped ==
    ASSUME NEW b \in PolicyDraft, NEW s \in Added(b)
    PROVE  /\ s \in PolicyDraft /\ s.on = b.on
           /\ \A f \in Fields : s.fields[f] = b.fields[f] \/ b.fields[f] = "slight"
<1> DEFINE trimmed == [b EXCEPT !.fields["DirNameRule"] = IF @ = "slight" THEN "" ELSE @]
<1>1. s = b \/ s = trimmed
  BY DEF Added
<1>2. /\ trimmed \in PolicyDraft /\ trimmed.on = b.on
      /\ \A f \in Fields : trimmed.fields[f] = b.fields[f] \/ b.fields[f] = "slight"
  BY DEF PolicyDraft, Texts
<1> QED
  BY <1>1, <1>2

(* A counter below its bound. *)
LEMMA OneMore ==
    ASSUME NEW M \in Nat, NEW n \in 0 .. M, n < M
    PROVE  n + 1 \in 0 .. M
OBVIOUS

(* Every edit is of what the page shows. *)
LEMMA EditsTouch ==
    ASSUME GuideTyped,
           \/ Fill \/ \E f \in Fields, v \in {"", "typed", "slight"} : Edit(f, v)
           \/ \E f \in Fields : Flip(f)
           \/ \E t \in Toggles : Toggle(t)
    PROVE  \E fs : Touches(fs)
<1>1. form \in [Fields -> Texts] /\ on \subseteq Toggles /\ edits \in 0 .. MaxEdits
  BY DEF GuideTyped, GuideTypeOK, PolicyDraft, Texts
<1>e. MaxEdits \in Nat /\ edits \in 0 .. MaxEdits
  BY GuideAssumption DEF GuideTyped, GuideTypeOK
<1>2. AtStep => PageTyped(This)
  BY PageShown
<1>3. MaxEdits \in Nat /\ Fields \cap Toggles = {}
  BY GuideAssumption DEF Fields, Toggles
<1>4. CASE Fill
  <2> DEFINE empty == {f \in Required : form[f] = ""}
  <2>1. empty # {} /\ empty \subseteq Typing(This)
    BY <1>4 DEF Fill, Filled, Required, Needs, Typing, Inputs
  <2>2. /\ AtStep /\ Touch(empty)
        /\ UNCHANGED <<fixed, server, request, step, on, loading, edits>>
        /\ form' = [f \in Fields |-> IF f \in empty THEN "typed" ELSE form[f]]
    BY <1>4 DEF Fill
  <2> HIDE DEF empty
  <2>3. Touches(empty)
    BY <1>1, <2>1, <2>2 DEF Touches, Texts
  <2> QED
    BY <2>3
<1>5. ASSUME NEW f \in Fields, NEW v \in {"", "typed", "slight"}, Edit(f, v)
      PROVE  Touches({f})
  <2>1. f \in Typing(This)
    BY <1>5 DEF Edit, Typeable, Required, Needs, Typing, Inputs
  <2>0. edits < MaxEdits /\ edits' = edits + 1
    BY <1>5 DEF Edit
  <2>2. edits' \in 0 .. MaxEdits
    BY <1>e, <2>0, OneMore
  <2>3. form' \in [Fields -> Texts] /\ \A h \in Fields \ {f} : form'[h] = form[h]
    BY <1>1, <1>5 DEF Edit, Texts
  <2> QED
    BY <1>1, <1>5, <2>1, <2>2, <2>3 DEF Touches, Edit
<1>6. ASSUME NEW f \in Fields, Flip(f)
      PROVE  Touches({f})
  <2>1. f \in Typing(This)
    BY <1>6 DEF Flip, Typing
  <2>0. edits < MaxEdits /\ edits' = edits + 1
    BY <1>6 DEF Flip
  <2>2. edits' \in 0 .. MaxEdits
    BY <1>e, <2>0, OneMore
  <2>3. form' \in [Fields -> Texts] /\ \A h \in Fields \ {f} : form'[h] = form[h]
    BY <1>1, <1>6 DEF Flip, Texts
  <2> QED
    BY <1>1, <1>6, <2>1, <2>2, <2>3 DEF Touches, Flip
<1>7. ASSUME NEW t \in Toggles, Toggle(t)
      PROVE  Touches({t})
  <2>1. t \in Switches(This)
    BY <1>7 DEF Toggle, Offered, Switches
  <2>0. edits < MaxEdits /\ edits' = edits + 1
    BY <1>7 DEF Toggle
  <2>2. edits' \in 0 .. MaxEdits
    BY <1>e, <2>0, OneMore
  <2>3. /\ form' \in [Fields -> Texts]
        /\ \A h \in Fields \ {t} :
             form'[h] = form[h] \/ (h = "BaseURL" /\ Own(guide) /\ "useCDN" \in {t})
    BY <1>1, <1>7 DEF Toggle, Texts, Own
  <2>4. on' \subseteq Toggles /\ \A u \in Toggles \ {t} : u \in on' <=> u \in on
    BY <1>1, <1>7 DEF Toggle
  <2> QED
    BY <1>7, <2>1, <2>2, <2>3, <2>4 DEF Touches, Toggle
<1> QED
  BY <1>4, <1>5, <1>6, <1>7

(* What a step of an open guide must see to for its variables to stay in their *)
(* types: the next page is one of the guide, and a new request knows where it  *)
(* leads.                                                                      *)
StaysTyped ==
    /\ guide # "" /\ UNCHANGED fixed /\ step' \in {0} \cup DOMAIN G.steps
    /\ form' \in [Fields -> Texts] /\ on' \subseteq Toggles /\ stored' \in PolicyDraft
    /\ loading' \in BOOLEAN /\ known' \in BOOLEAN /\ tested' \in BOOLEAN
    /\ asked' \in asked .. MaxRequests + 1 /\ edits' \in 0 .. MaxEdits
    /\ hands' \subseteq Fields \cup Toggles
    /\ odd' \subseteq {"edited", "strayed", "wiped", "trimmed"}
    /\ \A r \in pending' :
         r \in pending \/ (r.n \in 1 .. asked' /\ r.body \in PolicyDraft /\ Leads(r.do, r.to))

(* ... and that is enough. *)
LEMMA TypedStays ==
    ASSUME GuideTyped, StaysTyped
    PROVE  GuideTyped'
<1>1. G' = G /\ guide' = guide /\ editing' = editing
  BY GuideKept DEF StaysTyped
<1>2. guide \in DOMAIN Guide
  BY PageShown DEF StaysTyped
<1>3. PICK k \in 1 .. 7 : DOMAIN G.steps = 1 .. k
  BY <1>2, GuidesSound DEF GuideSound, G
<1>4. asked \in 0 .. MaxRequests + 1 /\ MaxRequests \in Nat
  BY GuideAssumption DEF GuideTyped, GuideTypeOK
<1>a. step' \in {0} \cup DOMAIN G.steps /\ asked' \in asked .. MaxRequests + 1
  BY DEF StaysTyped
<1>5. step' \in 0 .. 7 /\ (step' > 0 => step' \in DOMAIN G'.steps)
  BY <1>1, <1>3, <1>a
<1>6. asked' \in 0 .. MaxRequests + 1 /\ \A n \in 1 .. asked : n \in 1 .. asked'
  BY <1>4, <1>a
<1>7. \A do, to : Leads(do, to) => Leads(do, to)'
  BY <1>1 DEF Leads
<1>8. \A r \in pending' : RequestOK(r)'
  BY <1>6, <1>7 DEF GuideTyped, RequestOK, StaysTyped
<1>9. /\ [fields |-> form, on |-> on]' \in PolicyDraft
      /\ \A r \in pending' : r.n \in 1 .. asked' /\ r.body \in PolicyDraft
  BY <1>8 DEF StaysTyped, PolicyDraft, Texts, RequestOK
<1>10. GuideTypeOK'
  BY <1>1, <1>2, <1>5, <1>6, <1>9 DEF GuideTypeOK, GuideTyped, StaysTyped, AtStep
<1> QED
  BY <1>1, <1>8, <1>10 DEF GuideTyped, StaysTyped

(* What a request under way was sent with. *)
LEMMA Sent ==
    ASSUME GuideTyped, NEW do, NEW to, Ask(do, to)
    PROVE  /\ asked' \in asked .. MaxRequests + 1
           /\ \E r : /\ pending' = pending \cup {r} /\ r.do = do /\ r.to = to /\ r.body = Body
                     /\ r.n \in 1 .. asked' /\ r.body \in PolicyDraft
<1>1. asked \in 0 .. MaxRequests + 1 /\ MaxRequests \in Nat
  BY GuideAssumption DEF GuideTyped, GuideTypeOK
<1>2. asked < MaxRequests /\ asked' = asked + 1
  BY DEF Ask
<1>3. asked' \in asked .. MaxRequests + 1 /\ asked' \in 1 .. asked'
  BY <1>1, <1>2
<1> DEFINE r == [n |-> asked', do |-> do, to |-> to, body |-> Body]
<1>4. pending' = pending \cup {r}
  BY DEF Ask
<1>5. r.do = do /\ r.to = to /\ r.body = Body /\ r.n = asked'
  OBVIOUS
<1> HIDE DEF r
<1> QED
  BY <1>3, <1>4, <1>5, BodyTyped

(* Behind the page that saves. *)
LEMMA SavedOn ==
    ASSUME NEW S, NEW n \in 1 .. 7
    PROVE  /\ Saved(S, n + 1) <=> Saved(S, n) \/ S[n].then = "save"
           /\ Saved(S, n - 1) => Saved(S, n)
           /\ ~Saved(S, 1)
<1>1. \A m : m \in 1 .. (n + 1) - 1 <=> m \in 1 .. n - 1 \/ m = n
  OBVIOUS
<1>2. \A m \in 1 .. (n - 1) - 1 : m \in 1 .. n - 1
  OBVIOUS
<1>3. 1 .. 1 - 1 = {}
  OBVIOUS
<1> QED
  BY <1>1, <1>2, <1>3 DEF Saved

(* What the pages ask for. *)
LEMMA PageAsks ==
    ASSUME GuideTyped, AtStep
    PROVE  /\ Then = "save" => Leads("save", IF guide = "pro" THEN step ELSE step + 1)
           /\ This.then = "check" => Leads("check", step + 1)
           /\ This.asks \notin {"nothing", "leave"} =>
                Leads(This.asks, IF This.asks \in {"cors", "scf"} THEN step + 1 ELSE 0)
<1>1. /\ guide \in DOMAIN Guide /\ step \in DOMAIN G.steps /\ PageTyped(This)
      /\ PageSound(guide, G.steps, step) /\ PageOwn(guide, G.steps, step)
  BY PageShown
<1>a. step \in 0 .. 7
  BY DEF GuideTyped, GuideTypeOK
<1>2. step \in 1 .. 7
  BY <1>a DEF AtStep
<1>3. Saved(G.steps, step) \/ This.then = "save" => Saved(G.steps, step + 1)
  BY <1>2, SavedOn DEF This
<1>4. ASSUME This.then = "check"
      PROVE  Leads("check", step + 1)
  <2>1. step + 1 \in DOMAIN G.steps
    BY <1>1, <1>4 DEF PageSound, Onward, This
  <2>2. guide = "local"
    BY <1>1, <1>4 DEF PageOwn, This
  <2> QED
    BY <2>1, <2>2 DEF Leads, Node
<1>5. ASSUME Then = "save"
      PROVE  Leads("save", IF guide = "pro" THEN step ELSE step + 1)
  <2>1. This.then = "save" \/ (OfNode /\ editing /\ This.then = "next")
    BY <1>5 DEF Then
  <2>2. guide # "pro" => step + 1 \in DOMAIN G.steps
    BY <1>1, <2>1 DEF PageSound, Onward, This
  <2>3. guide = "pro" => step = 1
    BY <1>1 DEF PageOwn
  <2>4. guide = "pro" => ~OfNode
    BY DEF OfNode
  <2> QED
    BY <1>1, <1>3, <2>1, <2>2, <2>3, <2>4 DEF Leads, Node, OfNode
<1>6. ASSUME This.asks \notin {"nothing", "leave"}
      PROVE  Leads(This.asks, IF This.asks \in {"cors", "scf"} THEN step + 1 ELSE 0)
  <2>1. This.asks \in {"test", "cors", "scf", "oauth"}
    BY <1>1, <1>6 DEF PageTyped
  <2>2. Node(guide) => This.asks = "test"
    BY <1>1, <1>6 DEF PageOwn, NodePage, This
  <2>3. This.asks \in {"cors", "scf"} => step + 1 \in DOMAIN G.steps /\ Saved(G.steps, step + 1)
    BY <1>1, <1>3 DEF PageSound, Onward, This
  <2> QED
    BY <2>1, <2>2, <2>3 DEF Leads
<1> QED
  BY <1>4, <1>5, <1>6

(* A guide is opened on a page of it, with at most the request for the site. *)
LEMMA OpenTyped ==
    ASSUME GuideTyped, NEW g \in DOMAIN Guide, NEW e \in BOOLEAN, OpenGuide(g, e)
    PROVE  GuideTyped'
<1>1. guide = "" /\ guide' = g /\ editing' = e /\ step' = 1 /\ pending = {} /\ g # ""
  BY DEF OpenGuide, GuideTyped, Guide
<1>2. G' = Guide[g]
  BY <1>1 DEF G
<1>3. PICK k \in 1 .. 7 : DOMAIN G'.steps = 1 .. k
  BY <1>2, GuidesSound DEF GuideSound
<1>4. 1 \in 0 .. 7 /\ 1 \in 1 .. k
  BY <1>3
<1>5. /\ form \in [Fields -> Texts] /\ on \subseteq Toggles /\ stored \in PolicyDraft
      /\ asked \in 0 .. MaxRequests + 1 /\ MaxRequests \in Nat /\ known \in BOOLEAN
  BY GuideAssumption DEF GuideTyped, GuideTypeOK, PolicyDraft, Texts
<1>6. Guide[g].reads \subseteq PageToggles /\ PageToggles \subseteq Toggles
  BY GuidesSound DEF GuideSound, PageToggles, Toggles
<1>7. form' \in [Fields -> Texts] /\ on' \subseteq Toggles
  <2>1. CASE e
    BY <1>6, <2>1 DEF OpenGuide, Texts
  <2>2. CASE ~e
    BY <2>2 DEF OpenGuide, Preset, Texts
  <2> QED
    BY <2>1, <2>2
<1>8. [fields |-> form', on |-> on'] \in PolicyDraft
  BY <1>7 DEF PolicyDraft, Texts
<1>9. stored' \in PolicyDraft /\ known' \in BOOLEAN
      /\ UNCHANGED <<loading, edits, tested, hands, odd>>
  BY <1>5, <1>8 DEF OpenGuide
<1>10. /\ asked' \in 0 .. MaxRequests + 1
       /\ \A r \in pending' : RequestOK(r)'
  <2>1. CASE g = "onedrive" /\ ~e
    <3>1. asked' = 1 /\ pending' = {[n |-> 1, do |-> "site", to |-> 0, body |-> stored]}
      BY <2>1 DEF OpenGuide
    <3>2. 1 \in 0 .. MaxRequests + 1 /\ 1 \in 1 .. 1
      BY <1>5
    <3>3. Leads("site", 0)'
      BY <1>1, <2>1 DEF Leads, Node
    <3> QED
      BY <1>5, <3>1, <3>2, <3>3 DEF RequestOK
  <2>2. CASE ~(g = "onedrive" /\ ~e)
    BY <1>1, <1>5, <2>2 DEF OpenGuide, request
  <2> QED
    BY <2>1, <2>2
<1>11. (AtStep => step \in DOMAIN G.steps)' /\ [fields |-> form, on |-> on]' \in PolicyDraft
  BY <1>1, <1>3, <1>4, <1>8
<1>12. \A r \in pending' : r.n \in 1 .. asked' /\ r.body \in PolicyDraft
  BY <1>10 DEF RequestOK
<1>13. GuideTypeOK'
  BY <1>1, <1>4, <1>9, <1>10, <1>11, <1>12 DEF GuideTypeOK, GuideTyped
<1> QED
  BY <1>1, <1>10, <1>13 DEF GuideTyped

(* The variables stay in their types. *)
LEMMA GuideTypedStep ==
    ASSUME GuideTyped, GuideStep
    PROVE  GuideTyped'
<1>1. /\ form \in [Fields -> Texts] /\ on \subseteq Toggles /\ stored \in PolicyDraft
      /\ loading \in BOOLEAN /\ known \in BOOLEAN /\ tested \in BOOLEAN
      /\ edits \in 0 .. MaxEdits /\ hands \subseteq Fields \cup Toggles
      /\ odd \subseteq {"edited", "strayed", "wiped", "trimmed"}
  BY DEF GuideTyped, GuideTypeOK, PolicyDraft, Texts
<1>a. asked \in 0 .. MaxRequests + 1 /\ MaxRequests \in Nat
  BY GuideAssumption DEF GuideTyped, GuideTypeOK
<1>2. asked \in 0 .. MaxRequests + 1 /\ asked \in asked .. MaxRequests + 1
  BY <1>a
<1>3. step \in {0} \cup DOMAIN G.steps
  <2>1. step \in 0 .. 7 /\ (AtStep => step \in DOMAIN G.steps)
    BY DEF GuideTyped, GuideTypeOK
  <2> QED
    BY <2>1 DEF AtStep
<1>4. AtStep \/ pending # {} => guide # ""
  BY PageShown DEF GuideTyped
<1>5. AtStep => /\ PageTyped(This) /\ PageSound(guide, G.steps, step)
                /\ Typing(This) \subseteq Fields /\ Switches(This) \subseteq Toggles
  BY PageShown DEF PageTyped, Switches
<1>6. ASSUME NEW fs, Touches(fs)
      PROVE  StaysTyped
  BY <1>1, <1>2, <1>3, <1>4, <1>5, <1>6
     DEF Touches, Touch, StaysTyped, fixed, server, request
<1>7. CASE GoOn
  <2>1. step + 1 \in DOMAIN G.steps
    BY <1>5, <1>7 DEF GoOn, Then, PageSound, Onward, This
  <2> QED
    BY <1>1, <1>2, <1>4, <1>7, <2>1, TypedStays
       DEF GoOn, StaysTyped, fixed, server, request, draft
<1>8. CASE GoBack
  <2>1. step - This.back \in DOMAIN G.steps
    BY <1>5, <1>8 DEF GoBack, PageSound, This
  <2>2. pending' \subseteq pending /\ loading' \in BOOLEAN
    BY <1>1, <1>8 DEF GoBack, Left, Locked
  <2> QED
    BY <1>1, <1>2, <1>4, <1>8, <2>1, <2>2, TypedStays
       DEF GoBack, StaysTyped, fixed, server, draft
<1>9. CASE SkipStep
  <2>1. step + 1 \in DOMAIN G.steps
    BY <1>5, <1>9 DEF SkipStep, PageSound, Onward, This
  <2> QED
    BY <1>1, <1>2, <1>4, <1>9, <2>1, TypedStays
       DEF SkipStep, StaysTyped, fixed, server, request, draft
<1>10. ASSUME NEW do, NEW to, Ask(do, to), Leads(do, to), AtStep, loading' \in BOOLEAN,
              UNCHANGED <<fixed, server, draft, step, odd>>
       PROVE  GuideTyped'
  <2>1. /\ asked' \in asked .. MaxRequests + 1
        /\ \A r \in pending' : \/ r \in pending
                               \/ r.n \in 1 .. asked' /\ r.body \in PolicyDraft /\ Leads(r.do, r.to)
    BY <1>10, Sent
  <2> QED
    BY <1>1, <1>3, <1>4, <1>10, <2>1, TypedStays DEF StaysTyped, fixed, server, draft
<1>11. CASE CheckPath
  BY <1>10, <1>11, PageAsks DEF CheckPath
<1>12. CASE SubmitPolicy
  BY <1>1, <1>10, <1>12, PageAsks DEF SubmitPolicy, Locked
<1>13. CASE PressButton
  BY <1>10, <1>13, PageAsks DEF PressButton
<1>14. CASE LeaveGuide
  BY <1>1, <1>2, <1>4, <1>14, TypedStays
  DEF LeaveGuide, StaysTyped, fixed, server, draft
<1>15. ASSUME NEW r \in pending, GuideFailed(r)
       PROVE  GuideTyped'
  <2>1. stored' \in PolicyDraft /\ odd' \subseteq {"edited", "strayed", "wiped", "trimmed"}
    <3>1. r.body \in PolicyDraft
      BY DEF GuideTyped, RequestOK
    <3> QED
      BY <1>1, <1>15, <3>1, AddedTyped DEF GuideFailed, StorePolicy
  <2>2. pending' \subseteq pending /\ loading' \in BOOLEAN
    BY <1>1, <1>15 DEF GuideFailed, Locked
  <2> QED
    BY <1>1, <1>2, <1>3, <1>4, <1>15, <2>1, <2>2, TypedStays
    DEF GuideFailed, StaysTyped, fixed, draft
<1>16. ASSUME NEW r \in pending, GuideAnswered(r)
       PROVE  GuideTyped'
  <2>1. RequestOK(r)
    BY DEF GuideTyped
  <2>a. stored' \in PolicyDraft
    BY <1>1, <1>16, <2>1, AddedTyped DEF GuideAnswered, StorePolicy, RequestOK
  <2>2. stored' \in PolicyDraft /\ pending' \subseteq pending /\ loading' \in BOOLEAN
    BY <1>1, <1>16, <2>a DEF GuideAnswered, Locked, Left
  <2>3. known' \in BOOLEAN /\ tested' \in BOOLEAN /\ step' \in {0} \cup DOMAIN G.steps
    BY <1>1, <1>3, <1>16, <2>1 DEF GuideAnswered, RequestOK, Leads
  <2>4. Preset(guide) \in [Fields -> Texts] /\ PageToggles \subseteq Toggles
    BY DEF Preset, Texts, PageToggles, Toggles
  <2>5. /\ form' \in [Fields -> Texts] /\ on' \subseteq Toggles
        /\ odd' \subseteq {"edited", "strayed", "wiped", "trimmed"}
    <3>1. CASE r.do = "site"
      BY <1>1, <1>16, <2>4, <3>1 DEF GuideAnswered
    <3>2. CASE r.do # "site"
      BY <1>1, <1>16, <3>2 DEF GuideAnswered, StorePolicy
    <3> QED
      BY <3>1, <3>2
  <2> QED
    BY <1>1, <1>2, <1>4, <1>16, <2>2, <2>3, <2>5, TypedStays
    DEF GuideAnswered, StaysTyped, fixed
<1>17. CASE UNCHANGED guideVars
  BY <1>17 DEF guideVars, GuideTyped, GuideTypeOK, RequestOK, Leads, AtStep, G
<1> QED
  BY <1>6, <1>7, <1>8, <1>9, <1>11, <1>12, <1>13, <1>14, <1>15, <1>16, <1>17,
     EditsTouch, TypedStays, OpenTyped DEF GuideStep, GuideNext
-----------------------------------------------------------------------------
(* What nobody touched is saved as it was *)

Excepted(f) == f = "BaseURL" /\ guide \in {"local", "remote", "s3", "oss", "cos", "onedrive"}
KeptBy(fields) ==
    \A f \in Fields \ hands :
        \/ fields[f] = "given"
        \/ \E t \in hands : t \in DOMAIN G.drops /\ G.drops[t] = f
        \/ Excepted(f)
Keeping ==
    editing =>
        /\ \A r \in pending : r.do = "save" => KeptBy(r.body.fields)
        /\ KeptBy(stored.fields)
        /\ \A f \in Fields \ hands : form[f] = "given" \/ Excepted(f)
        /\ \A t \in Toggles \ hands : t \in (Toggles \ PageToggles) \cup G.reads => t \in on

(* What submitting makes of an edited form keeps to it. *)
LEMMA BodyKeeps ==
    ASSUME GuideTyped, Keeping, editing, AtStep
    PROVE  KeptBy(Body.fields)
<1>1. guide \in DOMAIN Guide
  BY PageShown
<1> SUFFICES ASSUME NEW f \in Fields \ hands
             PROVE  \/ Body.fields[f] = "given"
                    \/ \E t \in hands : t \in DOMAIN G.drops /\ G.drops[t] = f
                    \/ Excepted(f)
  BY DEF KeptBy
<1>2. CASE ~Dropped(f)
  <2>1. CASE Derived(f)
    BY <2>1 DEF Derived, Excepted
  <2>2. CASE ~Derived(f) /\ ~Excepted(f)
    <3>1. form[f] = "given"
      BY <2>2 DEF Keeping
    <3> QED
      BY <1>2, <2>2, <3>1, BodyTyped DEF Cut
  <2> QED
    BY <2>1, <2>2
<1>3. CASE Dropped(f)
  <2>1. PICK t \in DOMAIN G.drops : G.drops[t] = f /\ ~Shows(t, on)
    BY <1>3 DEF Dropped
  <2>2. DropSound(guide, t)
    BY <1>1, <2>1, GuidesSound DEF GuideSound, G
  <2>3. CASE t \in Guide[guide].reads /\ ~Own(guide) /\ t \notin hands
    <3>1. t \in on
      BY <2>2, <2>3 DEF Keeping, DropSound, G
    <3> QED
      BY <2>1, <2>3, <3>1 DEF Shows, Own
  <2>4. CASE t \in hands
    BY <2>1, <2>4
  <2>5. CASE /\ Guide[guide].drops[t] = "BaseURL"
             /\ guide \in {"local", "remote", "s3", "oss", "cos"}
    BY <2>1, <2>5 DEF Excepted, G
  <2> QED
    BY <2>2, <2>3, <2>4, <2>5 DEF DropSound
<1> QED
  BY <1>2, <1>3

\* What leaves the form alone: what is sent is what the form makes, what is stored
\* was sent.
Quiet ==
    /\ guide # "" /\ UNCHANGED <<fixed, form, on, hands>>
    /\ \A r \in pending' : r \in pending \/ (AtStep /\ r.body = Body)
    /\ stored' = stored \/ \E r \in pending : r.do = "save" /\ stored' \in Added(r.body)

(* The steps of a guide. *)
LEMMA StepKinds ==
    ASSUME GuideTyped, GuideStep
    PROVE  \/ UNCHANGED guideVars
           \/ \E g \in DOMAIN Guide, e \in BOOLEAN : OpenGuide(g, e)
           \/ \E fs : Touches(fs)
           \/ \E r \in pending : r.do = "site" /\ GuideAnswered(r)
           \/ Quiet
<1>1. AtStep \/ pending # {} => guide # ""
  BY PageShown DEF GuideTyped
<1>2. GoOn \/ SkipStep \/ GoBack \/ LeaveGuide => Quiet
  BY <1>1 DEF GoOn, SkipStep, GoBack, LeaveGuide, Left, Quiet, draft, server, request
<1>a. ASSUME NEW do, NEW to, Ask(do, to), AtStep, UNCHANGED <<fixed, server, draft>>
      PROVE  Quiet
  <2>1. PICK r : pending' = pending \cup {r} /\ r.body = Body
    BY <1>a, Sent
  <2> QED
    BY <1>1, <1>a, <2>1 DEF Quiet, draft, server
<1>3. CheckPath \/ SubmitPolicy \/ PressButton => Quiet
  BY <1>a DEF CheckPath, SubmitPolicy, PressButton
<1>4. ASSUME NEW r \in pending, GuideFailed(r)
      PROVE  Quiet
  BY <1>1, <1>4 DEF GuideFailed, StorePolicy, Quiet, draft
<1>5. ASSUME NEW r \in pending, GuideAnswered(r), r.do # "site"
      PROVE  Quiet
  <2>1. pending' \subseteq pending
    BY <1>5 DEF GuideAnswered, Left
  <2> QED
    BY <1>1, <1>5, <2>1 DEF GuideAnswered, StorePolicy, Quiet
<1> QED
  BY <1>2, <1>3, <1>4, <1>5, EditsTouch DEF GuideStep, GuideNext

(* Every step keeps to it. *)
LEMMA KeepingStep ==
    ASSUME GuideTyped, Keeping, GuideStep
    PROVE  Keeping'
<1>1. ASSUME NEW g \in DOMAIN Guide, NEW e \in BOOLEAN, OpenGuide(g, e)
      PROVE  Keeping'
  <2>1. CASE e
    <3>1. /\ form' = [f \in Fields |-> "given"]
          /\ stored' = [fields |-> form', on |-> on']
          /\ on' = (Toggles \ PageToggles) \cup Guide[g].reads /\ guide' = g
          /\ pending' = {}
      BY <1>1, <2>1 DEF OpenGuide, request, GuideTyped
    <3>2. G' = Guide[g] /\ stored'.fields = form'
      BY <3>1 DEF G
    <3>3. \A f \in Fields : form'[f] = "given"
      BY <3>1
    <3> HIDE DEF G
    <3> QED
      BY <3>1, <3>2, <3>3 DEF Keeping, KeptBy
  <2>2. CASE ~e
    BY <1>1, <2>2 DEF OpenGuide, Keeping
  <2> QED
    BY <2>1, <2>2
<1>2. ASSUME UNCHANGED fixed, hands \subseteq hands', NEW fields, KeptBy(fields)
      PROVE  KeptBy(fields)'
  BY <1>2, GuideKept DEF KeptBy, Excepted
<1>3. ASSUME NEW fs, Touches(fs)
      PROVE  Keeping'
  <2>1. /\ guide' = guide /\ editing' = editing /\ G' = G
        /\ UNCHANGED <<pending, stored>>
        /\ hands' = hands \cup fs /\ UNCHANGED fixed
        /\ \A t \in Toggles \ fs : t \in on' <=> t \in on
        /\ \A f \in Fields \ fs :
             form'[f] = form[f] \/ (f = "BaseURL" /\ Own(guide) /\ "useCDN" \in fs)
    BY <1>3, GuideKept DEF Touches, Touch, server, request
  <2>2. \A f : Excepted(f) => Excepted(f)'
    BY <2>1 DEF Excepted
  <2>3. Own(guide) => Excepted("BaseURL")
    BY DEF Own, Excepted
  <2>4. CASE editing
    <3>1. /\ \A r \in pending' : r.do = "save" => KeptBy(r.body.fields)'
          /\ KeptBy(stored.fields)'
      BY <1>2, <2>1, <2>4 DEF Keeping
    <3>2. \A f \in Fields \ hands' : form'[f] = "given" \/ Excepted(f)'
      BY <2>1, <2>2, <2>3, <2>4 DEF Keeping
    <3>3. \A t \in Toggles \ hands' : t \in (Toggles \ PageToggles) \cup G'.reads => t \in on'
      BY <2>1, <2>4 DEF Keeping
    <3> QED
      BY <2>1, <3>1, <3>2, <3>3 DEF Keeping
  <2> QED
    BY <2>1, <2>4 DEF Keeping
<1>4. ASSUME NEW r \in pending, r.do = "site", GuideAnswered(r)
      PROVE  Keeping'
  <2>1. ~editing
    BY <1>4 DEF GuideTyped, RequestOK, Leads
  <2> QED
    BY <1>4, <2>1 DEF GuideAnswered, fixed, Keeping
<1>5. CASE Quiet
  <2>1. /\ editing' = editing /\ G' = G /\ UNCHANGED <<form, on, hands>>
        /\ guide' = guide
        /\ UNCHANGED fixed
    BY <1>5, GuideKept DEF Quiet
  <2>2. CASE editing
    <3>1. \A r \in pending' : r.do = "save" => KeptBy(r.body.fields)
      BY <1>5, <2>2, BodyKeeps DEF Keeping, Quiet
    <3>2. KeptBy(stored'.fields)
      <4>1. CASE stored' = stored
        BY <2>2, <4>1 DEF Keeping
      <4>2. ASSUME NEW r \in pending, r.do = "save", stored' \in Added(r.body)
            PROVE  KeptBy(stored'.fields)
        <5>1. KeptBy(r.body.fields) /\ r.body \in PolicyDraft
          BY <2>2, <4>2 DEF Keeping, GuideTyped, RequestOK
        <5>2. \A f \in Fields : r.body.fields[f] = "given" => stored'.fields[f] = "given"
          BY <4>2, <5>1, AddedTyped
        <5> QED
          BY <5>1, <5>2 DEF KeptBy
      <4> QED
        BY <1>5, <4>1, <4>2 DEF Quiet
    <3>3. /\ \A r \in pending' : r.do = "save" => KeptBy(r.body.fields)'
          /\ KeptBy(stored.fields)'
      BY <2>1, <3>1, <3>2 DEF KeptBy, Excepted
    <3>4. \A f : Excepted(f) => Excepted(f)'
      BY <2>1 DEF Excepted
    <3> QED
      BY <2>1, <2>2, <3>3, <3>4 DEF Keeping
  <2> QED
    BY <2>1, <2>2 DEF Keeping
<1>6. CASE UNCHANGED guideVars
  BY <1>6 DEF guideVars, Keeping, KeptBy, Excepted, G
<1> QED
  BY <1>1, <1>3, <1>4, <1>5, <1>6, StepKinds

(* The guide is closed at first. *)
LEMMA GuideStart ==
    ASSUME GuideInit
    PROVE  GuideTyped /\ Keeping
<1>1. Blank \in [Fields -> Texts]
  BY DEF Blank, Texts
<1>2. [fields |-> Blank, on |-> {}] \in PolicyDraft
  BY <1>1 DEF PolicyDraft, Texts
<1>3. /\ MaxRequests \in Nat /\ MaxEdits \in Nat
  BY GuideAssumption
<1>4. 0 \in 0 .. 7 /\ 0 \in 0 .. MaxRequests + 1 /\ 0 \in 0 .. MaxEdits /\ ~(0 > 0)
  BY <1>3
<1>5. GuideTypeOK
  BY <1>2, <1>4 DEF GuideInit, GuideTypeOK, AtStep
<1> QED
  BY <1>5 DEF GuideInit, GuideTyped, Keeping

(* A guide that edits a stored policy saves what nobody touched as it was. *)
THEOREM EditKeepsSafe == GuideSpec => []GuideTypeOK /\ []EditKeeps
<1> DEFINE Inv == GuideTyped /\ Keeping
<1>1. GuideInit => Inv
  BY GuideStart
<1>2. Inv /\ [GuideNext]_guideVars => Inv'
  BY GuideTypedStep, KeepingStep DEF GuideStep
<1>3. Inv => GuideTypeOK /\ EditKeeps
  BY DEF GuideTyped, Keeping, KeptBy, Excepted, EditKeeps
<1> QED
  BY <1>1, <1>2, <1>3, PTL DEF GuideSpec
-----------------------------------------------------------------------------
(* What the pages behind the saving one are about *)

Past(s) == Saved(G.steps, s)

\* As long as nothing odd happens: what is saved is what the form shows.
AsShown ==
    guide # "" /\ odd = {} =>
        /\ \A r \in pending : r.do = "save" => r.body = Body
        /\ AtStep /\ Past(step) => stored = Body
        /\ \A r \in pending : r.to > 0 /\ r.do # "save" /\ Past(r.to) => stored = Body

(* Where a page is. *)
LEMMA Places ==
    ASSUME GuideTyped, AtStep
    PROVE  /\ step \in 1 .. 7 /\ step > 0
           /\ Past(step + 1) <=> Past(step) \/ This.then = "save"
           /\ Past(step - 1) => Past(step)
           /\ Past(step) => /\ Typing(This) = {} /\ Switches(This) = {} /\ This.back = 0
                            /\ This.then = "nothing"
           /\ This.skips \/ This.asks \in {"cors", "scf"} => Past(step)
           /\ ~Past(1)
<1>1. step \in 0 .. 7 /\ PageSound(guide, G.steps, step)
  BY PageShown DEF GuideTyped, GuideTypeOK
<1>2. step \in 1 .. 7 /\ step > 0
  BY <1>1 DEF AtStep
<1>3. /\ Past(step) => /\ Typing(This) = {} /\ Switches(This) = {} /\ This.back = 0
                       /\ This.then = "nothing"
      /\ This.skips \/ This.asks \in {"cors", "scf"} => Past(step)
  BY <1>1 DEF PageSound, Past, This
<1> QED
  BY <1>2, <1>3, SavedOn DEF Past, This

(* Every step keeps to it. *)
LEMMA AsShownStep ==
    ASSUME GuideTyped, AsShown, GuideStep
    PROVE  AsShown'
<1>1. ASSUME NEW g \in DOMAIN Guide, NEW e \in BOOLEAN, OpenGuide(g, e)
      PROVE  AsShown'
  <2>a. step' = 1 /\ pending = {}
    BY <1>1 DEF OpenGuide, GuideTyped
  <2>b. \/ pending' = pending
        \/ pending' = {[n |-> 1, do |-> "site", to |-> 0, body |-> stored]}
    BY <1>1 DEF OpenGuide, request
  <2>1. step' = 1 /\ \A r \in pending' : r.do = "site" /\ r.to = 0
    BY <2>a, <2>b
  <2>2. ~Saved(G'.steps, 1)
    BY SavedOn, 1 \in 1 .. 7
  <2>3. ~(0 > 0)
    OBVIOUS
  <2> QED
    BY <2>1, <2>2, <2>3 DEF AsShown, Past
<1>2. ASSUME NEW fs, Touches(fs)
      PROVE  AsShown'
  <2>1. /\ guide' = guide /\ G' = G /\ step' = step /\ This' = This /\ AtStep
        /\ pending' = pending
        /\ (odd' = {} => pending = {} /\ odd = {})
        /\ fs # {} /\ fs \subseteq Typing(This) \cup Switches(This)
    BY <1>2, GuideKept DEF Touches, Touch, request
  <2>2. ~Past(step)
    BY <2>1, Places
  <2>3. ~Past(step)'
    BY <2>1, <2>2 DEF Past
  <2> QED
    BY <2>1, <2>3 DEF AsShown
<1>3. ASSUME NEW r \in pending, r.do = "site", GuideAnswered(r)
      PROVE  AsShown'
  <2>a. r.to = 0
    BY <1>3 DEF GuideTyped, RequestOK, Leads
  <2>1. r.to = 0 /\ ~(0 > 0)
    BY <2>a
  <2>2. /\ UNCHANGED fixed /\ UNCHANGED <<stored, step>> /\ pending' \subseteq pending
        /\ (odd' = {} => odd = {} /\ form' = form /\ on' = on)
    BY <1>3, <2>1 DEF GuideAnswered
  <2>3. guide' = guide /\ G' = G
    BY <2>2, GuideKept
  <2>4. odd' = {} => Body' = Body
    BY <2>2, <2>3, BodyKept
  <2> QED
    BY <2>2, <2>3, <2>4 DEF AsShown, Past, AtStep
<1>4. ASSUME UNCHANGED fixed, UNCHANGED <<form, on>>
      PROVE  guide' = guide /\ G' = G /\ Body' = Body
  BY <1>4, GuideKept, BodyKept
<1>5. CASE GoOn
  <2>1. /\ UNCHANGED fixed /\ UNCHANGED <<form, on, pending, stored, odd>>
        /\ step' = step + 1
        /\ AtStep /\ This.then = "next"
    BY <1>5 DEF GoOn, Then, draft, request, server
  <2>2. guide' = guide /\ G' = G /\ Body' = Body
    BY <1>4, <2>1
  <2>3. Past(step)' => Past(step)
    BY <2>1, <2>2, Places DEF Past
  <2> QED
    BY <2>1, <2>2, <2>3 DEF AsShown, Past
<1>6. CASE GoBack
  <2>1. /\ UNCHANGED fixed /\ UNCHANGED <<form, on, stored>> /\ step' = step - This.back
        /\ AtStep /\ pending' \subseteq pending /\ This.back # 0
        /\ (odd' = {} => odd = {} /\ ~(This.back < 0))
    BY <1>6 DEF GoBack, Left, draft, server
  <2>2. guide' = guide /\ G' = G /\ Body' = Body
    BY <1>4, <2>1
  <2>3. This.back \in {-1, 0, 1}
    BY <2>1, PageShown DEF PageTyped
  <2>4. odd' = {} => step' = step - 1
    BY <2>1, <2>3
  <2>5. odd' = {} /\ Past(step)' => Past(step)
    BY <2>1, <2>2, <2>4, Places DEF Past
  <2> QED
    BY <2>1, <2>2, <2>5 DEF AsShown, Past
<1>7. CASE SkipStep
  <2>1. /\ UNCHANGED fixed /\ UNCHANGED <<form, on, pending, stored, odd>> /\ AtStep
        /\ Past(step)
    BY <1>7, Places DEF SkipStep, draft, request, server
  <2>2. guide' = guide /\ G' = G /\ Body' = Body
    BY <1>4, <2>1
  <2> QED
    BY <2>1, <2>2 DEF AsShown, Past
<1>8. ASSUME NEW do, NEW to, Ask(do, to), AtStep, UNCHANGED <<fixed, server, draft, step, odd>>,
             do = "save" \/ to = 0 \/ (Past(to) => Past(step))
      PROVE  AsShown'
  <2>1. PICK r : pending' = pending \cup {r} /\ r.do = do /\ r.to = to /\ r.body = Body
    BY <1>8, Sent
  <2>2. /\ UNCHANGED fixed /\ UNCHANGED <<form, on, stored, step, odd>> /\ ~(0 > 0)
    BY <1>8 DEF draft, server
  <2>3. guide' = guide /\ G' = G /\ Body' = Body
    BY <1>4, <2>2
  <2> QED
    BY <1>8, <2>1, <2>2, <2>3 DEF AsShown, Past, AtStep
<1>9. CASE CheckPath
  <2>1. Past(step + 1) => Past(step)
    BY <1>9, Places DEF CheckPath
  <2> QED
    BY <1>8, <1>9, <2>1 DEF CheckPath
<1>10. CASE SubmitPolicy
  BY <1>8, <1>10 DEF SubmitPolicy
<1>11. CASE PressButton
  <2>1. This.asks \in {"cors", "scf"} => Past(step)
    BY <1>11, Places DEF PressButton
  <2> QED
    BY <1>8, <1>11, <2>1 DEF PressButton
<1>12. CASE LeaveGuide
  <2>1. ~(0 > 0)
    OBVIOUS
  <2> QED
    BY <1>12, <2>1 DEF LeaveGuide, AsShown, AtStep
<1>13. ASSUME NEW r \in pending, GuideFailed(r)
       PROVE  AsShown'
  <2>1. /\ UNCHANGED fixed /\ UNCHANGED <<form, on, step>>
        /\ pending' \subseteq pending
        /\ odd' = {} => /\ odd = {}
                        /\ stored' = stored \/ (r.do = "save" /\ stored' = r.body)
    BY <1>13 DEF GuideFailed, StorePolicy, draft
  <2>2. guide' = guide /\ G' = G /\ Body' = Body
    BY <1>4, <2>1
  <2> QED
    BY <2>1, <2>2 DEF AsShown, Past, AtStep
<1>14. ASSUME NEW r \in pending, GuideAnswered(r), r.do # "site"
       PROVE  AsShown'
  <2>1. /\ UNCHANGED fixed /\ UNCHANGED <<form, on>> /\ pending' \subseteq pending
        /\ odd' = {} => /\ odd = {}
                        /\ IF r.do = "save" THEN stored' = r.body ELSE stored' = stored
        /\ step' = IF r.do = "oauth" THEN 0 ELSE IF r.to > 0 THEN r.to ELSE step
    BY <1>14 DEF GuideAnswered, StorePolicy, Left
  <2>2. guide' = guide /\ G' = G /\ Body' = Body
    BY <1>4, <2>1
  <2>3. CASE r.do = "save"
    BY <2>1, <2>2, <2>3 DEF AsShown
  <2>4. CASE r.do # "save"
    <3>1. ~(0 > 0)
      OBVIOUS
    <3> QED
      BY <2>1, <2>2, <2>4, <3>1 DEF AsShown, Past, AtStep
  <2> QED
    BY <2>3, <2>4
<1>15. CASE UNCHANGED guideVars
  <2>1. UNCHANGED <<guide, form, on, step, stored, pending, odd>>
    BY <1>15 DEF guideVars
  <2>2. Body' = Body
    BY <2>1, BodyKept
  <2> QED
    BY <2>1, <2>2 DEF AsShown, Past, AtStep, G
<1> QED
  BY <1>1, <1>2, <1>3, <1>5, <1>6, <1>7, <1>9, <1>10, <1>11, <1>12, <1>13, <1>14, <1>15,
     EditsTouch DEF GuideStep, GuideNext

(* The pages behind the saving one come up only when the form they are about *)
(* has been saved.                                                           *)
THEOREM SavedShownSafe == GuideSpec => []SavedShown
<1> DEFINE Inv == GuideTyped /\ AsShown
<1>1. GuideInit => Inv
  BY GuideStart DEF GuideInit, AsShown
<1>2. Inv /\ [GuideNext]_guideVars => Inv'
  BY GuideTypedStep, AsShownStep DEF GuideStep
<1>3. Inv => SavedShown
  BY PageShown DEF AsShown, SavedShown, Past, Saved
<1> QED
  BY <1>1, <1>2, <1>3, PTL DEF GuideSpec
-----------------------------------------------------------------------------
(* What is saved is complete *)

\* A node is saved by one request at a time, which leads onward; the guide is left
\* without one.
Ahead ==
    /\ guide = "" => ~loading
    /\ Node(guide) =>
         /\ (AtStep => loading = (pending # {})) /\ (pending # {} => AtStep)
         /\ \A r \in pending : r.do = "save" => r.to > step
         /\ \A r \in pending, q \in pending : r.do = "save" /\ q.do = "save" => r = q

(* What the pages of a node do. *)
LEMMA NodePages ==
    ASSUME GuideTyped, AtStep, Node(guide)
    PROVE  /\ This.then # "check" /\ ~This.skips /\ This.back \in {0, 1}
           /\ This.asks \in {"nothing", "leave", "test"}
           /\ This.back # 0 => This.bare
<1>1. PageTyped(This) /\ NodePage(guide, G.steps, step)
  BY PageShown DEF PageOwn
<1> QED
  BY <1>1 DEF PageTyped, NodePage, This

(* Every step of a node's guide keeps to it. *)
LEMMA AheadStep ==
    ASSUME GuideTyped, Ahead, GuideStep
    PROVE  Ahead'
<1>1. ASSUME NEW g \in DOMAIN Guide, NEW e \in BOOLEAN, OpenGuide(g, e)
      PROVE  Ahead'
  <2>1. guide = "" /\ guide' = g /\ g # "" /\ pending = {} /\ loading' = loading
    BY <1>1 DEF OpenGuide, GuideTyped, Guide
  <2>2. Node(g) => pending' = {}
    BY <1>1, <2>1 DEF OpenGuide, Node, request
  <2>3. loading' = FALSE
    BY <2>1 DEF Ahead, GuideTyped, GuideTypeOK
  <2> QED
    BY <2>1, <2>2, <2>3 DEF Ahead
<1>2. ASSUME guide # "", UNCHANGED fixed, Node(guide) => Ahead'
      PROVE  Ahead'
  BY <1>2 DEF Ahead, fixed
<1>3. AtStep \/ pending # {} => guide # ""
  BY PageShown DEF GuideTyped
<1>4. step \in 0 .. 7 /\ (AtStep => step \in 1 .. 7) /\ loading \in BOOLEAN
  <2>1. step \in 0 .. 7 /\ loading \in BOOLEAN
    BY DEF GuideTyped, GuideTypeOK
  <2> QED
    BY <2>1 DEF AtStep
<1>5. Node(guide) <=> OfNode
  BY DEF Node, OfNode
<1>6. ASSUME NEW fs, Touches(fs)
      PROVE  Ahead'
  BY <1>6 DEF Touches, request, fixed, Ahead, AtStep
<1>7. CASE GoOn
  <2>1. /\ guide # "" /\ UNCHANGED fixed /\ UNCHANGED <<pending, loading>> /\ ~loading
        /\ guide' = guide
    BY <1>3, <1>7 DEF GoOn, request, fixed
  <2>2. Node(guide) => pending = {}
    BY <2>1 DEF Ahead
  <2> QED
    BY <1>4, <2>1, <2>2, <1>2 DEF Ahead
<1>8. CASE GoBack
  <2>1. /\ guide # "" /\ UNCHANGED fixed /\ step' = step - This.back
        /\ pending' \subseteq pending
        /\ AtStep /\ This.back # 0 /\ guide' = guide
        /\ (Node(guide) => loading' = (pending' # {}))
    BY <1>3, <1>5, <1>8 DEF GoBack, Left, Locked, fixed
  <2>2. CASE Node(guide)
    <3>1. step' = step - 1 /\ This.back = 1
      BY <2>1, <2>2, NodePages
    <3>2. step \in 1 .. 7
      BY <1>4, <2>1
    <3>3. step' \in DOMAIN G.steps /\ step' > 0
      <4>1. GuideSound(guide) /\ PageSound(guide, G.steps, step)
        BY <2>1, PageShown, GuidesSound
      <4>2. step' \in DOMAIN G.steps
        BY <2>1, <4>1 DEF PageSound, This
      <4>3. PICK k \in 1 .. 7 : DOMAIN G.steps = 1 .. k
        BY <4>1 DEF GuideSound, G
      <4> QED
        BY <4>2, <4>3
    <3>4. \A r \in pending : r.do = "save" => r.to > step /\ r.to \in 0 .. 7
      <4>1. \A r \in pending : r.to \in {0} \cup DOMAIN G.steps
        BY DEF GuideTyped, RequestOK, Leads
      <4>2. PICK k \in 1 .. 7 : DOMAIN G.steps = 1 .. k
        BY <2>1, PageShown, GuidesSound DEF GuideSound, G
      <4>3. \A r \in pending : r.to \in 0 .. 7
        BY <4>1, <4>2
      <4> QED
        BY <2>2, <4>3 DEF Ahead
    <3>5. \A r \in pending' : r.do = "save" => r.to > step'
      <4>1. \A n \in 0 .. 7 : n > step => n > step - 1
        BY <3>2
      <4> QED
        BY <2>1, <3>1, <3>4, <4>1
    <3> QED
      BY <2>1, <2>2, <3>3, <3>5 DEF Ahead, AtStep
  <2> QED
    BY <1>2, <2>1, <2>2
<1>9. CASE SkipStep
  BY <1>2, <1>3, <1>9, NodePages DEF SkipStep
<1>10. CASE CheckPath
  BY <1>2, <1>3, <1>10, NodePages DEF CheckPath
<1>11. CASE SubmitPolicy
  <2>1. /\ guide # "" /\ UNCHANGED fixed /\ step' = step /\ AtStep /\ ~loading
        /\ guide' = guide
        /\ (Node(guide) => loading' = (pending' # {}) /\ Ask("save", step + 1))
    BY <1>3, <1>5, <1>11 DEF SubmitPolicy, Locked, fixed, Node
  <2>2. CASE Node(guide)
    <3>1. pending = {}
      BY <2>1, <2>2 DEF Ahead
    <3>2. PICK r : pending' = pending \cup {r} /\ r.to = step + 1
      BY <2>1, <2>2, Sent
    <3>3. step + 1 > step
      BY <1>4
    <3> QED
      BY <2>1, <2>2, <3>1, <3>2, <3>3 DEF Ahead, AtStep
  <2> QED
    BY <1>2, <2>1, <2>2
<1>12. CASE PressButton
  <2>1. /\ guide # "" /\ UNCHANGED fixed /\ step' = step /\ AtStep /\ loading' = TRUE
        /\ guide' = guide
    BY <1>3, <1>12 DEF PressButton, fixed
  <2>2. CASE Node(guide)
    <3>1. This.asks = "test"
      BY <1>12, <2>1, <2>2, NodePages DEF PressButton
    <3>2. PICK r : pending' = pending \cup {r} /\ r.do = "test"
      BY <1>12, <3>1, Sent DEF PressButton
    <3> QED
      BY <2>1, <2>2, <3>2 DEF Ahead, AtStep
  <2> QED
    BY <1>2, <2>1, <2>2
<1>13. CASE LeaveGuide
  <2>1. guide # "" /\ UNCHANGED fixed /\ pending' = {} /\ step' = 0 /\ guide' = guide
    BY <1>3, <1>13 DEF LeaveGuide, fixed
  <2>2. ~(0 > 0)
    OBVIOUS
  <2> QED
    BY <2>1, <2>2, <1>2 DEF Ahead, AtStep
<1>14. ASSUME NEW r \in pending, GuideFailed(r)
       PROVE  Ahead'
  <2>1. /\ guide # "" /\ UNCHANGED fixed /\ step' = step /\ pending' \subseteq pending
        /\ guide' = guide
        /\ (Node(guide) => loading' = (pending' # {}))
    BY <1>3, <1>5, <1>14 DEF GuideFailed, Locked, fixed
  <2> QED
    BY <2>1, <1>2 DEF Ahead, AtStep
<1>15. ASSUME NEW r \in pending, GuideAnswered(r)
       PROVE  Ahead'
  <2>1. /\ guide # "" /\ UNCHANGED fixed /\ pending' \subseteq pending \ {r}
        /\ guide' = guide
        /\ (Node(guide) => loading' = (pending' # {}))
        /\ step' = IF r.do = "oauth" THEN 0 ELSE IF r.to > 0 THEN r.to ELSE step
    BY <1>3, <1>5, <1>15 DEF GuideAnswered, Left, Locked, fixed
  <2>2. CASE Node(guide)
    <3>1. /\ r.do \in {"save", "test"} /\ (r.do = "test" => r.to = 0)
          /\ r.to \in {0} \cup DOMAIN G.steps
      BY <2>2 DEF GuideTyped, RequestOK, Leads
    <3>2. r.do = "test" => step' = step
      <4>1. ~(0 > 0)
        OBVIOUS
      <4> QED
        BY <2>1, <3>1, <4>1
    <3>3. r.do = "save" => AtStep' /\ \A q \in pending' : q.do # "save"
      BY <1>4, <2>1, <2>2, <3>1 DEF Ahead, AtStep
    <3> QED
      BY <2>1, <2>2, <3>1, <3>2, <3>3 DEF Ahead, AtStep
  <2> QED
    BY <1>2, <2>1, <2>2
<1>16. CASE UNCHANGED guideVars
  BY <1>16 DEF guideVars, Ahead, AtStep
<1> QED
  BY <1>1, <1>6, <1>7, <1>8, <1>9, <1>10, <1>11, <1>12, <1>13, <1>14, <1>15, <1>16,
     EditsTouch DEF GuideStep, GuideNext

\* A local policy is past its first page, or on its way, only with a tested path.
PathTested ==
    guide = "local" /\ "edited" \notin odd
      /\ (step > 1 \/ \E r \in pending : r.to > 1 /\ r.do # "check") => tested

(* What the pages of a local policy do. *)
LEMMA LocalPages ==
    ASSUME GuideTyped, AtStep, guide = "local"
    PROVE  /\ step \in 1 .. 7 /\ (This.then = "check" <=> step = 1)
           /\ step > 1 => "DirNameRule" \notin Typing(This) \cup Switches(This)
           /\ ~This.skips /\ This.back \in {0, 1} /\ This.asks \in {"nothing", "leave"}
<1>1. PageTyped(This) /\ LocalPage(G.steps, step)
  BY PageShown DEF PageOwn
<1>2. "DirNameRule" \notin Switches(This)
  BY DEF Switches, Toggles
<1> QED
  BY <1>1, <1>2, Places DEF PageTyped, LocalPage, This

(* Every step keeps to it. *)
LEMMA PathTestedStep ==
    ASSUME GuideTyped, PathTested, GuideStep
    PROVE  PathTested'
<1>1. ASSUME NEW g \in DOMAIN Guide, NEW e \in BOOLEAN, OpenGuide(g, e)
      PROVE  PathTested'
  <2>1. guide' = g /\ step' = 1 /\ pending = {}
    BY <1>1 DEF OpenGuide, GuideTyped
  <2>2. g = "local" => pending' = {}
    BY <1>1, <2>1 DEF OpenGuide, request
  <2>3. ~(1 > 1)
    OBVIOUS
  <2> QED
    BY <2>1, <2>2, <2>3 DEF PathTested
<1>2. ASSUME guide' = guide, odd \subseteq odd', tested' = tested,
             guide = "local" => step' = step,
             \A r \in pending' : r \in pending \/ r.do = "check" \/ r.to = 0
      PROVE  PathTested'
  <2>1. ~(0 > 1)
    OBVIOUS
  <2> QED
    BY <1>2, <2>1 DEF PathTested
<1>3. ASSUME NEW fs, Touches(fs)
      PROVE  PathTested'
  <2>1. /\ guide' = guide /\ step' = step /\ pending' = pending /\ AtStep
        /\ ("edited" \notin odd' => pending = {} /\ "edited" \notin odd)
        /\ tested' = (tested /\ "DirNameRule" \notin fs)
        /\ fs \subseteq Typing(This) \cup Switches(This)
    BY <1>3 DEF Touches, Touch, fixed, request
  <2> QED
    BY <2>1, LocalPages DEF PathTested
<1>4. CASE GoOn
  <2>1. /\ guide' = guide /\ UNCHANGED <<pending, odd, tested>> /\ AtStep
        /\ This.then = "next"
    BY <1>4 DEF GoOn, Then, fixed, request, draft
  <2>2. guide = "local" => step > 1
    BY <2>1, LocalPages
  <2> QED
    BY <2>1, <2>2 DEF PathTested
<1>5. CASE GoBack
  <2>1. /\ guide' = guide /\ step' = step - This.back /\ pending' \subseteq pending
        /\ tested' = tested /\ odd \subseteq odd' /\ AtStep
    BY <1>5 DEF GoBack, Left, fixed, draft
  <2>2. guide = "local" /\ step' > 1 => step > 1
    BY <2>1, LocalPages
  <2> QED
    BY <2>1, <2>2 DEF PathTested
<1>6. CASE SkipStep
  <2>1. /\ guide' = guide /\ UNCHANGED <<pending, odd, tested>> /\ guide # "local"
    BY <1>6, LocalPages DEF SkipStep, fixed, request, draft
  <2> QED
    BY <2>1 DEF PathTested
<1>7. CASE CheckPath
  <2>1. /\ guide' = guide /\ UNCHANGED <<step, odd, tested>> /\ Ask("check", step + 1)
    BY <1>7 DEF CheckPath, fixed, draft
  <2> QED
    BY <1>2, <2>1, Sent
<1>8. CASE SubmitPolicy
  <2>1. /\ guide' = guide /\ UNCHANGED <<step, odd, tested>> /\ AtStep /\ Then = "save"
    BY <1>8 DEF SubmitPolicy, fixed, draft
  <2>2. guide = "local" => This.then = "save" /\ step > 1
    BY <2>1, LocalPages DEF Then, OfNode
  <2> QED
    BY <2>1, <2>2 DEF PathTested
<1>9. CASE PressButton
  <2>1. /\ guide' = guide /\ guide # "local"
    BY <1>9, LocalPages DEF PressButton, fixed
  <2> QED
    BY <2>1 DEF PathTested
<1>10. CASE LeaveGuide
  <2>1. ~(0 > 1)
    OBVIOUS
  <2> QED
    BY <1>10, <2>1 DEF LeaveGuide, PathTested
<1>11. ASSUME NEW r \in pending, GuideFailed(r)
       PROVE  PathTested'
  BY <1>2, <1>11 DEF GuideFailed, StorePolicy, fixed, draft
<1>12. ASSUME NEW r \in pending, GuideAnswered(r)
       PROVE  PathTested'
  <2>1. /\ guide' = guide /\ pending' \subseteq pending /\ odd \subseteq odd'
        /\ tested' = (tested \/ r.do = "check")
        /\ step' = IF r.do = "oauth" THEN 0 ELSE IF r.to > 0 THEN r.to ELSE step
    BY <1>12 DEF GuideAnswered, StorePolicy, Left, fixed
  <2>2. ~(0 > 1)
    OBVIOUS
  <2> QED
    BY <2>1, <2>2 DEF PathTested
<1>13. CASE UNCHANGED guideVars
  BY <1>13 DEF guideVars, PathTested
<1> QED
  BY <1>1, <1>3, <1>4, <1>5, <1>6, <1>7, <1>8, <1>9, <1>10, <1>11, <1>12, <1>13,
     EditsTouch DEF GuideStep, GuideNext

PageDone(n) == G.steps[n].bare \/ \A f \in Needs(G.steps[n], on) : form[f] # ""
PolicyComplete(p) ==
    \A n \in DOMAIN G.steps :
        \A f \in Needs(G.steps[n], p.on) : G.steps[n].bare \/ p.fields[f] # ""
Excused == "wiped" \in odd \/ "trimmed" \in odd \/ (guide \in {"local", "node"} /\ "edited" \in odd)

\* The pages that have been passed are filled in, or those that a request leads past;
\* all others when a node is edited; and so is what is sent and stored.
Complete ==
    guide # "" /\ ~Excused =>
        /\ AtStep /\ ~Past(step) => \A n \in 1 .. step - 1 : PageDone(n)
        /\ \A r \in pending : r.to > 0 /\ ~Past(r.to) => \A n \in 1 .. r.to - 1 : PageDone(n)
        /\ \A r \in pending : r.do = "save" => PolicyComplete(r.body)
        /\ known => PolicyComplete(stored)
        /\ AtStep /\ ~Past(step) /\ Node(guide) /\ editing =>
             \A n \in DOMAIN G.steps \ {step} : PageDone(n)

(* Nothing that submitting clears is asked for by a page. *)
LEMMA BodyComplete ==
    ASSUME GuideTyped, AtStep, \A n \in DOMAIN G.steps : PageDone(n)
    PROVE  PolicyComplete(Body)
<1> SUFFICES ASSUME NEW n \in DOMAIN G.steps, NEW f \in Needs(G.steps[n], on), ~G.steps[n].bare
             PROVE  Body.fields[f] # ""
  BY BodyTyped DEF PolicyComplete
<1> DEFINE p == G.steps[n]
<1>1. GuideSound(guide)
  BY PageShown, GuidesSound
<1>2. PageTyped(p) /\ Spares(G.drops, p)
  BY <1>1 DEF GuideSound, G
<1>3. form[f] # ""
  BY DEF PageDone
<1> HIDE DEF p
<1>4. f \in Needs(p, on)
  BY DEF p
<1>5. f \in Fields
  BY <1>2, <1>4 DEF PageTyped, Typing, Inputs, Needs
<1>7. f # "tps_limit"
  BY <1>2, <1>4 DEF PageTyped, Inputs, Needs
<1>6. ~Dropped(f)
  <2> SUFFICES ASSUME NEW t \in DOMAIN G.drops, G.drops[t] = f, ~Shows(t, on)
               PROVE  FALSE
    BY DEF Dropped
  <2>1. f \notin p.must
    BY <1>2 DEF Spares
  <2>2. PICK u \in DOMAIN p.when : Shows(u, on) /\ p.when[u] = f
    BY <1>4, <2>1 DEF Needs
  <2> QED
    BY <1>2, <2>2 DEF Spares
<1>8. CASE Derived(f)
  <2>1. Body.fields[f] = "derived"
    BY <1>5, <1>6, <1>8, BodyTyped
  <2> QED
    BY <2>1
<1>9. CASE ~Derived(f)
  BY <1>3, <1>5, <1>6, <1>7, <1>9, BodyTyped DEF Cut
<1> QED
  BY <1>8, <1>9

(* A page behind the saving one has nothing to be filled in. *)
LEMMA PastDone ==
    ASSUME GuideTyped, AtStep, NEW n \in DOMAIN G.steps, Past(n)
    PROVE  PageDone(n)
<1>1. PageSound(guide, G.steps, n)
  BY PageShown, GuidesSound DEF GuideSound, G
<1>2. Typing(G.steps[n]) = {}
  BY <1>1 DEF PageSound, Past
<1>3. Needs(G.steps[n], on) = {}
  BY <1>2 DEF Typing, Inputs, Needs
<1> QED
  BY <1>3 DEF PageDone

(* The pages one after the other. *)
LEMMA Order ==
    ASSUME GuideTyped, AtStep
    PROVE  /\ \A n \in DOMAIN G.steps :
                n \in 1 .. step - 1 \/ n = step \/ (Past(step + 1) => Past(n))
           /\ 1 .. (step + 1) - 1 = (1 .. step - 1) \cup {step}
           /\ 1 .. (step - 1) - 1 \subseteq 1 .. step - 1
           /\ 1 .. 1 - 1 = {}
<1>1. step \in 1 .. 7
  BY Places
<1>2. PICK k \in 1 .. 7 : DOMAIN G.steps = 1 .. k
  BY PageShown, GuidesSound DEF GuideSound, G
<1>3. \A n \in 1 .. k : \/ n \in 1 .. step - 1 \/ n = step
                        \/ \A m \in 1 .. (step + 1) - 1 : m \in 1 .. n - 1
  BY <1>1, <1>2
<1>4. \A n \in 1 .. k : n \in 1 .. step - 1 \/ n = step \/ (Past(step + 1) => Past(n))
  BY <1>3 DEF Past, Saved
<1>5. /\ 1 .. (step + 1) - 1 = (1 .. step - 1) \cup {step}
      /\ 1 .. (step - 1) - 1 \subseteq 1 .. step - 1
      /\ 1 .. 1 - 1 = {}
  BY <1>1
<1> QED
  BY <1>2, <1>4, <1>5

(* What is submitted is complete. *)
LEMMA SubmitComplete ==
    ASSUME GuideTyped, Complete, ~Excused, AtStep, Filled, Then = "save"
    PROVE  /\ ~Past(step) /\ PageDone(step) /\ \A n \in 1 .. step - 1 : PageDone(n)
           /\ PolicyComplete(Body)
<1>1. guide # "" /\ step \in DOMAIN G.steps
  BY PageShown
<1>2. This.then = "save" \/ (Node(guide) /\ editing /\ This.then = "next")
  BY DEF Then, OfNode, Node
<1>3. ~Past(step) /\ (This.then = "save" => Past(step + 1))
  BY <1>2, Places
<1>4. PageDone(step)
  BY DEF Filled, Required, PageDone, This
<1>5. \A n \in 1 .. step - 1 : PageDone(n)
  BY <1>1, <1>3 DEF Complete
<1>6. \A n \in DOMAIN G.steps : PageDone(n)
  <2>1. CASE This.then = "save"
    BY <1>3, <1>4, <1>5, <2>1, Order, PastDone
  <2>2. CASE Node(guide) /\ editing
    BY <1>1, <1>3, <1>4, <2>2 DEF Complete
  <2> QED
    BY <1>2, <2>1, <2>2
<1> QED
  BY <1>3, <1>4, <1>5, <1>6, BodyComplete

(* What is changed on a page leaves the others filled in. *)
LEMMA TouchSpares ==
    ASSUME GuideTyped, NEW fs, Touches(fs), NEW n \in DOMAIN G.steps, n # step, PageDone(n)
    PROVE  PageDone(n)'
<1> DEFINE p == G.steps[n]
<1>1. /\ guide' = guide /\ G' = G /\ AtStep
      /\ fs \subseteq Typing(This) \cup Switches(This)
      /\ \A t \in Toggles \ fs : t \in on' <=> t \in on
      /\ \A f \in Fields \ fs :
           form'[f] = form[f] \/ (f = "BaseURL" /\ Own(guide) /\ "useCDN" \in fs)
  BY GuideKept DEF Touches
<1>2. GuideSound(guide) /\ step \in DOMAIN G.steps /\ PageTyped(This)
      /\ PageOwn(guide, G.steps, step)
  BY <1>1, PageShown, GuidesSound
<1>3. Apart(p, This) \/ Apart(This, p)
  <2>1. PICK k \in 1 .. 7 : DOMAIN G.steps = 1 .. k
    BY <1>2 DEF GuideSound, G
  <2>2. n < step \/ step < n
    BY <1>2, <2>1
  <2> QED
    BY <1>2, <2>2 DEF GuideSound, This, G
<1>4. PageTyped(p) /\ PageOwn(guide, G.steps, n) /\ p' = p
  BY <1>1, <1>2 DEF GuideSound, G
<1> HIDE DEF p
<1>5. /\ Typing(p) \cap Typing(This) = {} /\ Switches(p) \cap Switches(This) = {}
  BY <1>3 DEF Apart
<1>6. /\ Typing(p) \subseteq Fields /\ Typing(This) \subseteq Fields
      /\ Switches(p) \subseteq Toggles /\ Switches(This) \subseteq Toggles
      /\ Fields \cap Toggles = {}
  <2>1. Fields \cap Toggles = {}
    BY DEF Fields, Toggles
  <2> QED
    BY <1>2, <1>4, <2>1 DEF PageTyped, Switches
<1>7. \A t \in Switches(p) : t \in on' <=> t \in on
  BY <1>1, <1>5, <1>6
<1>8. \A f \in Typing(p) : form'[f] = form[f]
  <2> SUFFICES ASSUME NEW f \in Typing(p), f = "BaseURL" /\ Own(guide) /\ "useCDN" \in fs
               PROVE  FALSE
    BY <1>1, <1>5, <1>6
  <2>1. "useCDN" \in Switches(This)
    BY <1>1, <1>6 DEF Toggles
  <2>2. "BaseURL" \in Typing(This)
    BY <1>2, <2>1 DEF PageOwn, This
  <2> QED
    BY <1>5, <2>2
<1>9. \A t \in DOMAIN p.when : Shows(t, on)' <=> Shows(t, on)
  <2> SUFFICES ASSUME NEW t \in DOMAIN p.when
               PROVE  Shows(t, on)' <=> Shows(t, on)
    OBVIOUS
  <2>1. t \in Switches(p)
    BY <1>4 DEF PageTyped
  <2>2. guide \in {"local", "remote"} /\ t = "useCDN" => "IsOriginLinkEnable" \in Switches(p)
    BY <1>4, <2>1 DEF PageOwn, Own, p
  <2> QED
    BY <1>1, <1>7, <2>1, <2>2 DEF Shows
<1>10. Needs(p, on)' = Needs(p, on)
  BY <1>4, <1>9 DEF Needs
<1>11. Needs(p, on) \subseteq Typing(p)
  BY DEF Needs, Typing, Inputs
<1> QED
  BY <1>1, <1>8, <1>10, <1>11 DEF PageDone, p

\* The form is left alone ...
SameForm == UNCHANGED fixed /\ UNCHANGED <<form, on>> /\ odd \subseteq odd'
(* ... and what is done of it stays done. *)
LEMMA SameDone ==
    ASSUME SameForm
    PROVE  /\ guide' = guide /\ editing' = editing /\ G' = G /\ (~Excused' => ~Excused)
           /\ \A n : PageDone(n)' <=> PageDone(n)
           /\ \A p : PolicyComplete(p)' <=> PolicyComplete(p)
           /\ \A s : Past(s)' <=> Past(s)
<1>1. guide' = guide /\ editing' = editing /\ G' = G
  BY GuideKept DEF SameForm
<1> QED
  BY <1>1 DEF SameForm, Excused, PageDone, PolicyComplete, Needs, Shows, Past

(* With nothing new sent, stored or shown. *)
LEMMA CompleteStays ==
    ASSUME Complete, SameForm, guide # "", pending' \subseteq pending, step' = step,
           known' /\ PolicyComplete(stored) => PolicyComplete(stored'),
           known' => known
    PROVE  Complete'
<1>1. /\ guide' = guide /\ editing' = editing /\ G' = G /\ (~Excused' => ~Excused)
      /\ \A n : PageDone(n)' <=> PageDone(n)
      /\ \A p : PolicyComplete(p)' <=> PolicyComplete(p)
      /\ \A s : Past(s)' <=> Past(s)
  BY SameDone
<1>2. AtStep' <=> AtStep
  BY DEF AtStep
<1> QED
  BY <1>1, <1>2 DEF Complete

(* A guide that is opened has stored nothing, or all of what it edits. *)
LEMMA OpenComplete ==
    ASSUME GuideTyped, NEW g \in DOMAIN Guide, NEW e \in BOOLEAN, OpenGuide(g, e)
    PROVE  Complete'
<1>1. guide' = g /\ step' = 1 /\ known' = e /\ editing' = e /\ g # "" /\ pending = {}
  BY DEF OpenGuide, GuideTyped, Guide
<1>2. GuideSound(g) /\ G' = Guide[g]
  BY <1>1, GuidesSound DEF G
<1>3. \A r \in pending' : r.to = 0 /\ r.do = "site"
  <2>1. \/ pending' = pending
        \/ pending' = {[n |-> 1, do |-> "site", to |-> 0, body |-> stored]}
    BY DEF OpenGuide, request
  <2>2. pending = {}
    BY <1>1
  <2> QED
    BY <2>1, <2>2
<1>4. 1 .. 1 - 1 = {} /\ ~(0 > 0)
  OBVIOUS
<1>6. \A n \in DOMAIN G'.steps : PageTyped(G'.steps[n])
  BY <1>2 DEF GuideSound
<1>7. e => (\A n \in DOMAIN G.steps : PageDone(n))'
  <2> SUFFICES ASSUME e, NEW n \in DOMAIN G'.steps, NEW f \in Needs(G.steps[n], on)'
               PROVE  form'[f] # ""
    BY DEF PageDone
  <2>1. f \in Fields
    BY <1>6 DEF PageTyped, Typing, Inputs, Needs
  <2> QED
    BY <2>1 DEF OpenGuide
<1>8. e => stored'.fields = form' /\ stored'.on = on'
  BY DEF OpenGuide
<1>9. e => PolicyComplete(stored)'
  <2> SUFFICES ASSUME e, NEW n \in DOMAIN G'.steps, NEW f \in Needs(G.steps[n], stored.on)'
               PROVE  stored'.fields[f] # ""
    BY DEF PolicyComplete
  <2>1. f \in Fields
    BY <1>6 DEF PageTyped, Typing, Inputs, Needs
  <2> QED
    BY <1>8, <2>1 DEF OpenGuide
<1>10. (AtStep => \A n \in 1 .. step - 1 : PageDone(n))'
  BY <1>1, <1>4
<1> QED
  BY <1>1, <1>3, <1>4, <1>7, <1>9, <1>10 DEF Complete

(* An edit leaves the passed pages as they were. *)
LEMMA TouchComplete ==
    ASSUME GuideTyped, Complete, NEW fs, Touches(fs)
    PROVE  Complete'
<1>1. /\ guide' = guide /\ editing' = editing /\ G' = G /\ step' = step
      /\ This' = This /\ AtStep
      /\ UNCHANGED <<known, stored, pending>> /\ odd \subseteq odd'
      /\ (pending # {} => "edited" \in odd')
      /\ fs # {} /\ fs \subseteq Typing(This) \cup Switches(This)
  BY GuideKept DEF Touches, Touch, request, server
<1>2. ~Past(step) /\ guide # "" /\ guide \in DOMAIN Guide
  BY <1>1, Places, PageShown
<1>3. PICK k \in 1 .. 7 : DOMAIN G.steps = 1 .. k
  BY <1>2, GuidesSound DEF GuideSound, G
<1>4. step \in 1 .. k
  BY <1>1, <1>3, PageShown
<1>5. \A n \in 1 .. step - 1 : n \in DOMAIN G.steps /\ n # step
  BY <1>3, <1>4
<1>6. ~Excused' => ~Excused
  BY <1>1 DEF Excused
<1>7. \A p : PolicyComplete(p)' <=> PolicyComplete(p)
  BY <1>1 DEF PolicyComplete, Needs, Shows
<1>8. \A s : Past(s)' <=> Past(s)
  BY <1>1 DEF Past
<1>9. \A n \in DOMAIN G.steps : n # step /\ PageDone(n) => PageDone(n)'
  BY TouchSpares
<1>10. ASSUME ~Excused', NEW r \in pending, r.to > 0, ~Past(r.to), NEW n \in 1 .. r.to - 1
       PROVE  PageDone(n)'
  <2>1. RequestOK(r) /\ guide \notin {"local", "node"}
    BY <1>1, <1>10 DEF GuideTyped, Excused
  <2>2. \/ guide = "pro" /\ r.to = 1
        \/ guide = "master"
    BY <1>10, <2>1 DEF RequestOK, Leads, Past, Node
  <2>3. r.to \in 1 .. k
    BY <1>3, <1>10, <2>1 DEF RequestOK, Leads
  <2>4. guide = "master"
    BY <1>10, <2>2
  <2>5. NodePage("master", G.steps, r.to) /\ NodePage("master", G.steps, 1)
    <3>1. 1 \in DOMAIN G.steps /\ r.to \in DOMAIN G.steps
      BY <1>3, <2>3
    <3> QED
      BY <1>2, <2>4, <3>1, GuidesSound DEF GuideSound, PageOwn, Node, G
  <2>6. ~(r.to > 2)
    BY <1>10, <2>5 DEF NodePage, Past
  <2>7. n = 1
    BY <1>10, <2>3, <2>6
  <2> QED
    BY <1>1, <2>5, <2>7 DEF NodePage, PageDone
<1>11. (AtStep' <=> AtStep) /\ (Node(guide)' <=> Node(guide))
  BY <1>1 DEF AtStep
<1> QED
  BY <1>1, <1>2, <1>5, <1>6, <1>7, <1>8, <1>9, <1>10, <1>11 DEF Complete

(* A request that is sent has the passed pages behind it. *)
LEMMA AskComplete ==
    ASSUME GuideTyped, Complete, NEW do, NEW to, Ask(do, to), AtStep,
           UNCHANGED <<fixed, server, draft, step, odd>>,
           ~Excused /\ to > 0 /\ ~Past(to) => \A n \in 1 .. to - 1 : PageDone(n),
           ~Excused /\ do = "save" => PolicyComplete(Body)
    PROVE  Complete'
<1>1. /\ SameForm /\ guide # "" /\ UNCHANGED <<known, stored, step>>
  BY PageShown DEF SameForm, draft, server
<1>2. /\ guide' = guide /\ editing' = editing /\ G' = G /\ (~Excused' => ~Excused)
      /\ \A n : PageDone(n)' <=> PageDone(n)
      /\ \A p : PolicyComplete(p)' <=> PolicyComplete(p)
      /\ \A s : Past(s)' <=> Past(s)
  BY <1>1, SameDone
<1>3. PICK r : pending' = pending \cup {r} /\ r.do = do /\ r.to = to /\ r.body = Body
  BY Sent
<1>4. AtStep' <=> AtStep
  BY <1>1 DEF AtStep
<1> QED
  BY <1>1, <1>2, <1>3, <1>4 DEF Complete

(* An answer leads to where all pages before are filled in. *)
LEMMA AnswerComplete ==
    ASSUME GuideTyped, Ahead, Complete, NEW r \in pending, GuideAnswered(r), r.do # "site"
    PROVE  Complete'
<1>1. /\ SameForm /\ guide # "" /\ pending' \subseteq pending /\ known' = (known \/ r.do = "save")
      /\ ~Excused' => stored' = (IF r.do = "save" THEN r.body ELSE stored)
      /\ step' = IF r.do = "oauth" THEN 0 ELSE IF r.to > 0 THEN r.to ELSE step
  BY PageShown DEF GuideTyped, GuideAnswered, StorePolicy, SameForm, Left, Excused
<1>2. /\ guide' = guide /\ editing' = editing /\ G' = G /\ (~Excused' => ~Excused)
      /\ \A n : PageDone(n)' <=> PageDone(n)
      /\ \A p : PolicyComplete(p)' <=> PolicyComplete(p)
      /\ \A s : Past(s)' <=> Past(s)
  BY <1>1, SameDone
<1>3. ~Excused' /\ known' => PolicyComplete(stored')
  BY <1>1, <1>2 DEF Complete
<1>a. ~(0 > 0)
  OBVIOUS
<1>4. RequestOK(r) /\ ~(0 > 0)
  BY <1>a DEF GuideTyped
<1>5. CASE r.do = "oauth"
  BY <1>1, <1>2, <1>3, <1>4, <1>5 DEF Complete, AtStep
<1>6. CASE r.do # "oauth" /\ ~(r.to > 0)
  BY <1>1, <1>2, <1>3, <1>6 DEF Complete, AtStep
<1>7. CASE r.do # "oauth" /\ r.to > 0
  <2>1. step' = r.to
    BY <1>1, <1>7
  <2>2. ASSUME ~Excused, ~Past(r.to), Node(guide), editing,
               NEW n \in DOMAIN G.steps, n # r.to
        PROVE  PageDone(n)
    <3>1. AtStep /\ r.to > step
      BY <1>4, <1>7, <2>2 DEF Ahead, RequestOK, Leads
    <3>2. PICK k \in 1 .. 7 : DOMAIN G.steps = 1 .. k
      BY <3>1, PageShown, GuidesSound DEF GuideSound, G
    <3>3. step \in 1 .. k /\ r.to \in 1 .. k
      BY <1>4, <1>7, <3>1, <3>2, PageShown DEF RequestOK, Leads
    <3>4. step \in 1 .. r.to - 1 /\ 1 .. step - 1 \subseteq 1 .. r.to - 1
      BY <3>1, <3>3
    <3>5. ~Past(step)
      BY <2>2, <3>4 DEF Past, Saved
    <3>6. PageDone(step)
      BY <1>1, <1>7, <2>2, <3>4 DEF Complete
    <3>7. n # step => PageDone(n)
      BY <1>1, <2>2, <3>1, <3>5 DEF Complete
    <3> QED
      BY <3>6, <3>7
  <2>3. Node(guide)' <=> Node(guide)
    BY <1>2
  <2>4. ~Excused' /\ ~Past(r.to) => \A n \in 1 .. r.to - 1 : PageDone(n)
    BY <1>1, <1>2, <1>7 DEF Complete
  <2>5. ~Excused' => /\ \A q \in pending' :
                          q.to > 0 /\ ~Past(q.to) => \A n \in 1 .. q.to - 1 : PageDone(n)
                     /\ \A q \in pending' : q.do = "save" => PolicyComplete(q.body)
    BY <1>1, <1>2 DEF Complete
  <2> QED
    BY <1>2, <1>3, <2>1, <2>2, <2>3, <2>4, <2>5 DEF Complete
<1> QED
  BY <1>5, <1>6, <1>7

(* Every step keeps to it. *)
LEMMA CompleteStep ==
    ASSUME GuideTyped, Ahead, Complete, GuideStep
    PROVE  Complete'
<1>1. AtStep \/ pending # {} => guide # ""
  BY PageShown DEF GuideTyped
<1>2. CASE GoOn
  <2>1. /\ SameForm /\ guide # "" /\ UNCHANGED <<known, stored, pending>>
        /\ step' = step + 1
        /\ AtStep /\ Filled /\ Then = "next"
    BY <1>1, <1>2 DEF GoOn, SameForm, draft, request, server
  <2>2. /\ guide' = guide /\ editing' = editing /\ G' = G /\ (~Excused' => ~Excused)
        /\ \A n : PageDone(n)' <=> PageDone(n)
        /\ \A p : PolicyComplete(p)' <=> PolicyComplete(p)
        /\ \A s : Past(s)' <=> Past(s)
    BY <2>1, SameDone
  <2>3. This.then = "next" /\ ~(Node(guide) /\ editing)
    BY <2>1 DEF Then, OfNode, Node
  <2>4. ~Past(step) /\ PageDone(step)
    BY <2>1, <2>3, Places DEF Filled, Required, PageDone, This
  <2>5. ~Excused' => \A n \in 1 .. (step + 1) - 1 : PageDone(n)
    BY <2>1, <2>2, <2>4, Order DEF Complete
  <2>6. Node(guide)' <=> Node(guide)
    BY <2>2
  <2> QED
    BY <2>1, <2>2, <2>3, <2>5, <2>6 DEF Complete
<1>3. CASE GoBack
  <2>1. /\ SameForm /\ guide # "" /\ UNCHANGED <<known, stored>>
        /\ step' = step - This.back
        /\ AtStep /\ This.back # 0 /\ pending' \subseteq pending
    BY <1>1, <1>3 DEF GoBack, Left, SameForm, draft, server
  <2>2. /\ guide' = guide /\ editing' = editing /\ G' = G /\ (~Excused' => ~Excused)
        /\ \A n : PageDone(n)' <=> PageDone(n)
        /\ \A p : PolicyComplete(p)' <=> PolicyComplete(p)
        /\ \A s : Past(s)' <=> Past(s)
    BY <2>1, SameDone
  <2>3. ~Past(step) /\ step \in 1 .. 7 /\ PageTyped(This) /\ PageSound(guide, G.steps, step)
    BY <2>1, Places, PageShown
  <2>a. This.back \in {-1, 1} /\ (This.back < 0 => This.then = "save")
    BY <2>1, <2>3 DEF PageTyped, PageSound, This
  <2>4. This.back = 1 \/ (This.back = -1 /\ This.then = "save")
    BY <2>a
  <2>5. ~Past(step') => This.back = 1 /\ step' = step - 1
    <3>1. CASE This.back = 1
      BY <2>1, <3>1
    <3>2. CASE This.back = -1 /\ This.then = "save"
      <4>1. step' = step + 1
        <5>1. step' = step - (-1) /\ step \in 1 .. 7
          BY <2>1, <2>3, <3>2
        <5> QED
          BY <5>1
      <4> QED
        BY <2>1, <3>2, <4>1, Places
    <3> QED
      BY <2>4, <3>1, <3>2
  <2>6. ~Excused' /\ ~Past(step') => \A n \in 1 .. step' - 1 : PageDone(n)
    BY <2>1, <2>2, <2>3, <2>5, Order DEF Complete
  <2>7. Node(guide) => PageDone(step)
    BY <2>1, NodePages DEF PageDone, This
  <2>8. (Node(guide)' <=> Node(guide)) /\ AtStep
    BY <2>1, <2>2
  <2> QED
    BY <2>1, <2>2, <2>3, <2>6, <2>7, <2>8 DEF Complete
<1>4. CASE SkipStep
  <2>1. /\ SameForm /\ guide # "" /\ UNCHANGED <<known, stored, pending>>
        /\ step' = step + 1
        /\ Past(step + 1)
    BY <1>1, <1>4, Places DEF SkipStep, SameForm, draft, request, server
  <2>2. /\ guide' = guide /\ editing' = editing /\ G' = G /\ (~Excused' => ~Excused)
        /\ \A n : PageDone(n)' <=> PageDone(n)
        /\ \A p : PolicyComplete(p)' <=> PolicyComplete(p)
        /\ \A s : Past(s)' <=> Past(s)
    BY <2>1, SameDone
  <2> QED
    BY <2>1, <2>2 DEF Complete
<1>5. CASE CheckPath
  <2>1. AtStep /\ guide # "" /\ Filled /\ This.then = "check" /\ Ask("check", step + 1)
    BY <1>1, <1>5 DEF CheckPath
  <2>2. ~Past(step) /\ PageDone(step)
    BY <2>1, Places DEF Filled, Required, PageDone, This
  <2>3. ~Excused => \A n \in 1 .. (step + 1) - 1 : PageDone(n)
    BY <2>1, <2>2, Order DEF Complete
  <2> QED
    BY <1>5, <2>1, <2>3, AskComplete DEF CheckPath
<1>6. CASE SubmitPolicy
  <2> DEFINE to == IF guide = "pro" THEN step ELSE step + 1
  <2>1. AtStep /\ Filled /\ Then = "save" /\ Ask("save", to)
        /\ UNCHANGED <<fixed, server, draft, step, odd>>
    BY <1>6 DEF SubmitPolicy
  <2>2. ~Excused => PolicyComplete(Body) /\ \A n \in 1 .. (step + 1) - 1 : PageDone(n)
    BY <2>1, SubmitComplete, Order
  <2>3. ~Excused => \A n \in 1 .. step - 1 : PageDone(n)
    BY <2>1, SubmitComplete
  <2>4. ~Excused => \A n \in 1 .. to - 1 : PageDone(n)
    BY <2>2, <2>3
  <2> HIDE DEF to
  <2> QED
    BY <2>1, <2>2, <2>4, AskComplete
<1>7. CASE PressButton
  <2>1. AtStep /\ UNCHANGED <<fixed, server, draft, step, odd>> /\ ~(0 > 0)
    BY <1>7 DEF PressButton
  <2>2. This.asks \in {"cors", "scf"} => Past(step + 1)
    BY <2>1, Places
  <2>3. This.asks # "save"
    BY <2>1, PageShown DEF PageTyped
  <2> DEFINE to == IF This.asks \in {"cors", "scf"} THEN step + 1 ELSE 0
  <2>4. Ask(This.asks, to)
    BY <1>7 DEF PressButton
  <2>5. ~(to > 0) \/ Past(to)
    BY <2>1, <2>2
  <2> HIDE DEF to
  <2> QED
    BY <2>1, <2>3, <2>4, <2>5, AskComplete
<1>8. CASE LeaveGuide
  <2>1. /\ SameForm /\ guide # "" /\ UNCHANGED <<known, stored>> /\ step' = 0
        /\ pending' = {}
    BY <1>1, <1>8 DEF LeaveGuide, SameForm, draft, server
  <2>2. (~Excused' => ~Excused) /\ \A p : PolicyComplete(p)' <=> PolicyComplete(p)
    BY <2>1, SameDone
  <2>3. ~(0 > 0)
    OBVIOUS
  <2> QED
    BY <2>1, <2>2, <2>3 DEF Complete, AtStep
<1>9. ASSUME NEW r \in pending, GuideFailed(r)
      PROVE  Complete'
  <2>1. /\ SameForm /\ guide # "" /\ UNCHANGED <<known, step>>
        /\ pending' \subseteq pending
        /\ ~Excused' => stored' = stored \/ (r.do = "save" /\ stored' = r.body)
    BY <1>1, <1>9 DEF GuideFailed, StorePolicy, SameForm, draft, Excused
  <2>2. /\ guide' = guide /\ editing' = editing /\ G' = G /\ (~Excused' => ~Excused)
        /\ \A n : PageDone(n)' <=> PageDone(n)
        /\ \A p : PolicyComplete(p)' <=> PolicyComplete(p)
        /\ \A s : Past(s)' <=> Past(s)
    BY <2>1, SameDone
  <2>3. (Node(guide)' <=> Node(guide)) /\ (AtStep' <=> AtStep)
    BY <2>1, <2>2 DEF AtStep
  <2> QED
    BY <2>1, <2>2, <2>3 DEF Complete
<1>10. ASSUME NEW r \in pending, GuideAnswered(r), r.do = "site"
       PROVE  Complete'
  <2>1. r.to = 0 /\ guide # ""
    BY <1>1, <1>10 DEF GuideTyped, RequestOK, Leads
  <2>2. /\ UNCHANGED fixed /\ UNCHANGED stored /\ pending' \subseteq pending
        /\ odd \subseteq odd'
        /\ (known' => known) /\ ("wiped" \notin odd' => form' = form /\ on' = on)
    BY <1>10, <2>1 DEF GuideAnswered, Left
  <2>3. step' = step
    <3>1. ~(0 > 0)
      OBVIOUS
    <3> QED
      BY <1>10, <2>1, <3>1 DEF GuideAnswered
  <2>4. CASE "wiped" \in odd'
    BY <2>4 DEF Complete, Excused
  <2>5. CASE "wiped" \notin odd'
    BY <2>1, <2>2, <2>3, <2>5, CompleteStays DEF SameForm
  <2> QED
    BY <2>4, <2>5
<1>11. CASE UNCHANGED guideVars
  <2>1. SameForm /\ pending' = pending /\ step' = step /\ stored' = stored /\ known' = known
    BY <1>11 DEF guideVars, SameForm, fixed
  <2>2. guide = "" => Complete'
    BY <2>1 DEF SameForm, fixed, Complete
  <2> QED
    BY <2>1, <2>2, CompleteStays
<1> QED
  BY <1>2, <1>3, <1>4, <1>5, <1>6, <1>7, <1>8, <1>9, <1>10, <1>11,
     EditsTouch, TouchComplete, OpenComplete, AnswerComplete DEF GuideStep, GuideNext

(* What a guide saves is complete; a local policy is past its first page only with *)
(* a tested path.                                                                  *)
THEOREM SavedCompleteSafe == GuideSpec => []SavedComplete
<1> DEFINE Inv == GuideTyped /\ Ahead /\ PathTested /\ Complete
<1>1. GuideInit => Inv
  <2>1. ASSUME GuideInit
        PROVE  Ahead /\ PathTested /\ Complete
    BY <2>1 DEF GuideInit, Ahead, PathTested, Complete, Node
  <2> QED
    BY <2>1, GuideStart
<1>2. Inv /\ [GuideNext]_guideVars => Inv'
  BY GuideTypedStep, AheadStep, PathTestedStep, CompleteStep DEF GuideStep
<1>3. Inv => SavedComplete
  <2> SUFFICES ASSUME Inv
               PROVE  SavedComplete
    OBVIOUS
  <2>1. known => guide # ""
    BY DEF GuideTyped
  <2>2. ASSUME known, odd \cap {"wiped", "trimmed"} = {},
               guide \in {"local", "node"} => "edited" \notin odd
        PROVE  PolicyComplete(stored)
    BY <2>1, <2>2 DEF Complete, Excused
  <2> QED
    BY <2>2 DEF SavedComplete, PolicyComplete, PathTested
<1> QED
  BY <1>1, <1>2, <1>3, PTL DEF GuideSpec
===============================================================================
