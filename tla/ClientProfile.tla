----------------------------- MODULE ClientProfile -----------------------------
(* Who the user is, to the mobile app: the onboarding quiz (sc00 to sc07a),   *)
(* the sign-in that ends it, the gate that keeps the right people on the      *)
(* right screens, and the screens that change the profile afterwards:         *)
(* settings, the retake of the quiz, and the notification prompt. Tokens and  *)
(* their storage are ClientSession.                                          *)
EXTENDS Integers

CONSTANTS
    Options,        \* the answers a question offers, by question
    None,
    MaxPresses,     \* bound on sign-ins, saves, prompts and deletions
    MaxTroubles,    \* bound on failed requests and ended sessions
    MaxEvents       \* bound on both together

VARIABLES
    signed,     \* there is an access token
    revoked,    \* server: the session has ended
    prof,       \* server: the profile
    cache,      \* the profile query, and what the server had when a request
    flight,     \*   under way began
    mode, quiz, direction,  \* the onboarding store
    moving,     \* the screen an exit animation of OnboardingStep leads to
    screen,     \* the screen in front
    form,       \* the state of settings
    save,       \* handleSave of settings and handleNext of sc06, under way
    flow,       \* finalizeAuthFlow
    notify,     \* enableNotifications, and whether a save was under way
    presses, troubles

store == <<mode, quiz, direction, moving>>
query == <<cache, flight>>
handlers == <<save, flow, notify>>
vars == <<signed, revoked, prof, query, store, screen, form, handlers, presses, troubles>>

Questions == DOMAIN Options

----------------------------------------------------------------------------
(* The screens of the quiz. A question is asked with one answer or with many *)
(* (here at most one of many; pressing it again takes it back).              *)

Card(back, next) == [asks |-> None, many |-> FALSE, back |-> back, next |-> next]
Ask(q, many, back, next) == [asks |-> q, many |-> many, back |-> back, next |-> next]

Sc00 == Card(None, "sc01")
Sc01 == Card("sc00", "sc01b")
Sc01b == Card("sc01", "sc02")
Sc02 == Ask("markets", TRUE, "sc01b", "sc03")
Sc03 == Ask("experience", FALSE, "sc02", "sc04")
Sc04 == Ask("style", FALSE, "sc03", "sc05")
Sc05 == Ask("painPoints", TRUE, "sc04", "sc06")
Sc06 == Ask("riskPreference", FALSE, "sc05", "sc07")
Steps == [sc00 |-> Sc00, sc01 |-> Sc01, sc01b |-> Sc01b, sc02 |-> Sc02,
          sc03 |-> Sc03, sc04 |-> Sc04, sc05 |-> Sc05, sc06 |-> Sc06]

Auth == DOMAIN Steps \cup {"sc07", "sc07a"}
Blank == [q \in Questions |-> None]
Answers == {None} \cup UNION {Options[q] : q \in Questions}
Quizzes == {a \in [Questions -> Answers] : \A q \in Questions : a[q] \in Options[q] \cup {None}}
Languages == {"device", "other", None}
Profiles == [answers : Quizzes, lang : Languages, alpha : BOOLEAN]
Forms == [lang : Languages \ {None}, alpha : BOOLEAN]

\* The screens ask these questions and each has an answer; None is no answer,
\* no language and no profile.
ASSUME ProfileAssumption ==
    /\ Questions = {"markets", "experience", "style", "painPoints", "riskPreference"}
    /\ \A q \in Questions : None \notin Options[q] /\ Options[q] # {}
    /\ None \notin {"device", "other"} \cup Profiles
    /\ {MaxPresses, MaxTroubles, MaxEvents} \subseteq Nat

NoSave == [kind |-> "idle", to |-> None]
Flows == [pc : {"none", "login", "fetch", "patch", "entitlement", "done"}, answers : Quizzes, lang : BOOLEAN]
Prompts == [pc : {"idle", "asked", "shown"}, alone : BOOLEAN, loaded : BOOLEAN, alpha : BOOLEAN]
TypeOK ==
    /\ {signed, revoked} \subseteq BOOLEAN
    /\ prof \in Profiles
    /\ cache \in Profiles \cup {None} /\ flight \in Profiles \cup {None}
    /\ mode \in {"onboarding", "retake"} /\ quiz \in Quizzes /\ direction \in {"forward", "backward"}
    /\ moving \in DOMAIN Steps \cup {"sc07", None}
    /\ screen \in Auth \cup {"tabs", "settings"}
    /\ form \in Forms
    /\ save \in {NoSave} \cup [kind : {"settings"}, to : Forms] \cup [kind : {"retake"}, to : Quizzes]
    /\ flow \in Flows
    /\ notify \in Prompts
    /\ presses \in 0..MaxPresses /\ troubles \in 0..MaxTroubles

NoFlow == [pc |-> "none", answers |-> Blank, lang |-> FALSE]
NoNotify == [pc |-> "idle", alone |-> FALSE, loaded |-> FALSE, alpha |-> FALSE]
\* Mutated form: no fallback for the language.
FormOfUnset(p) ==
    IF p = None THEN [lang |-> "other", alpha |-> FALSE] ELSE [lang |-> p.lang, alpha |-> p.alpha]

\* settings falls back to English, whatever the app's own language.
FormOf(p) ==
    IF p = None THEN [lang |-> "other", alpha |-> FALSE]
    ELSE [lang |-> IF p.lang = None THEN "other" ELSE p.lang, alpha |-> p.alpha]

\* A first start, or a start with the session that storage kept.
Init ==
    /\ signed \in BOOLEAN /\ revoked = FALSE
    /\ prof \in {[answers |-> Blank, lang |-> None, alpha |-> FALSE],
                 [answers |-> CHOOSE a \in Quizzes : \A q \in Questions : a[q] # None,
                  lang |-> "other", alpha |-> TRUE]}
    /\ signed => prof.lang # None
    /\ cache = None /\ flight = None
    /\ mode = "onboarding" /\ quiz = Blank /\ direction = "forward" /\ moving = None
    /\ screen = IF signed THEN "tabs" ELSE "sc00"
    /\ form = FormOf(None)
    /\ save = NoSave /\ notify = NoNotify
    /\ flow = NoFlow
    /\ presses = 0 /\ troubles = 0

Press == presses < MaxPresses /\ presses + troubles < MaxEvents /\ presses' = presses + 1
Trouble == troubles < MaxTroubles /\ presses + troubles < MaxEvents /\ troubles' = troubles + 1
Reset == mode' = "onboarding" /\ quiz' = Blank /\ direction' = "forward"

\* A navigation, to a new form of settings or away; AuthGate ends a retake that leaves the quiz. A step that is
\* taken away stops its animation.
Goes(to, f) ==
    /\ screen' = to /\ moving' = None /\ form' = f
    /\ IF signed /\ mode = "retake" /\ screen \in Auth /\ to \notin Auth THEN Reset
       ELSE UNCHANGED <<mode, quiz, direction>>
Go(to) == Goes(to, FormOf(None))

----------------------------------------------------------------------------
(* The quiz                                                                *)

Choose(option) ==
    /\ screen \in DOMAIN Steps
    /\ LET step == Steps[screen] IN
       /\ step.asks # None /\ option \in Options[step.asks]
       /\ quiz' = [quiz EXCEPT ![step.asks] = IF step.many /\ @ = option THEN None ELSE option]
       /\ quiz' # quiz
    /\ UNCHANGED <<signed, revoked, prof, query, mode, direction, moving, screen, form, handlers, presses, troubles>>

\* handleNext, and the swipes: forward once the question is answered, which
\* nobody asks again when the animation is over.
Exits(d) ==
    /\ screen \in DOMAIN Steps /\ moving = None
    /\ IF d = "forward" THEN \A q \in {Steps[screen].asks} \ {None} : quiz[q] # None
       ELSE Steps[screen].back # None

\* animateExit. A new direction makes the effect of the same step set the value
\* being animated, which ends the animation unfinished: the press is lost. On
\* sc06 a retake saves instead.
Exit(d) ==
    /\ Exits(d)
    /\ IF d # direction THEN direction' = d /\ UNCHANGED moving
       ELSE /\ ~(screen = "sc06" /\ mode = "retake" /\ d = "forward")
            /\ moving' = IF d = "forward" THEN Steps[screen].next ELSE Steps[screen].back
            /\ UNCHANGED direction
    /\ UNCHANGED <<signed, revoked, prof, query, mode, quiz, screen, form, handlers, presses, troubles>>

Arrive ==
    /\ moving # None
    /\ Go(moving)
    /\ UNCHANGED <<signed, revoked, prof, query, handlers, presses, troubles>>

Back ==
    /\ \/ screen = "sc07a" /\ Go("sc07")
       \/ screen = "settings" /\ Go("tabs")
    /\ UNCHANGED <<signed, revoked, prof, query, handlers, presses, troubles>>

Email ==
    /\ screen = "sc07"
    /\ Go("sc07a")
    /\ UNCHANGED <<signed, revoked, prof, query, handlers, presses, troubles>>

----------------------------------------------------------------------------
(* Sign-in                                                                 *)

\* Google, Apple and email: one at a time, with the answers of the store.
SignIn ==
    /\ screen \in {"sc07", "sc07a"} /\ ~signed
    /\ flow.pc \in {"none", "done"}
    /\ Press
    /\ flow' = [pc |-> "login", answers |-> quiz, lang |-> FALSE]
    /\ UNCHANGED <<signed, revoked, prof, query, store, screen, form, save, notify, troubles>>

\* The provider or the server refuses, or setSession signs the user in.
Login ==
    /\ flow.pc = "login"
    /\ \/ flow' = [flow EXCEPT !.pc = "fetch"] /\ signed' = TRUE /\ revoked' = FALSE /\ UNCHANGED troubles
       \/ flow' = [NoFlow EXCEPT !.pc = "done"] /\ Trouble /\ UNCHANGED <<signed, revoked>>
    /\ UNCHANGED <<prof, query, store, screen, form, save, notify, presses>>

\* fetchProfile: a failure looks like a profile without a language.
FetchProfile ==
    /\ flow.pc = "fetch"
    /\ \/ flow' = [pc |-> "patch", answers |-> flow.answers, lang |-> prof.lang # None] /\ UNCHANGED troubles
       \/ flow' = [flow EXCEPT !.pc = "patch"] /\ Trouble
    /\ UNCHANGED <<signed, revoked, prof, query, store, screen, form, save, notify, presses>>

Merge(answers) == [q \in Questions |-> IF answers[q] = None THEN prof.answers[q] ELSE answers[q]]

\* Mutated form: the answers are read from the store after it was reset.
UpdatesLate ==
    [answers |-> Merge(quiz), lang |-> IF flow.lang THEN prof.lang ELSE "device", alpha |-> prof.alpha]

Updates ==
    [answers |-> Merge(flow.answers), lang |-> IF flow.lang THEN prof.lang ELSE "device", alpha |-> prof.alpha]

\* updateProfile, whose failure nobody looks at, then reset of the store,
\* whatever the user does with it by now.
PatchProfile ==
    /\ flow.pc = "patch"
    /\ flow' = [pc |-> "entitlement", answers |-> flow.answers, lang |-> FALSE]
    /\ \/ prof' = Updates /\ UNCHANGED troubles
       \/ UNCHANGED prof /\ Trouble
    /\ Reset
    /\ UNCHANGED <<signed, revoked, query, moving, screen, form, save, notify, presses>>

\* fetchEntitlement chooses the tab; the replace comes when it comes.
FetchEntitlement ==
    /\ flow.pc = "entitlement"
    /\ flow' = [NoFlow EXCEPT !.pc = "done"]
    /\ Go("tabs")
    /\ UNCHANGED <<signed, revoked, prof, query, save, notify, presses, troubles>>

\* Mutated form: the gate watches the tabs and not what is over them.
AuthGateTabs ==
    /\ \/ ~signed /\ screen = "tabs" /\ Go("sc00")
       \/ signed /\ screen \in Auth /\ mode # "retake" /\ Go("tabs")
    /\ UNCHANGED <<signed, revoked, prof, query, handlers, presses, troubles>>

\* The effect of AuthGate, and the redirect of index.
AuthGate ==
    /\ \/ ~signed /\ screen \notin Auth /\ Go("sc00")
       \/ signed /\ screen \in Auth /\ mode # "retake" /\ Go("tabs")
    /\ UNCHANGED <<signed, revoked, prof, query, handlers, presses, troubles>>

Forget == signed' = FALSE /\ cache' = None /\ flight' = None

SignOut ==
    /\ screen = "tabs" /\ signed /\ notify.pc = "idle"
    /\ Press
    /\ Forget
    /\ Go("sc00")
    /\ UNCHANGED <<revoked, prof, handlers, troubles>>

Revoke ==
    /\ signed /\ ~revoked /\ Trouble
    /\ revoked' = TRUE
    /\ UNCHANGED <<signed, prof, query, store, screen, form, handlers, presses>>

----------------------------------------------------------------------------
(* The profile query                                                       *)

\* A screen with useProfile mounts on data that are a minute old.
Refresh ==
    /\ signed /\ screen \notin Auth /\ flight = None /\ cache # prof
    /\ flight' = prof
    /\ UNCHANGED <<signed, revoked, prof, cache, store, screen, form, handlers, presses, troubles>>

\* A 401 signs the user out, wherever they are. New data fill the form.
Answer ==
    /\ flight # None
    /\ flight' = None
    /\ \/ ~revoked /\ \E p \in {flight, prof} :
              /\ cache' = p
              /\ form' = IF screen = "settings" /\ p # cache THEN FormOf(p) ELSE form
              /\ UNCHANGED <<signed, troubles>>
       \/ revoked /\ signed' = FALSE /\ cache' = None /\ UNCHANGED <<form, troubles>>
       \/ Trouble /\ UNCHANGED <<signed, cache, form>>
    /\ UNCHANGED <<revoked, prof, store, screen, handlers, presses>>

----------------------------------------------------------------------------
(* Settings, the retake and the prompt                                     *)

OpenSettings ==
    /\ screen = "tabs" /\ signed /\ notify.pc = "idle"
    /\ Goes("settings", FormOf(cache))
    /\ UNCHANGED <<signed, revoked, prof, query, handlers, presses, troubles>>

Edit ==
    /\ screen = "settings"
    /\ \/ form' = [form EXCEPT !.alpha = ~@]
       \/ \E lang \in Languages \ {None} : form' = [form EXCEPT !.lang = lang]
    /\ form' # form
    /\ UNCHANGED <<signed, revoked, prof, query, store, screen, handlers, presses, troubles>>

\* Nothing guards handleSave but the token; a second press is left out.
Save ==
    /\ screen = "settings" /\ signed /\ save = NoSave
    /\ Press
    /\ save' = [kind |-> "settings", to |-> form]
    /\ UNCHANGED <<signed, revoked, prof, query, store, screen, form, flow, notify, troubles>>

\* handleRetakeQuiz.
Retake ==
    /\ screen = "settings" /\ signed
    /\ presses < MaxPresses /\ presses + troubles < MaxEvents
    /\ mode' = "retake" /\ quiz' = IF cache = None THEN Blank ELSE cache.answers
    /\ screen' = "sc02" /\ direction' = "forward" /\ moving' = None
    /\ form' = FormOf(None)
    /\ UNCHANGED <<signed, revoked, prof, query, handlers, presses, troubles>>

\* handleNext of sc06 in a retake: without a token it returns.
SaveRetake ==
    /\ screen = "sc06" /\ mode = "retake" /\ Exits("forward") /\ direction = "forward"
    /\ signed /\ save = NoSave
    /\ Press
    /\ save' = [kind |-> "retake", to |-> quiz]
    /\ UNCHANGED <<signed, revoked, prof, query, store, screen, form, flow, notify, troubles>>

\* What a save writes, over a profile or over the cached one.
Written(p) ==
    IF save.kind = "retake" THEN [p EXCEPT !.answers = save.to]
    ELSE [answers |-> p.answers, lang |-> save.to.lang, alpha |-> save.to.alpha]

\* Mutated form: setQueryData without invalidateQueries, which also drops the
\* request that is under way.
SavedOnly == cache' = (IF cache = None THEN None ELSE Written(cache)) /\ UNCHANGED flight
\* setQueryData and invalidateQueries.
Saved ==
    /\ cache' = IF cache = None THEN None ELSE Written(cache)
    /\ flight' = Written(prof)

\* The answer: settings goes back from whatever is in front, the retake puts
\* settings there. After a failure both stay.
SaveEnds ==
    /\ save # NoSave
    /\ save' = NoSave
    /\ \/ /\ ~revoked /\ signed
          /\ prof' = Written(prof)
          /\ Saved
          /\ IF save.kind = "retake" THEN Goes("settings", FormOf(cache'))
             ELSE Go(IF screen \in DOMAIN Steps /\ Steps[screen].back # None THEN Steps[screen].back ELSE "tabs")
          /\ UNCHANGED troubles
       \/ Trouble /\ UNCHANGED <<prof, query, form, store, screen>>
       \/ (revoked \/ ~signed) /\ UNCHANGED <<prof, query, form, store, screen, troubles>>
    /\ UNCHANGED <<signed, revoked, flow, notify, presses>>

\* enableNotifications, from a sheet over a report or the insights that stays
\* until it ends. It begins from the preferences it was rendered with; "alone"
\* and "loaded" (they are there, and no other ones are on their way) are only
\* for AlphaKept.
Notify ==
    /\ screen = "tabs" /\ signed /\ notify.pc = "idle"
    /\ Press
    /\ notify' = [pc |-> "asked", alone |-> save = NoSave, loaded |-> cache # None /\ flight \in {None, cache},
                  alpha |-> cache # None /\ cache.alpha]
    /\ UNCHANGED <<signed, revoked, prof, query, store, screen, form, save, flow, troubles>>

NotifyAnswer ==
    /\ notify.pc = "asked"
    /\ \/ ~revoked /\ signed /\ prof' = [prof EXCEPT !.alpha = notify.alpha] /\ flight' = prof'
          /\ notify' = [notify EXCEPT !.pc = "shown"] /\ UNCHANGED troubles
       \/ (revoked \/ ~signed) /\ notify' = NoNotify /\ UNCHANGED <<prof, flight, troubles>>
       \/ Trouble /\ notify' = NoNotify /\ UNCHANGED <<prof, flight>>
    /\ UNCHANGED <<signed, revoked, cache, store, screen, form, save, flow, presses>>

\* The sheet closes when the refetch has ended, or a save has dropped it.
NotifyCloses ==
    /\ notify.pc = "shown" /\ (flight = None \/ ~notify.alone)
    /\ notify' = NoNotify
    /\ UNCHANGED <<signed, revoked, prof, query, store, screen, form, save, flow, presses, troubles>>

\* handleDeleteAccount, after the user has typed DELETE.
Delete ==
    /\ screen = "settings" /\ signed /\ ~revoked /\ save = NoSave
    /\ Press
    /\ prof' = [answers |-> Blank, lang |-> None, alpha |-> FALSE]
    /\ Forget
    /\ Go("sc07")
    /\ UNCHANGED <<revoked, handlers, troubles>>

Next ==
    \/ \E q \in Questions : \E option \in Options[q] : Choose(option)
    \/ (\E d \in {"forward", "backward"} : Exit(d)) \/ Arrive \/ Back \/ Email
    \/ SignIn \/ Login \/ FetchProfile \/ PatchProfile \/ FetchEntitlement
    \/ AuthGate \/ SignOut \/ Revoke \/ Refresh \/ Answer
    \/ OpenSettings \/ Edit \/ Save \/ Retake \/ SaveRetake \/ SaveEnds \/ Notify
    \/ NotifyAnswer \/ NotifyCloses \/ Delete

Spec == Init /\ [][Next]_vars

\* Effects run and requests are answered.
FairSpec ==
    /\ Spec
    /\ WF_vars(AuthGate) /\ WF_vars(Arrive)
    /\ WF_vars(Login) /\ WF_vars(FetchProfile) /\ WF_vars(PatchProfile) /\ WF_vars(FetchEntitlement)
    /\ WF_vars(Answer) /\ WF_vars(SaveEnds) /\ WF_vars(NotifyAnswer) /\ WF_vars(NotifyCloses)

----------------------------------------------------------------------------
(* Properties                                                              *)

\* Once nothing is under way, what the screens show is what the server has: a
\* save outdates the request that began before it. A sign-in, which writes the
\* profile without telling the query, is not promised this, nor is a failed
\* refetch.
SavedIsCached ==
    flow.pc = "none" /\ troubles = 0 /\ flight = None /\ save = NoSave /\ notify = NoNotify
        => cache \in {None, prof}

\* What sign-in writes has every answer the user gave before it, even when the
\* store was used again meanwhile, and leaves alone the language of a profile
\* that has one, unless settings was saved meanwhile (presses).
SignInKeepsChoices ==
    [][flow.pc = "patch" /\ flow'.pc = "entitlement" /\ troubles' = 0 =>
          /\ \A q \in Questions : flow.answers[q] # None => prof'.answers[q] = flow.answers[q]
          /\ presses = 1 /\ prof.lang # None => prof'.lang = prof.lang]_vars

\* The notification prompt does not touch the market alerts that were chosen in
\* settings, if the preferences had been loaded and no request for other ones
\* was under way, nothing failed to load since and no save was under way.
AlphaKept ==
    [][notify.pc = "asked" /\ notify'.pc # "asked" /\ notify.alone /\ notify.loaded /\ troubles' = 0
          => prof'.alpha = prof.alpha]_vars

\* Whoever is on the wrong side of the gate does not stay there, however the
\* session began or ended; only a retake keeps a user in the quiz.
GateSettles ==
    /\ (~signed /\ screen \notin Auth) ~> (signed \/ screen \in Auth)
    /\ (signed /\ screen \in Auth /\ mode # "retake") ~> (~signed \/ screen \notin Auth \/ mode = "retake")

\* A retake belongs to a user: the code does not keep it (a 401 during the quiz
\* leaves a retake that cannot be saved and does not lead to sign-in).
RetakeHasSession == mode = "retake" => signed

\* The cached profile, and the type of what may change it.
ProfileIsCached == TypeOK /\ SavedIsCached

\* What the user chose on one screen is not undone by another.
ChoicesAreKept == SignInKeepsChoices /\ AlphaKept
=============================================================================
