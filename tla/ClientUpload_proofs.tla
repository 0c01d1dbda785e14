-------------------------- MODULE ClientUpload_proofs --------------------------
(* Proofs about ClientUpload, for any pictures, assets and batches and every *)
(* bound on pictures, presses of Confirm and troubles, and about             *)
(* ClientReport.                                                             *)
EXTENDS ClientUpload, SequenceTheorems, TLAPS

Begun(b) == batch[b].status \notin {"none", "pending_upload"}

\* What a run has done is in its batch, by what it has still to do.
RunDoes(b) ==
    /\ run[b].pc \in {"unused", "create"} => batch[b] = NewBatch /\ draft[b] = <<>>
    /\ run[b].pc # "unused" => run[b].list # <<>>
    /\ run[b].pc \in {"put", "checksum", "complete"} =>
         batch[b].status = "pending_upload" /\ batch[b].declared = run[b].list
    /\ run[b].pc \in {"checksum", "complete"} => batch[b].stored = batch[b].declared
    /\ run[b].pc = "poll" => Begun(b)
    /\ executed[b] = 0 \/ (executed[b] = 1 /\ run[b].pc = "done")

\* Each picture is stored under its own id or not yet.
PicturesStored(b) ==
    /\ DOMAIN batch[b].stored = DOMAIN batch[b].declared
    /\ \A i \in DOMAIN batch[b].stored : batch[b].stored[i] \in {NoPicture, batch[b].declared[i]}
    /\ Begun(b) => batch[b].stored = batch[b].declared

\* The draft is there until the review of its batch has been taken.
DraftKept(b) ==
    /\ draft[b] \in {<<>>, batch[b].declared}
    /\ b \in Holdings /\ batch[b].status # "none" => draft[b] = batch[b].declared \/ batch[b].reviewed

Decided(b) ==
    \A a \in Assets :
        batch[b].reviewed /\ a \in batch[b].rows /\ SymbolOf[a] \in Ambiguous
            => SymbolOf[a] \in batch[b].resolved

Sound(b) == RunDoes(b) /\ PicturesStored(b) /\ DraftKept(b) /\ Decided(b)

\* A screen that is about a batch is about one whose upload is over.
About == {"ocr", "failed", "review", "report"}
ScreensFollow ==
    /\ screen.name \in About => screen.b \in Holdings /\ run[screen.b].pc = "done" /\ Begun(screen.b)
    /\ screen.name \notin About => screen.b = NoBatch
    /\ poll # "none" => screen.name \in {"ocr", "failed"}

\* A review on its way names an uploaded batch, leaves out what the screen
\* showed as removed and decides every ambiguous symbol that is left.
ReviewsDecide ==
    \A m \in sent :
        /\ m.b \in Holdings /\ run[m.b].pc = "done" /\ Begun(m.b)
        /\ m.removed = m.shown
        /\ \A a \in Assets \ m.removed : SymbolOf[a] \in Ambiguous => SymbolOf[a] \in m.resolved

UploadInv == TypeOK /\ (\A b \in Batches : Sound(b)) /\ ScreensFollow /\ ReviewsDecide

----------------------------------------------------------------------------
(* Types                                                                   *)

Records ==
    [status : {"none", "pending_upload", "processing", "needs_review", "completed", "failed"},
     declared : Lists, stored : UNION {[1..n -> Pictures \cup {NoPicture}] : n \in 0..MaxImages},
     rows : SUBSET Assets, resolved : SUBSET Ambiguous, reviewed : BOOLEAN]
Runs ==
    [pc : {"unused", "create", "put", "checksum", "complete", "poll", "execute", "done"},
     list : Lists, mounted : BOOLEAN]
Screens ==
    [name : {"assets", "upload", "slip", "ocr", "failed", "review", "report"}, b : Batches \cup {NoBatch}]
Forms == [images : Lists, uploading : BOOLEAN, result : BOOLEAN]

LEMMA Typing ==
  TypeOK <=>
    /\ batch \in [Batches -> Records] /\ run \in [Batches -> Runs]
    /\ screen \in Screens /\ form \in Forms /\ draft \in [Batches -> Lists]
    /\ poll \in {"none", "asked", "timer"} /\ stale \subseteq Batches
    /\ review \in Choices /\ sent \subseteq Payloads
    /\ executed \in [Batches -> Nat] /\ troubles \in 0..MaxTroubles
  BY Zenon DEF TypeOK, Records, Runs, Screens, Forms

\* What a list of pictures is.
LEMMA ListShape ==
  \A list : list \in Lists <=>
      \E n \in 0..MaxImages :
          /\ list \in [1..n -> Pictures]
          /\ \A i, j \in 1..n : i # j => list[i] # list[j]
  BY LimitAssumption DEF Lists

LEMMA ListFacts ==
  \A list \in Lists :
      /\ Len(list) \in 0..MaxImages /\ DOMAIN list = 1..Len(list)
      /\ list \in [1..Len(list) -> Pictures] /\ list \in Seq(Pictures)
      /\ \A i, j \in 1..Len(list) : i # j => list[i] # list[j]
<1> TAKE list \in Lists
<1>1. PICK n \in 0..MaxImages : list \in [1..n -> Pictures] /\ \A i, j \in 1..n : i # j => list[i] # list[j]
  BY ListShape
<1>2. list \in Seq(Pictures) /\ Len(list) = n
  BY <1>1, LimitAssumption
<1> QED
  BY <1>1, <1>2

LEMMA EmptyList == <<>> \in Lists
<1>1. <<>> \in [1..0 -> Pictures]
  OBVIOUS
<1>2. 0 \in 0..MaxImages /\ \A i, j \in 1..0 : FALSE
  BY LimitAssumption
<1>3. \A i, j \in 1..0 : i # j => <<>>[i] # <<>>[j]
  BY <1>2
<1> QED
  BY <1>1, <1>2, <1>3, ListShape, Zenon

LEMMA OnePicture == \A p \in Pictures : <<p>> \in Lists
<1> TAKE p \in Pictures
<1>1. <<p>> \in [1..1 -> Pictures] /\ 1 \in 0..MaxImages
  BY LimitAssumption
<1>2. \A i, j \in 1..1 : i # j => <<p>>[i] # <<p>>[j]
  OBVIOUS
<1> QED
  BY <1>1, <1>2, ListShape

\* pickImages keeps the list within the limit and free of doubles.
LEMMA MoreListed ==
  ASSUME NEW list \in Lists, NEW p \in Pictures, p \notin Listed(list), Len(list) < MaxImages
  PROVE  Append(list, p) \in Lists
<1> DEFINE n == Len(list)
           more == Append(list, p)
<1>1. /\ n \in 0..MaxImages /\ list \in [1..n -> Pictures] /\ list \in Seq(Pictures) /\ DOMAIN list = 1..n
      /\ \A i, j \in 1..n : i # j => list[i] # list[j]
  BY ListFacts
<1>2. n + 1 \in 0..MaxImages
  BY <1>1, LimitAssumption
<1>3. \A i \in 1..n : list[i] # p
  BY <1>1 DEF Listed
<1>4. /\ more \in [1..n + 1 -> Pictures] /\ more[n + 1] = p
      /\ \A i \in 1..n : more[i] = list[i]
  <2>1. more \in Seq(Pictures) /\ Len(more) = n + 1
    BY <1>1
  <2>2. more[n + 1] = p /\ \A i \in 1..n : more[i] = list[i]
    BY <1>1
  <2>3. more \in [1..Len(more) -> Pictures]
    BY <2>1, LenProperties
  <2> QED
    BY <2>1, <2>2, <2>3
<1>5. \A i, j \in 1..n + 1 : i # j => more[i] # more[j]
  BY <1>1, <1>3, <1>4
<1> HIDE DEF more
<1> QED
  BY <1>2, <1>4, <1>5, ListShape DEF more

\* removeImage closes the gap.
LEMMA FewerListed ==
  ASSUME NEW list \in Lists, NEW i \in DOMAIN list
  PROVE  [j \in 1..Len(list) - 1 |-> list[IF j < i THEN j ELSE j + 1]] \in Lists
<1> DEFINE n == Len(list)
           less == [j \in 1..n - 1 |-> list[IF j < i THEN j ELSE j + 1]]
<1>1. /\ n \in 0..MaxImages /\ list \in [1..n -> Pictures] /\ DOMAIN list = 1..n
      /\ \A k, j \in 1..n : k # j => list[k] # list[j]
  BY ListFacts
<1>2. n - 1 \in 0..MaxImages
  BY <1>1, LimitAssumption
<1>3. less \in [1..n - 1 -> Pictures]
  BY <1>1
<1>4. \A k, j \in 1..n - 1 : k # j => less[k] # less[j]
  BY <1>1
<1> HIDE DEF less
<1> QED
  BY <1>2, <1>3, <1>4, ListShape DEF less

LEMMA Blank ==
  /\ BlankForm \in Forms /\ Untouched \in Choices /\ NewBatch \in Records
  /\ NewBatch.status = "none" /\ ~NewBatch.reviewed /\ NewBatch.stored = <<>> /\ NewBatch.declared = <<>>
<1>1. BlankForm \in Forms
  BY EmptyList DEF BlankForm, Forms
<1>2. Untouched \in Choices
  BY DEF Untouched, Choices, Texts
<1>3. NewBatch \in Records
  <2>1. 0 \in 0..MaxImages /\ <<>> \in [1..0 -> Pictures \cup {NoPicture}]
    BY LimitAssumption
  <2>2. <<>> \in UNION {[1..n -> Pictures \cup {NoPicture}] : n \in 0..MaxImages}
    BY <2>1
  <2> QED
    BY <2>2, EmptyList DEF NewBatch, Records
<1> QED
  BY <1>1, <1>2, <1>3 DEF NewBatch

\* Runs that are as they were, but for the screen they belong to.
SameRuns(runs) == \A c \in Batches : run'[c].pc = runs[c].pc /\ run'[c].list = runs[c].list

LEMMA Navigates ==
  ASSUME TypeOK, ScreensFollow, NEW name, NEW b, [name |-> name, b |-> b] \in Screens,
         NEW runs \in [Batches -> Runs], Navigate(name, b, runs)
  PROVE  /\ screen' \in Screens /\ screen'.name = name /\ screen'.b = b
         /\ run' \in [Batches -> Runs] /\ SameRuns(runs)
         /\ form' = BlankForm /\ form' \in Forms /\ review' = Untouched /\ review' \in Choices
         /\ poll' \in {"none", "asked", "timer"} /\ (poll' # "none" => name = "ocr")
         /\ stale' \subseteq Batches
<1>1. screen' \in Screens /\ screen'.name = name /\ screen'.b = b
  BY DEF Navigate
<1>2. run' \in [Batches -> Runs] /\ SameRuns(runs)
  <2>1. run' = [c \in Batches |-> [runs[c] EXCEPT !.mounted = FALSE]]
    BY DEF Navigate, Unmounted
  <2>2. \A c \in Batches : [runs[c] EXCEPT !.mounted = FALSE] \in Runs
    BY DEF Runs
  <2> QED
    BY <2>1, <2>2 DEF SameRuns, Runs
<1>3. stale' \subseteq Batches
  BY DEF Navigate, TypeOK, ScreensFollow, About, Batches
<1> QED
  BY <1>1, <1>2, <1>3, Blank DEF Navigate

\* The steps of the screens that are not about a batch of the server.
Quiet ==
    /\ UNCHANGED <<batch, draft, executed>>
    /\ run' \in [Batches -> Runs]
    /\ SameRuns(run)

\* The rest of the types.
LEMMA Retyped ==
  ASSUME batch' \in [Batches -> Records], run' \in [Batches -> Runs],
         screen' \in Screens, form' \in Forms, draft' \in [Batches -> Lists],
         poll' \in {"none", "asked", "timer"}, stale' \subseteq Batches,
         review' \in Choices, sent' \subseteq Payloads,
         executed' \in [Batches -> Nat], troubles' \in 0..MaxTroubles
  PROVE  TypeOK'
  BY Zenon DEF TypeOK, Records, Runs, Screens, Forms

LEMMA Troubles == ASSUME TypeOK, Trouble PROVE troubles' \in 0..MaxTroubles
  BY LimitAssumption DEF TypeOK, Trouble

LEMMA QuietKeeps ==
  ASSUME UploadInv, Quiet
  PROVE  \A b \in Batches : Sound(b)'
  BY DEF UploadInv, Quiet, SameRuns, Sound, RunDoes, PicturesStored, DraftKept, Decided, Begun

\* What has been uploaded stays so.
Lasting ==
    \A b \in Batches :
        /\ run[b].pc = "done" => run'[b].pc = "done"
        /\ Begun(b) => batch'[b].status \notin {"none", "pending_upload"}

LEMMA QuietLasts == ASSUME TypeOK, Quiet PROVE Lasting
  BY DEF Quiet, SameRuns, Lasting, Begun

LEMMA ReviewsLast ==
  ASSUME UploadInv, Lasting, sent' \subseteq sent
  PROVE  ReviewsDecide'
  BY DEF UploadInv, ReviewsDecide, Lasting, Begun, Batches

LEMMA ScreenLasts ==
  ASSUME UploadInv, Lasting, screen' = screen,
         poll' # "none" => poll # "none" \/ screen.name \in {"ocr", "failed"}
  PROVE  ScreensFollow'
  BY DEF UploadInv, ScreensFollow, About, Lasting, Begun, Batches

----------------------------------------------------------------------------
(* The user's steps and the polls of processing-ocr                        *)

Kept == TypeOK' /\ ScreensFollow' /\ ReviewsDecide'

LEMMA LeavesKeep ==
  ASSUME UploadInv, (\E name \in {"upload", "slip"} : Open(name)) \/ Leave
  PROVE  Kept /\ Quiet
<1>1. PICK name \in {"upload", "slip", "assets"} :
        Navigate(name, NoBatch, run) /\ UNCHANGED <<batch, draft, sent, executed, troubles>>
  BY DEF Open, Leave
<1>2. TypeOK /\ ScreensFollow /\ run \in [Batches -> Runs]
  BY DEF UploadInv, TypeOK, Runs
<1>3. [name |-> name, b |-> NoBatch] \in Screens
  BY DEF Screens
<1>4. /\ screen' \in Screens /\ screen'.name = name /\ screen'.b = NoBatch
      /\ run' \in [Batches -> Runs] /\ SameRuns(run)
      /\ form' \in Forms /\ review' \in Choices
      /\ poll' \in {"none", "asked", "timer"} /\ (poll' # "none" => name = "ocr")
      /\ stale' \subseteq Batches
  BY <1>1, <1>2, <1>3, Navigates
<1>5. Quiet
  BY <1>1, <1>4 DEF Quiet
<1>6. TypeOK'
  <2>1. /\ batch' \in [Batches -> Records] /\ draft' \in [Batches -> Lists] /\ sent' \subseteq Payloads
        /\ executed' \in [Batches -> Nat] /\ troubles' \in 0..MaxTroubles
    BY <1>1, <1>2, Typing
  <2> QED
    BY <2>1, <1>4, Retyped
<1>7. ScreensFollow'
  BY <1>4 DEF ScreensFollow, About
<1>8. ReviewsDecide'
  BY <1>1, <1>2, <1>5, QuietLasts, ReviewsLast
<1> QED
  BY <1>5, <1>6, <1>7, <1>8 DEF Kept

LEMMA FormsKeep ==
  ASSUME UploadInv, \E p \in Pictures : Pick(p) \/ Remove(p)
  PROVE  Kept /\ Quiet
<1> USE DEF Forms
<1>1. PICK p \in Pictures : Pick(p) \/ Remove(p)
  OBVIOUS
<1>2. UNCHANGED <<batch, run, screen, draft, poll, stale, review, sent, executed, troubles>>
  BY <1>1 DEF Pick, Remove
<1>3. /\ batch \in [Batches -> Records] /\ run \in [Batches -> Runs] /\ screen \in Screens /\ form \in Forms
      /\ draft \in [Batches -> Lists] /\ poll \in {"none", "asked", "timer"} /\ stale \subseteq Batches
      /\ review \in Choices /\ sent \subseteq Payloads
      /\ executed \in [Batches -> Nat] /\ troubles \in 0..MaxTroubles
  BY Typing DEF UploadInv
<1>4. form.images \in Lists
  BY <1>3
<1>5. form' \in Forms
  <2>1. CASE Pick(p)
    <3> DEFINE list == form.images
               more == IF screen.name = "slip" THEN <<p>>
                       ELSE IF p \in Listed(list) \/ Len(list) = MaxImages THEN list
                       ELSE Append(list, p)
    <3>1. form' = [form EXCEPT !.images = more]
      BY <2>1 DEF Pick
    <3>2. Len(list) < MaxImages \/ Len(list) = MaxImages
      BY <1>4, ListFacts, LimitAssumption
    <3>3. more \in Lists
      BY <3>2, <1>4, OnePicture, MoreListed
    <3> HIDE DEF more
    <3> QED
      BY <3>1, <3>3, <1>3
  <2>2. CASE Remove(p)
    <3>1. PICK i \in DOMAIN form.images :
            form' = [form EXCEPT !.images =
               [j \in 1..Len(form.images) - 1 |-> form.images[IF j < i THEN j ELSE j + 1]]]
      BY <2>2 DEF Remove
    <3>2. [j \in 1..Len(form.images) - 1 |-> form.images[IF j < i THEN j ELSE j + 1]] \in Lists
      BY <1>4, FewerListed
    <3> QED
      BY <3>1, <3>2, <1>3
  <2> QED
    BY <1>1, <2>1, <2>2
<1>6. Quiet
  BY <1>2, <1>3 DEF Quiet, SameRuns
<1>7. TypeOK'
  BY <1>2, <1>3, <1>5, Retyped
<1>8. Lasting
  BY <1>6, QuietLasts DEF UploadInv
<1> QED
  BY <1>2, <1>6, <1>7, <1>8, ScreenLasts, ReviewsLast DEF Kept

LEMMA EditsKeep ==
  ASSUME UploadInv,
         \/ LoadReview
         \/ \E a \in Assets : ToggleRemove(a) \/ \E text \in Texts : UpdateEdit(a, text)
         \/ \E s \in Ambiguous : HandleResolve(s)
  PROVE  Kept /\ Quiet
<1>1. UNCHANGED <<batch, run, screen, form, draft, poll, stale, sent, executed>>
  BY DEF LoadReview, ToggleRemove, UpdateEdit, HandleResolve
<1>2. /\ batch \in [Batches -> Records] /\ run \in [Batches -> Runs] /\ screen \in Screens /\ form \in Forms
      /\ draft \in [Batches -> Lists] /\ poll \in {"none", "asked", "timer"} /\ stale \subseteq Batches
      /\ review \in Choices /\ sent \subseteq Payloads
      /\ executed \in [Batches -> Nat] /\ troubles \in 0..MaxTroubles
  BY Typing DEF UploadInv
<1>3. review' \in Choices
  BY <1>2 DEF LoadReview, ToggleRemove, UpdateEdit, HandleResolve, Choices
<1>4. troubles' \in 0..MaxTroubles
  BY <1>2, Troubles DEF UploadInv, LoadReview, ToggleRemove, UpdateEdit, HandleResolve
<1>5. Quiet
  BY <1>1, <1>2 DEF Quiet, SameRuns
<1>6. TypeOK'
  BY <1>1, <1>2, <1>3, <1>4, Retyped
<1>7. Lasting
  BY <1>5, QuietLasts DEF UploadInv
<1> QED
  BY <1>1, <1>5, <1>6, <1>7, ScreenLasts, ReviewsLast DEF Kept

LEMMA ConfirmKeeps ==
  ASSUME UploadInv, Confirm
  PROVE  Kept /\ Quiet
<1> DEFINE m == [b |-> screen.b, removed |-> Edits.removed, amounts |-> Edits.amounts,
                 resolved |-> review.resolved, shown |-> review.removed]
<1>1. sent' = sent \cup {m} /\ Reviewing /\ Unresolved = {}
      /\ UNCHANGED <<batch, run, screen, form, draft, poll, stale, review, executed, troubles>>
  BY DEF Confirm
<1>2. /\ batch \in [Batches -> Records] /\ run \in [Batches -> Runs] /\ screen \in Screens /\ form \in Forms
      /\ draft \in [Batches -> Lists] /\ poll \in {"none", "asked", "timer"} /\ stale \subseteq Batches
      /\ review \in Choices /\ sent \subseteq Payloads
      /\ executed \in [Batches -> Nat] /\ troubles \in 0..MaxTroubles
  BY Typing DEF UploadInv
<1>3. screen.b \in Holdings /\ run[screen.b].pc = "done" /\ Begun(screen.b)
  BY <1>1 DEF Reviewing, UploadInv, ScreensFollow, About
<1>4. Edits.removed = review.removed /\ Edits.amounts \subseteq Assets
  BY DEF Edits
<1>5. m \in Payloads
  BY <1>2, <1>3, <1>4 DEF Choices, Payloads, Batches
<1>6. \A a \in Assets \ m.removed : SymbolOf[a] \in Ambiguous => SymbolOf[a] \in m.resolved
  BY <1>1, <1>4 DEF Unresolved
<1>7. m.b = screen.b /\ m.removed = m.shown
  BY <1>4
<1> HIDE DEF m
<1>8. Quiet
  BY <1>1, <1>2 DEF Quiet, SameRuns
<1>9. TypeOK'
  BY <1>1, <1>2, <1>5, Retyped
<1>10. Lasting
  BY <1>8, QuietLasts DEF UploadInv
<1>11. ScreensFollow'
  BY <1>1, <1>10, ScreenLasts
<1>12. ReviewsDecide'
  <2> SUFFICES ASSUME NEW k \in sent'
               PROVE  /\ k.b \in Holdings /\ run'[k.b].pc = "done" /\ batch'[k.b].status \notin {"none", "pending_upload"}
                      /\ k.removed = k.shown
                      /\ \A a \in Assets \ k.removed : SymbolOf[a] \in Ambiguous => SymbolOf[a] \in k.resolved
    BY DEF ReviewsDecide, Begun
  <2>1. CASE k \in sent
    BY <2>1, <1>1 DEF UploadInv, ReviewsDecide, Begun
  <2>2. CASE k = m
    BY <2>2, <1>1, <1>3, <1>6, <1>7 DEF Begun
  <2> QED
    BY <2>1, <2>2, <1>1
<1> QED
  BY <1>8, <1>9, <1>11, <1>12 DEF Kept

LEMMA PollsKeep ==
  ASSUME UploadInv, Ocr \/ Restart \/ \E b \in Batches : StaleAnswer(b)
  PROVE  Kept /\ Quiet
<1>1. UNCHANGED <<batch, draft, sent, executed>>
  BY DEF Ocr, PollAnswer, PollTimer, Restart, StaleAnswer
<1>2. /\ batch \in [Batches -> Records] /\ run \in [Batches -> Runs] /\ screen \in Screens /\ form \in Forms
      /\ draft \in [Batches -> Lists] /\ poll \in {"none", "asked", "timer"} /\ stale \subseteq Batches
      /\ review \in Choices /\ sent \subseteq Payloads
      /\ executed \in [Batches -> Nat] /\ troubles \in 0..MaxTroubles
  BY Typing DEF UploadInv
<1>3. /\ screen.name \in About => screen.b \in Holdings /\ run[screen.b].pc = "done" /\ Begun(screen.b)
      /\ poll # "none" => screen.name \in {"ocr", "failed"}
  BY DEF UploadInv, ScreensFollow
<1>4. screen.name \in About => screen.b \in Batches
  BY <1>3 DEF Batches
<1>5. troubles' \in 0..MaxTroubles
  BY <1>2, Troubles DEF UploadInv, Ocr, PollAnswer, PollTimer, Restart, StaleAnswer
<1>6. CASE PollAnswer /\ Navigate("review", screen.b, run)
  <2>1. [name |-> "review", b |-> screen.b] \in Screens /\ screen.name \in About
    BY <1>4, <1>6 DEF PollAnswer, Screens, About
  <2>2. /\ screen' \in Screens /\ screen'.name = "review" /\ screen'.b = screen.b
        /\ run' \in [Batches -> Runs] /\ SameRuns(run)
        /\ form' \in Forms /\ review' \in Choices
        /\ poll' \in {"none", "asked", "timer"} /\ (poll' # "none" => "review" = "ocr")
        /\ stale' \subseteq Batches
    BY <1>6, <1>2, <2>1, Navigates DEF UploadInv
  <2>3. Quiet
    BY <1>1, <2>2 DEF Quiet
  <2>4. TypeOK'
    BY <1>1, <1>2, <1>5, <2>2, Retyped
  <2>5. Lasting
    BY <2>3, QuietLasts DEF UploadInv
  <2>6. ScreensFollow'
    BY <1>3, <1>4, <2>1, <2>2, <2>5 DEF ScreensFollow, About, Lasting, Begun
  <2> QED
    BY <1>1, <2>3, <2>4, <2>5, <2>6, ReviewsLast DEF Kept
<1>7. CASE ~(PollAnswer /\ Navigate("review", screen.b, run))
  <2>1. /\ UNCHANGED <<run, form, review>> /\ poll' \in {"none", "asked", "timer"}
        /\ screen' = screen \/ (screen.name \in {"ocr", "failed"} /\ screen' = [screen EXCEPT !.name = "failed"])
        /\ poll' # "none" => screen.name \in {"ocr", "failed"}
        /\ stale' \subseteq stale \cup {screen.b} /\ (screen.name \in {"ocr", "failed"} \/ stale' \subseteq stale)
    <3>1. CASE PollAnswer
      BY <3>1, <1>7 DEF PollAnswer, Answered
    <3>2. CASE PollTimer \/ Restart \/ \E b \in Batches : StaleAnswer(b)
      BY <3>2, <1>2, <1>3 DEF PollTimer, Restart, StaleAnswer
    <3> QED
      BY <3>1, <3>2 DEF Ocr
  <2>2. screen' \in Screens /\ screen'.b = screen.b
        /\ (screen' = screen \/ (screen.name \in {"ocr", "failed"} /\ screen'.name = "failed"))
    BY <1>2, <2>1 DEF Screens
  <2>3. stale' \subseteq Batches
    BY <1>2, <1>4, <2>1 DEF About
  <2>4. Quiet
    BY <1>1, <1>2, <2>1 DEF Quiet, SameRuns
  <2>5. TypeOK'
    BY <1>1, <1>2, <1>5, <2>1, <2>2, <2>3, Retyped
  <2>6. Lasting
    BY <2>4, QuietLasts DEF UploadInv
  <2>7. ScreensFollow'
    <3>1. CASE screen' = screen
      BY <3>1, <2>1, <2>6, ScreenLasts
    <3>2. CASE screen.name \in {"ocr", "failed"} /\ screen'.name = "failed"
      BY <3>2, <1>3, <1>4, <2>2, <2>6 DEF ScreensFollow, About, Lasting, Begun
    <3> QED
      BY <3>1, <3>2, <2>2
  <2> QED
    BY <1>1, <2>4, <2>5, <2>6, <2>7, ReviewsLast DEF Kept
<1> QED
  BY <1>6, <1>7

----------------------------------------------------------------------------
(* handleUpload                                                            *)

\* A step of one run that leaves the others, the screen and the reviews.
RunStep(b) ==
    /\ run' \in [Batches -> Runs]
    /\ batch' \in [Batches -> Records] /\ draft' \in [Batches -> Lists]
    /\ executed' \in [Batches -> Nat] /\ troubles' \in 0..MaxTroubles
    /\ form' \in Forms
    /\ UNCHANGED <<screen, poll, stale, review, sent>>
    /\ \A c \in Batches \ {b} :
         /\ batch'[c] = batch[c] /\ draft'[c] = draft[c] /\ executed'[c] = executed[c]
         /\ run'[c].pc = run[c].pc /\ run'[c].list = run[c].list
    /\ run[b].pc # "done" /\ (Begun(b) => Begun(b)')

LEMMA OthersSound ==
  ASSUME UploadInv, NEW b \in Batches, NEW c \in Batches \ {b},
         /\ batch'[c] = batch[c] /\ draft'[c] = draft[c] /\ executed'[c] = executed[c]
         /\ run'[c].pc = run[c].pc /\ run'[c].list = run[c].list
  PROVE  Sound(c)'
  BY DEF UploadInv, Sound, RunDoes, PicturesStored, DraftKept, Decided, Begun

LEMMA RunStepKeeps ==
  ASSUME UploadInv, NEW b \in Batches, RunStep(b), Sound(b)'
  PROVE  UploadInv'
<1>1. TypeOK'
  <2>1. screen \in Screens /\ poll \in {"none", "asked", "timer"} /\ stale \subseteq Batches
        /\ review \in Choices /\ sent \subseteq Payloads
    BY Typing DEF UploadInv
  <2> QED
    BY <2>1, Retyped DEF RunStep
<1>2. \A c \in Batches : Sound(c)'
  BY OthersSound DEF RunStep
<1>3. Lasting
  BY DEF RunStep, Lasting, Begun
<1>4. ScreensFollow'
  BY <1>3, ScreenLasts DEF RunStep
<1>5. ReviewsDecide'
  BY <1>3, ReviewsLast DEF RunStep
<1> QED
  BY <1>1, <1>2, <1>4, <1>5 DEF UploadInv

LEMMA Goes ==
  ASSUME TypeOK, NEW b \in Batches,
         NEW pc \in {"unused", "create", "put", "checksum", "complete", "poll", "execute", "done"}, Goto(b, pc)
  PROVE  /\ run' \in [Batches -> Runs] /\ run'[b].pc = pc /\ run'[b].list = run[b].list
         /\ \A c \in Batches \ {b} : run'[c] = run[c]
  BY Typing DEF Goto, Runs

LEMMA Stops ==
  ASSUME TypeOK, NEW b \in Batches, StopUploading(b)
  PROVE  form' \in Forms
  BY Typing DEF StopUploading, Forms

LEMMA PressKeeps ==
  ASSUME UploadInv, NEW b \in Batches, Press(b)
  PROVE  UploadInv'
<1>1. /\ batch \in [Batches -> Records] /\ run \in [Batches -> Runs] /\ form \in Forms
      /\ draft \in [Batches -> Lists] /\ executed \in [Batches -> Nat] /\ troubles \in 0..MaxTroubles
  BY Typing DEF UploadInv
<1>2. /\ run' = [run EXCEPT ![b] = [pc |-> "create", list |-> form.images, mounted |-> TRUE]]
      /\ form' = [form EXCEPT !.uploading = TRUE] /\ form.images # <<>> /\ run[b].pc = "unused"
      /\ UNCHANGED <<batch, screen, draft, poll, stale, review, sent, executed, troubles>>
  BY DEF Press
<1>3. [pc |-> "create", list |-> form.images, mounted |-> TRUE] \in Runs
  BY <1>1 DEF Runs, Forms
<1>4. run' \in [Batches -> Runs] /\ run'[b].pc = "create" /\ run'[b].list # <<>>
  BY <1>1, <1>2, <1>3
<1>5. RunStep(b)
  BY <1>1, <1>2, <1>4 DEF RunStep, Forms, Begun
<1>6. Sound(b)'
  BY <1>2, <1>4 DEF UploadInv, Sound, RunDoes, PicturesStored, DraftKept, Decided, Begun
<1> QED
  BY <1>5, <1>6, RunStepKeeps

LEMMA CreateKeeps ==
  ASSUME UploadInv, NEW b \in Batches, CreateBatch(b)
  PROVE  UploadInv'
<1> DEFINE list == run[b].list
           blank == [i \in DOMAIN list |-> NoPicture]
<1>1. /\ batch \in [Batches -> Records] /\ run \in [Batches -> Runs] /\ form \in Forms
      /\ draft \in [Batches -> Lists] /\ executed \in [Batches -> Nat] /\ troubles \in 0..MaxTroubles
      /\ TypeOK
  BY Typing DEF UploadInv
<1>2. /\ batch' = [batch EXCEPT ![b] = [@ EXCEPT !.status = "pending_upload", !.declared = list, !.stored = blank]]
      /\ draft' = [draft EXCEPT ![b] = IF b \in Holdings THEN list ELSE @]
      /\ run[b].pc = "create" /\ Goto(b, "put")
      /\ UNCHANGED <<screen, form, poll, stale, review, sent, executed, troubles>>
  BY <1>1 DEF CreateBatch, Records
<1>3. list \in Lists /\ list # <<>> /\ batch[b] = NewBatch /\ executed[b] = 0 /\ draft[b] = <<>>
  BY <1>1, <1>2 DEF UploadInv, Sound, RunDoes, Runs
<1>4. blank \in UNION {[1..n -> Pictures \cup {NoPicture}] : n \in 0..MaxImages}
  <2>1. Len(list) \in 0..MaxImages /\ DOMAIN list = 1..Len(list)
    BY <1>3, ListFacts
  <2>2. blank \in [1..Len(list) -> Pictures \cup {NoPicture}]
    BY <2>1
  <2> HIDE DEF blank, list
  <2> QED
    BY <2>1, <2>2
<1> HIDE DEF list, blank
<1>5. /\ batch' \in [Batches -> Records] /\ \A c \in Batches \ {b} : batch'[c] = batch[c]
      /\ batch'[b].status = "pending_upload" /\ batch'[b].declared = list /\ batch'[b].stored = blank
      /\ batch'[b].reviewed = FALSE
  <2>1. [batch[b] EXCEPT !.status = "pending_upload", !.declared = list, !.stored = blank] \in Records
    <3> DEFINE Stored == UNION {[1..n -> Pictures \cup {NoPicture}] : n \in 0..MaxImages}
    <3>1. Records = [status : {"none", "pending_upload", "processing", "needs_review", "completed", "failed"},
                     declared : Lists, stored : Stored,
                     rows : SUBSET Assets, resolved : SUBSET Ambiguous, reviewed : BOOLEAN]
      BY DEF Records
    <3>2. blank \in Stored /\ batch[b] \in Records
      BY <1>1, <1>4
    <3> HIDE DEF Stored
    <3> QED
      BY <1>3, <3>1, <3>2
  <2>2. /\ batch' \in [Batches -> Records] /\ \A c \in Batches \ {b} : batch'[c] = batch[c]
        /\ batch'[b] = [batch[b] EXCEPT !.status = "pending_upload", !.declared = list, !.stored = blank]
    BY <1>1, <1>2, <2>1
  <2>3. batch'[b].reviewed = FALSE
    BY <1>1, <1>3, <2>2, Blank DEF Records
  <2> QED
    BY <1>1, <2>2, <2>3 DEF Records
<1>6. run' \in [Batches -> Runs] /\ run'[b].pc = "put" /\ run'[b].list = list
      /\ \A c \in Batches \ {b} : run'[c] = run[c]
  BY <1>1, <1>2, Goes DEF list
<1>7. draft' \in [Batches -> Lists] /\ draft'[b] = (IF b \in Holdings THEN list ELSE <<>>)
      /\ \A c \in Batches \ {b} : draft'[c] = draft[c]
  BY <1>1, <1>2, <1>3
<1>8. RunStep(b)
  <2>1. ~Begun(b)
    BY <1>3, Blank DEF Begun
  <2> QED
    BY <1>1, <1>2, <1>5, <1>6, <1>7, <2>1 DEF RunStep
<1>9. Sound(b)'
  <2>1. DOMAIN blank = DOMAIN list /\ \A i \in DOMAIN blank : blank[i] = NoPicture
    BY DEF blank
  <2>2. PicturesStored(b)'
    BY <2>1, <1>5 DEF PicturesStored, Begun
  <2>3. RunDoes(b)' /\ DraftKept(b)' /\ Decided(b)'
    BY <1>2, <1>3, <1>5, <1>6, <1>7 DEF RunDoes, DraftKept, Decided, Begun
  <2> QED
    BY <2>2, <2>3 DEF Sound
<1> QED
  BY <1>8, <1>9, RunStepKeeps

LEMMA PutKeeps ==
  ASSUME UploadInv, NEW b \in Batches, Put(b)
  PROVE  UploadInv'
<1> DEFINE list == run[b].list
           stored == batch[b].stored
<1>1. /\ batch \in [Batches -> Records] /\ run \in [Batches -> Runs] /\ form \in Forms
      /\ draft \in [Batches -> Lists] /\ executed \in [Batches -> Nat] /\ troubles \in 0..MaxTroubles
      /\ TypeOK
  BY Typing DEF UploadInv
<1>2. PICK i \in DOMAIN stored :
        /\ \A j \in 1..i - 1 : stored[j] # NoPicture
        /\ batch' = [batch EXCEPT ![b].stored = [@ EXCEPT ![i] = list[i]]]
        /\ Goto(b, IF i = Len(list) THEN "checksum" ELSE "put")
  BY Zenon DEF Put
<1>3. run[b].pc = "put" /\ UNCHANGED <<screen, form, draft, poll, stale, review, sent, executed, troubles>>
  BY DEF Put
<1>4. /\ list \in Lists /\ list # <<>> /\ batch[b].status = "pending_upload" /\ batch[b].declared = list
      /\ DOMAIN stored = DOMAIN list /\ \A j \in DOMAIN stored : stored[j] \in {NoPicture, list[j]}
      /\ Sound(b)
  BY <1>1, <1>3 DEF UploadInv, Sound, RunDoes, PicturesStored, Runs
<1>5. PICK n \in 0..MaxImages : stored \in [1..n -> Pictures \cup {NoPicture}]
  BY <1>1 DEF Records
<1>6. Len(list) = n /\ DOMAIN list = 1..n /\ list \in [1..n -> Pictures]
  <2>1. Len(list) \in 0..MaxImages /\ DOMAIN list = 1..Len(list) /\ list \in [1..Len(list) -> Pictures]
    BY <1>4, ListFacts
  <2>2. 1..Len(list) = 1..n
    BY <2>1, <1>4, <1>5
  <2>3. Len(list) = n
    BY <2>1, <2>2, LimitAssumption
  <2> QED
    BY <2>1, <2>3
<1> DEFINE filled == [stored EXCEPT ![i] = list[i]]
<1>7. /\ filled \in [1..n -> Pictures \cup {NoPicture}] /\ \A j \in 1..n : filled[j] \in {NoPicture, list[j]}
      /\ filled \in UNION {[1..k -> Pictures \cup {NoPicture}] : k \in 0..MaxImages}
  BY <1>2, <1>4, <1>5, <1>6
<1>8. i = n => filled = list
  <2> SUFFICES ASSUME i = n PROVE \A j \in 1..n : filled[j] = list[j]
    BY <1>6, <1>7
  <2> TAKE j \in 1..n
  <2>1. n \in Nat /\ i \in 1..n
    BY <1>2, <1>5, LimitAssumption
  <2>2. CASE j = n
    BY <2>1, <2>2, <1>5
  <2>3. CASE j # n
    BY <2>1, <2>3, <1>2, <1>4, <1>5
  <2> QED
    BY <2>2, <2>3
<1>9. batch' = [batch EXCEPT ![b].stored = filled]
  BY <1>2, Zenon
<1>10. i = n \/ i # n
  OBVIOUS
<1> HIDE DEF filled, stored, list
<1>11. /\ batch' \in [Batches -> Records] /\ \A c \in Batches \ {b} : batch'[c] = batch[c]
       /\ batch'[b].status = "pending_upload" /\ batch'[b].declared = list /\ batch'[b].stored = filled
       /\ batch'[b].reviewed = batch[b].reviewed /\ batch'[b].rows = batch[b].rows
       /\ batch'[b].resolved = batch[b].resolved
  <2> DEFINE new == [batch[b] EXCEPT !.stored = filled]
  <2>1. batch' = [batch EXCEPT ![b] = new]
    BY <1>9
  <2>2. batch[b] \in Records
    BY <1>1
  <2>3. /\ new \in Records /\ new.status = batch[b].status /\ new.declared = batch[b].declared
        /\ new.stored = filled /\ new.reviewed = batch[b].reviewed /\ new.rows = batch[b].rows
        /\ new.resolved = batch[b].resolved
    BY <2>2, <1>7 DEF Records
  <2> HIDE DEF new
  <2> QED
    BY <1>1, <1>4, <2>1, <2>3
<1>12. /\ run' \in [Batches -> Runs] /\ run'[b].pc = (IF i = n THEN "checksum" ELSE "put") /\ run'[b].list = list
       /\ \A c \in Batches \ {b} : run'[c] = run[c]
  BY <1>1, <1>2, <1>6, Goes DEF list
<1>13. RunStep(b)
  <2>1. ~Begun(b)
    BY <1>4 DEF Begun
  <2> QED
    BY <1>1, <1>3, <1>11, <1>12, <2>1 DEF RunStep, list
<1>14. Sound(b)'
  <2>1. DOMAIN filled = DOMAIN list
    BY <1>6, <1>7
  <2>2. PicturesStored(b)'
    BY <2>1, <1>6, <1>7, <1>11 DEF PicturesStored, Begun
  <2>3. RunDoes(b)'
    BY <1>3, <1>4, <1>8, <1>11, <1>12 DEF Sound, RunDoes, Begun
  <2>4. DraftKept(b)' /\ Decided(b)'
    BY <1>3, <1>4, <1>11 DEF Sound, DraftKept, Decided
  <2> QED
    BY <2>2, <2>3, <2>4 DEF Sound
<1> QED
  BY <1>13, <1>14, RunStepKeeps

LEMMA FailKeeps ==
  ASSUME UploadInv, NEW b \in Batches, UploadFails(b) \/ Checksum(b) \/ PollSlip(b)
  PROVE  UploadInv'
<1>1. /\ batch \in [Batches -> Records] /\ form \in Forms
      /\ draft \in [Batches -> Lists] /\ executed \in [Batches -> Nat] /\ troubles \in 0..MaxTroubles
      /\ TypeOK /\ Sound(b)
  BY Typing DEF UploadInv
<1>2. UNCHANGED <<batch, screen, draft, poll, stale, review, sent, executed>>
  BY DEF UploadFails, Checksum, PollSlip
<1>3. form' \in Forms /\ troubles' \in 0..MaxTroubles
  BY <1>1, Stops, Troubles DEF UploadFails, Checksum, PollSlip
<1>4. PICK pc \in {"complete", "execute", "done"} :
        /\ Goto(b, pc)
        /\ run[b].pc \in {"create", "put", "checksum", "complete", "poll"}
        /\ pc = "complete" => run[b].pc = "checksum"
  BY DEF UploadFails, Checksum, PollSlip
<1>5. /\ run' \in [Batches -> Runs] /\ run'[b].pc = pc /\ run'[b].list = run[b].list
      /\ \A c \in Batches \ {b} : run'[c] = run[c]
  BY <1>1, <1>4, Goes
<1>6. RunStep(b)
  BY <1>1, <1>2, <1>3, <1>4, <1>5 DEF RunStep, Begun
<1>7. Sound(b)'
  BY <1>1, <1>2, <1>4, <1>5 DEF Sound, RunDoes, PicturesStored, DraftKept, Decided, Begun
<1> QED
  BY <1>6, <1>7, RunStepKeeps

LEMMA ExecuteKeeps ==
  ASSUME UploadInv, NEW b \in Batches, Execute(b)
  PROVE  UploadInv'
<1>1. /\ batch \in [Batches -> Records] /\ form \in Forms
      /\ draft \in [Batches -> Lists] /\ executed \in [Batches -> Nat] /\ troubles \in 0..MaxTroubles
      /\ TypeOK /\ Sound(b)
  BY Typing DEF UploadInv
<1>2. run[b].pc = "execute" /\ Goto(b, "done") /\ UNCHANGED <<batch, screen, draft, poll, stale, review, sent>>
  BY DEF Execute
<1>3. form' \in Forms /\ troubles' \in 0..MaxTroubles
  BY <1>1, Troubles DEF Execute, Forms
<1>4. /\ executed' \in [Batches -> Nat] /\ executed'[b] \in {0, 1}
      /\ \A c \in Batches \ {b} : executed'[c] = executed[c]
  <2>1. executed[b] = 0
    BY <1>1, <1>2 DEF Sound, RunDoes
  <2> QED
    BY <2>1, <1>1 DEF Execute
<1>5. /\ run' \in [Batches -> Runs] /\ run'[b].pc = "done" /\ run'[b].list = run[b].list
      /\ \A c \in Batches \ {b} : run'[c] = run[c]
  BY <1>1, <1>2, Goes
<1>6. RunStep(b)
  BY <1>1, <1>2, <1>3, <1>4, <1>5 DEF RunStep, Begun
<1>7. Sound(b)'
  BY <1>1, <1>2, <1>4, <1>5 DEF Sound, RunDoes, PicturesStored, DraftKept, Decided, Begun
<1> QED
  BY <1>6, <1>7, RunStepKeeps

----------------------------------------------------------------------------
(* The steps that change what the server has of an uploaded batch          *)

\* The batch is uploaded and stays so; no run is put back.
ServerStep(b) ==
    /\ batch' \in [Batches -> Records] /\ draft' \in [Batches -> Lists]
    /\ run' \in [Batches -> Runs]
    /\ troubles' \in 0..MaxTroubles /\ executed' = executed
    /\ sent' \subseteq sent
    /\ \A c \in Batches \ {b} :
         /\ batch'[c] = batch[c] /\ draft'[c] = draft[c]
         /\ run'[c].pc = run[c].pc /\ run'[c].list = run[c].list
    /\ run[b].pc = "done" => run'[b].pc = "done"
    /\ Begun(b)'

LEMMA ServerStepKeeps ==
  ASSUME UploadInv, NEW b \in Batches, ServerStep(b), Sound(b)',
         screen' \in Screens, form' \in Forms, poll' \in {"none", "asked", "timer"}, stale' \subseteq Batches,
         review' \in Choices, ScreensFollow'
  PROVE  UploadInv'
<1>1. /\ sent \subseteq Payloads /\ executed \in [Batches -> Nat]
  BY Typing DEF UploadInv
<1>2. TypeOK'
  BY <1>1, Retyped DEF ServerStep
<1>3. \A c \in Batches : Sound(c)'
  <2> SUFFICES ASSUME NEW c \in Batches \ {b} PROVE Sound(c)'
    OBVIOUS
  <2>1. executed'[c] = executed[c]
    BY DEF ServerStep
  <2> QED
    BY <2>1, OthersSound DEF ServerStep
<1>4. Lasting
  BY DEF ServerStep, Lasting, Begun
<1>5. ReviewsDecide'
  BY <1>4, ReviewsLast DEF ServerStep
<1> QED
  BY <1>2, <1>3, <1>5 DEF UploadInv

LEMMA CompleteKeeps ==
  ASSUME UploadInv, NEW b \in Batches, CompleteBatch(b)
  PROVE  UploadInv'
<1>1. /\ batch \in [Batches -> Records] /\ run \in [Batches -> Runs] /\ form \in Forms /\ draft \in [Batches -> Lists]
      /\ executed \in [Batches -> Nat] /\ troubles \in 0..MaxTroubles /\ screen \in Screens
      /\ poll \in {"none", "asked", "timer"} /\ stale \subseteq Batches /\ review \in Choices
      /\ TypeOK /\ ScreensFollow /\ Sound(b)
  BY Typing DEF UploadInv
<1>2. /\ batch' = [batch EXCEPT ![b].status = "processing"] /\ run[b].pc = "complete"
      /\ UNCHANGED <<draft, sent, executed, troubles>>
  BY DEF CompleteBatch
<1>3. /\ batch[b].status = "pending_upload" /\ batch[b].declared = run[b].list
      /\ batch[b].stored = batch[b].declared
  BY <1>1, <1>2 DEF Sound, RunDoes
<1>4. /\ batch' \in [Batches -> Records] /\ \A c \in Batches \ {b} : batch'[c] = batch[c]
      /\ batch'[b].status = "processing" /\ batch'[b].declared = batch[b].declared
      /\ batch'[b].stored = batch[b].stored /\ batch'[b].reviewed = batch[b].reviewed
      /\ batch'[b].rows = batch[b].rows /\ batch'[b].resolved = batch[b].resolved
  BY <1>1, <1>2 DEF Records
<1>5. executed[b] = 0
  BY <1>1, <1>2 DEF Sound, RunDoes
<1>6. CASE b \in Holdings
  <2> DEFINE runs == [run EXCEPT ![b].pc = "done"]
  <2>1. Navigate("ocr", b, runs)
    BY <1>6 DEF CompleteBatch
  <2>2. runs \in [Batches -> Runs] /\ runs[b].pc = "done" /\ runs[b].list = run[b].list
        /\ \A c \in Batches \ {b} : runs[c] = run[c]
    BY <1>1 DEF Runs
  <2>3. [name |-> "ocr", b |-> b] \in Screens
    BY DEF Screens
  <2> HIDE DEF runs
  <2>4. /\ screen' \in Screens /\ screen'.name = "ocr" /\ screen'.b = b
        /\ run' \in [Batches -> Runs] /\ SameRuns(runs)
        /\ form' \in Forms /\ review' \in Choices
        /\ poll' \in {"none", "asked", "timer"} /\ stale' \subseteq Batches
    BY <1>1, <2>1, <2>2, <2>3, Navigates
  <2>5. /\ run'[b].pc = "done" /\ run'[b].list = run[b].list
        /\ \A c \in Batches \ {b} : run'[c].pc = run[c].pc /\ run'[c].list = run[c].list
    BY <2>2, <2>4 DEF SameRuns
  <2>6. ServerStep(b)
    BY <1>1, <1>2, <1>4, <2>4, <2>5 DEF ServerStep, Begun
  <2>7. Sound(b)'
    BY <1>1, <1>2, <1>3, <1>4, <1>5, <2>5 DEF Sound, RunDoes, PicturesStored, DraftKept, Decided, Begun
  <2>8. ScreensFollow'
    BY <1>4, <1>6, <2>4, <2>5 DEF ScreensFollow, About, Begun
  <2> QED
    BY <2>4, <2>6, <2>7, <2>8, ServerStepKeeps
<1>7. CASE b \notin Holdings
  <2>1. Goto(b, "poll") /\ UNCHANGED <<screen, form, poll, stale, review>>
    BY <1>7 DEF CompleteBatch
  <2>2. /\ run' \in [Batches -> Runs] /\ run'[b].pc = "poll" /\ run'[b].list = run[b].list
        /\ \A c \in Batches \ {b} : run'[c] = run[c]
    BY <1>1, <2>1, Goes
  <2>3. RunStep(b)
    BY <1>1, <1>2, <1>4, <2>1, <2>2 DEF RunStep, Begun
  <2>4. Sound(b)'
    BY <1>1, <1>2, <1>3, <1>4, <1>5, <2>2 DEF Sound, RunDoes, PicturesStored, DraftKept, Decided, Begun
  <2> QED
    BY <2>3, <2>4, RunStepKeeps
<1> QED
  BY <1>6, <1>7

LEMMA ProcessKeeps ==
  ASSUME UploadInv, NEW b \in Batches, Process(b)
  PROVE  UploadInv'
<1>1. /\ batch \in [Batches -> Records] /\ run \in [Batches -> Runs] /\ form \in Forms /\ draft \in [Batches -> Lists]
      /\ troubles \in 0..MaxTroubles /\ screen \in Screens
      /\ poll \in {"none", "asked", "timer"} /\ stale \subseteq Batches /\ review \in Choices
      /\ TypeOK /\ Sound(b)
  BY Typing DEF UploadInv
<1>2. PICK st \in {"failed", "completed", "needs_review"} : batch' = [batch EXCEPT ![b].status = st]
  BY DEF Process
<1>3. batch[b].status = "processing" /\ UNCHANGED <<run, screen, form, draft, poll, stale, review, sent, executed, troubles>>
  BY DEF Process
<1>4. /\ batch' \in [Batches -> Records] /\ \A c \in Batches \ {b} : batch'[c] = batch[c]
      /\ batch'[b].status = st /\ batch'[b].declared = batch[b].declared
      /\ batch'[b].stored = batch[b].stored /\ batch'[b].reviewed = batch[b].reviewed
      /\ batch'[b].rows = batch[b].rows /\ batch'[b].resolved = batch[b].resolved
  BY <1>1, <1>2 DEF Records
<1>5. ServerStep(b)
  BY <1>1, <1>3, <1>4 DEF ServerStep, Begun
<1>6. Sound(b)'
  <2>1. run[b].pc \notin {"unused", "create", "put", "checksum", "complete"}
    BY <1>1, <1>3, Blank DEF Sound, RunDoes
  <2> QED
    BY <2>1, <1>1, <1>3, <1>4 DEF Sound, RunDoes, PicturesStored, DraftKept, Decided, Begun
<1>7. Lasting
  BY <1>3, <1>4 DEF Lasting, Begun
<1>8. ScreensFollow'
  BY <1>3, <1>7, ScreenLasts
<1> QED
  BY <1>1, <1>3, <1>5, <1>6, <1>8, ServerStepKeeps

\* The server takes the review of a batch.
LEMMA Reviews ==
  ASSUME UploadInv, NEW m \in sent,
         batch' = [batch EXCEPT ![m.b] = Reviewed(@, m)],
         UNCHANGED executed, run'[m.b].pc = run[m.b].pc, run'[m.b].list = run[m.b].list,
         draft'[m.b] \in {draft[m.b], <<>>}
  PROVE  /\ batch' \in [Batches -> Records] /\ Begun(m.b)' /\ Sound(m.b)'
         /\ \A c \in Batches \ {m.b} : batch'[c] = batch[c]
         /\ batch'[m.b].rows \cap m.removed = {}
<1> DEFINE b == m.b
           new == Reviewed(batch[b], m)
<1>1. /\ batch \in [Batches -> Records] /\ m \in Payloads /\ b \in Batches /\ b \in Holdings
      /\ m.removed \subseteq Assets /\ m.resolved \subseteq Ambiguous
      /\ run[b].pc = "done" /\ Begun(b) /\ Sound(b)
      /\ \A a \in Assets \ m.removed : SymbolOf[a] \in Ambiguous => SymbolOf[a] \in m.resolved
  BY Typing DEF UploadInv, ReviewsDecide, Batches, Payloads
<1>2. batch[b] \in Records
  BY <1>1
<1>3. /\ new.status = "processing" /\ new.reviewed = TRUE /\ new.resolved = batch[b].resolved \cup m.resolved
      /\ new.rows = batch[b].rows \ m.removed /\ new.declared = batch[b].declared /\ new.stored = batch[b].stored
      /\ new \in Records
  BY <1>1, <1>2 DEF Reviewed, Records
<1>4. batch' = [batch EXCEPT ![b] = new]
  BY <1>1
<1> HIDE DEF new
<1>5. batch' \in [Batches -> Records] /\ batch'[b] = new /\ \A c \in Batches \ {b} : batch'[c] = batch[c]
  BY <1>1, <1>3, <1>4
<1>6. Begun(b)'
  BY <1>3, <1>5 DEF Begun
<1>7. RunDoes(b)' /\ PicturesStored(b)' /\ DraftKept(b)'
  BY <1>1, <1>3, <1>5 DEF Sound, RunDoes, PicturesStored, DraftKept, Begun
<1>8. Decided(b)'
  BY <1>1, <1>2, <1>3, <1>5 DEF Decided, Records
<1> QED
  BY <1>3, <1>5, <1>6, <1>7, <1>8 DEF Sound

LEMMA AnswerKeeps ==
  ASSUME UploadInv, NEW m \in sent, ConfirmAnswer(m)
  PROVE  UploadInv'
<1> DEFINE b == m.b
<1>1. /\ batch \in [Batches -> Records] /\ run \in [Batches -> Runs] /\ form \in Forms /\ draft \in [Batches -> Lists]
      /\ troubles \in 0..MaxTroubles /\ screen \in Screens
      /\ poll \in {"none", "asked", "timer"} /\ stale \subseteq Batches /\ review \in Choices
      /\ TypeOK /\ ScreensFollow
  BY Typing DEF UploadInv
<1>2. b \in Holdings /\ b \in Batches /\ run[b].pc = "done" /\ Begun(b) /\ Sound(b)
  BY DEF UploadInv, ReviewsDecide, Batches
<1>3. sent' \subseteq sent /\ executed' = executed
  BY DEF ConfirmAnswer
<1>4. CASE ConfirmAnswer(m) /\ UNCHANGED troubles /\ Navigate("report", b, run)
           /\ batch' = [batch EXCEPT ![b] = Reviewed(@, m)] /\ draft' = [draft EXCEPT ![b] = <<>>]
  <2>1. [name |-> "report", b |-> b] \in Screens
    BY <1>2 DEF Screens
  <2>2. /\ screen' \in Screens /\ screen'.name = "report" /\ screen'.b = b
        /\ run' \in [Batches -> Runs] /\ SameRuns(run)
        /\ form' \in Forms /\ review' \in Choices
        /\ poll' \in {"none", "asked", "timer"} /\ (poll' # "none" => "report" = "ocr") /\ stale' \subseteq Batches
    BY <1>1, <1>4, <2>1, Navigates
  <2>3. draft' \in [Batches -> Lists] /\ draft'[b] = <<>> /\ \A c \in Batches \ {b} : draft'[c] = draft[c]
    BY <1>1, <1>2, <1>4, EmptyList
  <2>4. \A c \in Batches : run'[c].pc = run[c].pc /\ run'[c].list = run[c].list
    BY <2>2 DEF SameRuns
  <2>5. /\ batch' \in [Batches -> Records] /\ Begun(b)' /\ Sound(b)'
        /\ \A c \in Batches \ {b} : batch'[c] = batch[c]
    BY <1>2, <1>3, <1>4, <2>3, <2>4, Reviews
  <2>6. ServerStep(b)
    BY <1>1, <1>3, <1>4, <2>2, <2>3, <2>4, <2>5 DEF ServerStep
  <2>7. ScreensFollow'
    BY <1>2, <2>2, <2>4, <2>5 DEF ScreensFollow, About
  <2> QED
    BY <1>2, <2>2, <2>5, <2>6, <2>7, ServerStepKeeps
<1>5. CASE Trouble /\ batch' \in {batch, [batch EXCEPT ![b] = Reviewed(@, m)]}
           /\ UNCHANGED <<run, screen, form, draft, poll, stale, review>>
  <2>1. /\ batch' \in [Batches -> Records] /\ Begun(b)' /\ Sound(b)'
        /\ \A c \in Batches \ {b} : batch'[c] = batch[c]
    <3>1. CASE batch' = batch
      BY <3>1, <1>1, <1>2, <1>3, <1>5 DEF Sound, RunDoes, PicturesStored, DraftKept, Decided, Begun
    <3>2. CASE batch' = [batch EXCEPT ![b] = Reviewed(@, m)]
      BY <3>2, <1>2, <1>3, <1>5, Reviews
    <3> QED
      BY <3>1, <3>2, <1>5
  <2>2. troubles' \in 0..MaxTroubles
    BY <1>1, <1>5, Troubles
  <2>3. ServerStep(b)
    BY <1>1, <1>3, <1>5, <2>1, <2>2 DEF ServerStep
  <2>4. Lasting
    BY <1>5, <2>1 DEF Lasting, Begun
  <2>5. ScreensFollow'
    BY <1>5, <2>4, ScreenLasts
  <2> QED
    BY <1>1, <1>2, <1>5, <2>1, <2>3, <2>5, ServerStepKeeps
<1> QED
  BY <1>4, <1>5 DEF ConfirmAnswer

----------------------------------------------------------------------------
(* The invariant                                                           *)

LEMMA InitUpload == Init => UploadInv
<1> SUFFICES ASSUME Init PROVE UploadInv
  OBVIOUS
<1>1. batch \in [Batches -> Records] /\ draft \in [Batches -> Lists] /\ form \in Forms /\ review \in Choices
  BY Blank, EmptyList DEF Init
<1>2. NewRun \in Runs
  BY EmptyList DEF NewRun, Runs
<1>3. /\ run \in [Batches -> Runs] /\ screen \in Screens /\ poll \in {"none", "asked", "timer"}
      /\ stale \subseteq Batches /\ sent \subseteq Payloads /\ executed \in [Batches -> Nat]
      /\ troubles \in 0..MaxTroubles
  BY <1>2, LimitAssumption DEF Init, Screens
<1>4. TypeOK
  BY <1>1, <1>3, Typing
<1>5. \A b \in Batches : Sound(b)
  <2> TAKE b \in Batches
  <2>1. batch[b] = NewBatch /\ run[b].pc = "unused" /\ draft[b] = <<>> /\ executed[b] = 0
    BY DEF Init, NewRun
  <2> QED
    BY <2>1, Blank DEF Sound, RunDoes, PicturesStored, DraftKept, Decided, Begun
<1>6. ScreensFollow /\ ReviewsDecide
  BY DEF Init, ScreensFollow, ReviewsDecide, About
<1> QED
  BY <1>4, <1>5, <1>6 DEF UploadInv

LEMMA NextUpload == UploadInv /\ [Next]_vars => UploadInv'
<1> SUFFICES ASSUME UploadInv, [Next]_vars PROVE UploadInv'
  OBVIOUS
<1>1. ASSUME Kept, Quiet PROVE UploadInv'
  BY <1>1, QuietKeeps DEF Kept, UploadInv
<1>2. CASE User
  <2>1. CASE (\E name \in {"upload", "slip"} : Open(name)) \/ Leave
    BY <2>1, <1>1, LeavesKeep
  <2>2. CASE Confirm
    BY <2>2, <1>1, ConfirmKeeps
  <2>3. CASE \E p \in Pictures : Pick(p) \/ Remove(p)
    BY <2>3, <1>1, FormsKeep
  <2>4. CASE \E b \in Batches : Press(b)
    BY <2>4, PressKeeps
  <2>5. CASE \/ \E a \in Assets : ToggleRemove(a) \/ \E text \in Texts : UpdateEdit(a, text)
             \/ \E s \in Ambiguous : HandleResolve(s)
    BY <2>5, <1>1, EditsKeep
  <2> QED
    BY <1>2, <2>1, <2>2, <2>3, <2>4, <2>5 DEF User
<1>3. CASE Ocr \/ Restart \/ \E b \in Batches : StaleAnswer(b)
  BY <1>3, <1>1, PollsKeep
<1>4. CASE LoadReview
  BY <1>4, <1>1, EditsKeep
<1>5. ASSUME NEW b \in Batches, Handler(b) \/ UploadFails(b)
      PROVE  UploadInv'
  BY <1>5, CreateKeeps, PutKeeps, FailKeeps, CompleteKeeps, ExecuteKeeps DEF Handler
<1>6. ASSUME NEW b \in Batches, Process(b)
      PROVE  UploadInv'
  BY <1>6, ProcessKeeps
<1>7. ASSUME NEW m \in sent, ConfirmAnswer(m)
      PROVE  UploadInv'
  BY <1>7, AnswerKeeps
<1>8. CASE UNCHANGED vars
  <2>1. Quiet /\ sent' = sent /\ screen' = screen /\ poll' = poll
    BY <1>8, Typing DEF vars, Quiet, SameRuns, UploadInv
  <2>2. TypeOK'
    BY <1>8 DEF vars, UploadInv, TypeOK
  <2>3. Lasting
    BY <2>1, QuietLasts DEF UploadInv
  <2>4. ScreensFollow' /\ ReviewsDecide'
    BY <2>1, <2>3, ScreenLasts, ReviewsLast
  <2> QED
    BY <1>1, <2>1, <2>2, <2>4 DEF Kept
<1> QED
  BY <1>2, <1>3, <1>4, <1>5, <1>6, <1>7, <1>8 DEF Next

LEMMA UploadInvariant == Spec => []UploadInv
<1> QED
  BY InitUpload, NextUpload, PTL DEF Spec

(* Whatever the user does while pictures, answers and confirmations are    *)
(* under way, and whatever is lost: each image id gets its own picture, no *)
(* asset of an ambiguous symbol is confirmed unchosen, and a slip executes *)
(* its insight at most once (handleUpload, handleConfirm, the poll of the  *)
(* slip).                                                                  *)
THEOREM ScansFaithful == Spec => []ScansAreFaithful
<1>1. UploadInv => ScansAreFaithful
  <2> SUFFICES ASSUME UploadInv PROVE ScansAreFaithful
    OBVIOUS
  <2>1. PicturesMatch
    <3> SUFFICES ASSUME NEW b \in Batches
                 PROVE  /\ \A i \in DOMAIN batch[b].stored : batch[b].stored[i] \in {NoPicture, batch[b].declared[i]}
                        /\ draft[b] \in {<<>>, batch[b].declared}
                        /\ Begun(b) => batch[b].stored = batch[b].declared
                        /\ screen.name = "review" /\ screen.b = b => draft[b] = batch[b].declared \/ batch[b].reviewed
      BY DEF PicturesMatch, Begun
    <3>1. Sound(b)
      BY DEF UploadInv
    <3>2. screen.name = "review" /\ screen.b = b => b \in Holdings /\ Begun(b)
      BY DEF UploadInv, ScreensFollow, About
    <3> QED
      BY <3>1, <3>2 DEF Sound, PicturesStored, DraftKept, Begun
  <2>2. NothingGuessed
    BY DEF UploadInv, Sound, Decided, NothingGuessed
  <2>3. SlipExecutesOnce
    BY DEF UploadInv, Sound, RunDoes, SlipExecutesOnce
  <2> QED
    BY <2>1, <2>2, <2>3 DEF UploadInv, ScansAreFaithful
<1> QED
  BY <1>1, UploadInvariant, PTL

(* An answered Confirm leaves nothing in the batch that the screen showed  *)
(* as removed, however many other presses are on their way, and a review   *)
(* is opened only by the screen that waits for its batch (buildEdits,      *)
(* handleConfirm, the flag active of processing-ocr).                      *)
THEOREM ScreensKept == Spec => ScreensKeepStep
<1>1. UploadInv /\ [Next]_vars =>
        [\A m \in sent \ sent' : troubles' = troubles => batch'[m.b].rows \cap m.shown = {}]_vars
  <2> SUFFICES ASSUME UploadInv, Next, NEW m \in sent \ sent', troubles' = troubles
               PROVE  batch'[m.b].rows \cap m.shown = {}
    OBVIOUS
  <2>1. ConfirmAnswer(m)
    <3>1. CASE \E k \in sent : ConfirmAnswer(k)
      BY <3>1 DEF ConfirmAnswer
    <3>2. CASE ~\E k \in sent : ConfirmAnswer(k)
      <4>1. sent \subseteq sent'
        BY <3>2 DEF Next, User, Ocr, Handler, Open, Leave, Confirm, Pick, Remove, Press, ToggleRemove, UpdateEdit,
             HandleResolve, PollAnswer, PollTimer, Restart, LoadReview, CreateBatch, Put, Checksum, CompleteBatch,
             PollSlip, Execute, UploadFails, StaleAnswer, Process
      <4> QED
        BY <4>1
    <3> QED
      BY <3>1, <3>2
  <2>2. troubles \in Nat /\ m.removed = m.shown /\ m.b \in Batches
    BY LimitAssumption DEF UploadInv, TypeOK, ReviewsDecide, Batches
  <2>3. /\ batch' = [batch EXCEPT ![m.b] = Reviewed(@, m)] /\ draft' = [draft EXCEPT ![m.b] = <<>>]
        /\ Navigate("report", m.b, run) /\ UNCHANGED executed
    BY <2>1, <2>2 DEF ConfirmAnswer, Trouble
  <2>4. batch[m.b] \in Records
    BY <2>2, Typing DEF UploadInv
  <2>5. Reviewed(batch[m.b], m).rows = batch[m.b].rows \ m.removed
    BY <2>4 DEF Reviewed, Records
  <2>6. batch'[m.b] = Reviewed(batch[m.b], m)
    BY <2>2, <2>3, Typing DEF UploadInv
  <2> QED
    BY <2>2, <2>5, <2>6
<1>2. UploadInv /\ [Next]_vars =>
        [screen'.name = "review" /\ screen # screen' =>
            screen.name \in {"ocr", "failed"} /\ screen'.b = screen.b]_vars
  <2> SUFFICES ASSUME UploadInv, Next, screen'.name = "review", screen # screen'
               PROVE  screen.name \in {"ocr", "failed"} /\ screen'.b = screen.b
    OBVIOUS
  <2>1. PollAnswer
    <3>1. CASE ~PollAnswer
      <4>1. ASSUME NEW name, NEW b, NEW runs, Navigate(name, b, runs)
            PROVE  screen'.name = name
        BY <4>1 DEF Navigate
      <4>2. \/ UNCHANGED screen
            \/ \E name \in {"upload", "slip", "assets", "ocr", "report"}, b \in Batches \cup {NoBatch}, runs \in {run, run'} :
                 Navigate(name, b, runs)
            \/ \E b \in Batches : CompleteBatch(b)
            \/ \E m \in sent : ConfirmAnswer(m)
        BY <3>1 DEF Next, User, Ocr, Handler, Open, Leave, Confirm, Pick, Remove, Press, ToggleRemove, UpdateEdit,
             HandleResolve, PollTimer, Restart, LoadReview, CreateBatch, Put, Checksum,
             PollSlip, Execute, UploadFails, StaleAnswer, Process
      <4>3. ASSUME NEW b \in Batches, CompleteBatch(b) PROVE UNCHANGED screen \/ screen'.name = "ocr"
        BY <4>1, <4>3 DEF CompleteBatch
      <4>4. ASSUME NEW m \in sent, ConfirmAnswer(m) PROVE UNCHANGED screen \/ screen'.name = "report"
        BY <4>1, <4>4 DEF ConfirmAnswer
      <4> QED
        BY <4>1, <4>2, <4>3, <4>4
    <3> QED
      BY <3>1
  <2>2. screen \in Screens
    BY Typing DEF UploadInv
  <2> QED
    BY <2>1, <2>2 DEF PollAnswer, Answered, Navigate, Screens
<1> QED
  BY <1>1, <1>2, UploadInvariant, PTL DEF Spec, ScreensKeepStep, RemovalsHold, ReviewFollowsWait

----------------------------------------------------------------------------
(* The report screens: proofs about ClientReport, which shares no state with *)
(* the uploads, for any snapshots and every bound.                           *)

CONSTANTS Snapshots, Scan, None, MaxDepth, MaxReportTroubles
VARIABLES tiers, entitled, scan, prof, cache, stack, view, posts, reportTroubles

R == INSTANCE ClientReport WITH MaxTroubles <- MaxReportTroubles, troubles <- reportTroubles

----------------------------------------------------------------------------
(* The stack of screens                                                    *)

\* A screen without a snapshot waits for its batch, or for nothing: it is never
\* one to ask for a report of, nor to pay for.
Knows(opened, v) ==
    opened.s = None =>
        opened.name # "paywall" /\ v.step \notin {"post", "fetch", "timer", "shown"} /\ ~v.late
Named == \A i \in DOMAIN stack : Knows(stack[i], view[i])
StackInv ==
    /\ stack \in Seq(R!Entries) /\ Len(stack) \in 1..MaxDepth + 1
    /\ view \in Seq(R!Views) /\ Len(view) = Len(stack)
    /\ posts \subseteq R!All
    /\ Named

\* The stack and its states have one length, and a front.
LEMMA StackOK ==
    ASSUME R!ScanAssumption, R!TypeOK
    PROVE  /\ Len(stack) \in Nat \ {0} /\ Len(stack) = Len(view)
           /\ DOMAIN stack = 1..Len(stack) /\ DOMAIN view = 1..Len(stack)
           /\ stack \in [1..Len(stack) -> R!Entries] /\ view \in [1..Len(stack) -> R!Views]
           /\ R!Top \in R!Entries /\ R!Front \in R!Views
<1>1. /\ Len(stack) \in Nat \ {0} /\ Len(stack) = Len(view)
      /\ stack \in Seq(R!Entries) /\ view \in Seq(R!Views)
  BY DEF R!TypeOK, R!ScanAssumption
<1>. QED BY <1>1, LenProperties DEF R!Top, R!Front

\* A screen begins with a state, and asks for nothing before it knows of what.
LEMMA FreshOK ==
    ASSUME NEW opened \in R!Entries, opened.s = None => opened.name \in {"tabs", "preview", "paid"}
    PROVE  R!Fresh(opened) \in R!Views /\ Knows(opened, R!Fresh(opened))
<1>1. ASSUME NEW step \in R!Polling \cup {"none", "stopped", "shown"}
      PROVE  R!View(step) \in R!Views /\ R!View(step).step = step /\ R!View(step).late = FALSE
  BY DEF R!View, R!Views
<1>2. opened.name \in R!Names BY DEF R!Entries
<1>3. CASE opened.name \in {"preview", "paid"}
  <2>1. R!Fresh(opened) = R!View(IF opened.s = None THEN "batch" ELSE IF opened.name = "paid" THEN "post" ELSE "fetch")
    BY <1>3 DEF R!Fresh
  <2>. QED BY <1>1, <1>3, <2>1 DEF Knows, R!Polling
<1>4. CASE opened.name \in {"report", "archived"}
  <2>1. R!Fresh(opened) = R!View("fetch") BY <1>4 DEF R!Fresh
  <2>. QED BY <1>1, <1>4, <2>1 DEF Knows, R!Polling
<1>5. CASE opened.name \notin {"preview", "paid", "report", "archived"}
  <2>1. R!Fresh(opened) = R!View("none") BY <1>5 DEF R!Fresh
  <2>. QED BY <1>1, <1>5, <2>1 DEF Knows
<1>. QED BY <1>3, <1>4, <1>5

\* A sequence is a function on its places.
LEMMA SeqOf == ASSUME NEW S, NEW n \in Nat, NEW f \in [1..n -> S] PROVE f \in Seq(S) /\ Len(f) = n
OBVIOUS

\* A navigation to screens that know what they are about keeps the types.
LEMMA NavigatedOK ==
    ASSUME R!ScanAssumption, R!TypeOK, Named, R!Navigated,
           stack' \in Seq(R!Entries), Len(stack') \in 1..MaxDepth + 1,
           \A i \in DOMAIN stack' : R!Kept(i) \/ (stack'[i].s = None => stack'[i].name \in {"tabs", "preview", "paid"})
    PROVE  StackInv'
<1>. DEFINE V(i) == IF R!Kept(i) THEN view[i] ELSE R!Fresh(stack'[i])
<1>1. Len(stack') \in Nat /\ DOMAIN stack' = 1..Len(stack') BY LenProperties
<1>2. ASSUME NEW i \in DOMAIN stack' PROVE V(i) \in R!Views /\ Knows(stack'[i], V(i))
  <2>1. CASE R!Kept(i)
    <3>1. i \in DOMAIN stack /\ stack'[i] = stack[i] BY <2>1 DEF R!Kept
    <3>. QED BY <2>1, <3>1, StackOK DEF Named
  <2>2. CASE ~R!Kept(i)
    <3>1. stack'[i] \in R!Entries BY <1>1, ElementOfSeq
    <3>. QED BY <2>2, <3>1, FreshOK
  <2>. QED BY <2>1, <2>2
<1>3. view' = [i \in DOMAIN stack' |-> V(i)] BY DEF R!Navigated
<1>4. view' \in [1..Len(stack') -> R!Views] BY <1>1, <1>2, <1>3
<1>5. view' \in Seq(R!Views) /\ Len(view') = Len(stack') BY <1>1, <1>4, SeqOf
<1>6. Named' BY <1>2, <1>3 DEF Named
<1>7. posts' \subseteq R!All
  <2>1. ASSUME NEW k \in DOMAIN stack, R!Posting(k) PROVE stack[k].s \in R!All
    BY <2>1, StackOK DEF R!Posting, Named, Knows, R!Entries
  <2>2. posts' = posts \cup {stack[i].s : i \in {k \in DOMAIN stack : ~R!Kept(k) /\ R!Posting(k)}} BY DEF R!Navigated
  <2>. QED BY <2>1, <2>2 DEF R!TypeOK
<1>. QED BY <1>5, <1>6, <1>7 DEF StackInv

\* A screen that opens above the others knows what it is about.
LEMMA PushOK ==
    ASSUME R!ScanAssumption, R!TypeOK, Named, NEW name \in R!Names, NEW s \in R!All \cup {None}, R!Push(name, s),
           s = None => name \in {"preview", "paid"}
    PROVE  StackInv'
<1>. DEFINE opened == [name |-> name, s |-> s]
<1>1. opened \in R!Entries /\ opened.s = s /\ opened.name = name BY DEF R!Entries
<1>2. stack' = Append(stack, opened) /\ Len(stack) <= MaxDepth /\ R!Navigated BY DEF R!Push
<1>. HIDE DEF opened
<1>3. stack' \in Seq(R!Entries) /\ Len(stack') = Len(stack) + 1 BY <1>1, <1>2 DEF R!TypeOK
<1>4. /\ DOMAIN stack' = 1..Len(stack) + 1 /\ stack'[Len(stack) + 1] = opened
      /\ \A i \in 1..Len(stack) : stack'[i] = stack[i]
  BY <1>1, <1>2, <1>3 DEF R!TypeOK
<1>5. \A i \in DOMAIN stack' : R!Kept(i) \/ (stack'[i].s = None => stack'[i].name \in {"tabs", "preview", "paid"})
  BY <1>1, <1>4, StackOK DEF R!Kept
<1>6. Len(stack') \in 1..MaxDepth + 1 BY <1>2, <1>3, StackOK DEF R!ScanAssumption
<1>. QED BY <1>2, <1>3, <1>5, <1>6, NavigatedOK

\* So does one that takes the place of the one in front.
LEMMA ReplaceOK ==
    ASSUME R!ScanAssumption, R!TypeOK, Named, NEW name \in R!Names, NEW s \in R!All \cup {None}, R!Replace(name, s),
           s = None => name \in {"preview", "paid"}
    PROVE  StackInv'
<1>. DEFINE opened == [name |-> name, s |-> s]
<1>1. opened \in R!Entries /\ opened.s = s /\ opened.name = name BY DEF R!Entries
<1>2. stack' = [stack EXCEPT ![Len(stack)] = opened] /\ R!Navigated BY DEF R!Replace
<1>. HIDE DEF opened
<1>a. Len(stack) \in Nat \ {0} /\ DOMAIN stack = 1..Len(stack) BY StackOK
<1>3. /\ stack' \in Seq(R!Entries) /\ Len(stack') = Len(stack) /\ DOMAIN stack' = 1..Len(stack)
      /\ \A i \in 1..Len(stack) : stack'[i] = IF i = Len(stack) THEN opened ELSE stack[i]
  BY <1>1, <1>2, StackOK, ExceptSeq, LenProperties DEF R!TypeOK
<1>4. \A i \in DOMAIN stack' : R!Kept(i) \/ (stack'[i].s = None => stack'[i].name \in {"tabs", "preview", "paid"})
  BY <1>a, <1>1, <1>3 DEF R!Kept
<1>. QED BY <1>2, <1>3, <1>4, NavigatedOK DEF R!TypeOK

\* What becomes of the state of the screen in front.
LEMMA BecomeOK ==
    ASSUME R!ScanAssumption, R!TypeOK, Named, NEW v \in R!Views, R!Become(v), UNCHANGED stack, posts' \subseteq R!All,
           Knows(R!Top, v)
    PROVE  StackInv'
<1>a. /\ Len(stack) \in Nat \ {0} /\ Len(view) = Len(stack) /\ DOMAIN stack = 1..Len(stack)
      /\ view \in [1..Len(stack) -> R!Views]
  BY StackOK
<1>1. view' = [view EXCEPT ![Len(stack)] = v] BY <1>a DEF R!Become
<1>2. /\ view' \in [1..Len(stack) -> R!Views]
      /\ \A i \in 1..Len(stack) : view'[i] = IF i = Len(stack) THEN v ELSE view[i]
  BY <1>a, <1>1
<1>3. view' \in Seq(R!Views) /\ Len(view') = Len(stack) BY <1>a, <1>2, SeqOf
<1>4. Named' BY <1>a, <1>2 DEF Named, R!Top
<1>. QED BY <1>3, <1>4 DEF StackInv, R!TypeOK

----------------------------------------------------------------------------
(* Types                                                                   *)

\* A tier that is set has a status.
LEMMA TierOK ==
    ASSUME R!TypeOK, NEW s \in R!All, NEW status \in R!Statuses
    PROVE  /\ [tiers EXCEPT ![s].paid = status] \in [R!All -> [preview : R!Statuses, paid : R!Statuses]]
           /\ [tiers EXCEPT ![s].preview = status] \in [R!All -> [preview : R!Statuses, paid : R!Statuses]]
           /\ \A tier \in {"preview", "paid"} :
                  [tiers EXCEPT ![s][tier] = status] \in [R!All -> [preview : R!Statuses, paid : R!Statuses]]
<1>1. tiers[s] \in [preview : R!Statuses, paid : R!Statuses] BY DEF R!TypeOK
<1>2. [tiers[s] EXCEPT !.paid = status] \in [preview : R!Statuses, paid : R!Statuses] BY <1>1
<1>3. [tiers EXCEPT ![s].paid = status] = [tiers EXCEPT ![s] = [tiers[s] EXCEPT !.paid = status]] OBVIOUS
<1>. QED BY <1>1, <1>2, <1>3 DEF R!TypeOK

\* What the rest of the state is made of.
RestInv ==
    /\ tiers \in [R!All -> [preview : R!Statuses, paid : R!Statuses]]
    /\ {entitled, prof} \subseteq BOOLEAN
    /\ scan \in {"none", "sent", "completed", "failed"}
    /\ cache \in [R!All -> {"none", "preview", "paid"}]
    /\ reportTroubles \in 0..MaxReportTroubles

\* The two together are the type invariant, with what the screens know.
LEMMA TypesSplit == (R!TypeOK /\ Named) <=> (StackInv /\ RestInv)
BY DEF R!TypeOK, StackInv, RestInv

\* A trouble is within its bound.
LEMMA TroubleOK ==
    ASSUME R!TypeOK, R!ScanAssumption, R!Trouble \/ UNCHANGED reportTroubles
    PROVE  reportTroubles' \in 0..MaxReportTroubles
BY DEF R!TypeOK, R!Trouble, R!ScanAssumption

\* The front screen knows what it asks for.
LEMMA FrontOK ==
    ASSUME R!ScanAssumption, R!TypeOK, Named
    PROVE  /\ Knows(R!Top, R!Front) /\ R!Top.name \in R!Names /\ R!Top.s \in R!All \cup {None}
           /\ R!Front.step \in {"post", "fetch", "timer", "shown"} \/ R!Front.late \/ R!Top.name = "paywall"
                  => R!Top.s \in R!All
<1>1. Knows(R!Top, R!Front) BY StackOK DEF Named, R!Top, R!Front
<1>. QED BY <1>1, StackOK DEF Knows, R!Entries

\* A step of the screen in front leaves it the knowledge it has, if it asks for
\* something it asked for before, or stops.
LEMMA StepOK ==
    ASSUME R!ScanAssumption, R!TypeOK, Named, NEW step \in {"post", "fetch", "timer", "shown", "stopped"},
           R!Step(step), UNCHANGED stack, posts' \subseteq R!All,
           step = "stopped" \/ R!Front.step \in {"post", "fetch", "timer", "shown"} \/ R!Front.late
    PROVE  StackInv'
<1>. DEFINE v == [R!Front EXCEPT !.step = step]
<1>1. v \in R!Views /\ v.step = step /\ v.late = R!Front.late BY StackOK DEF R!Views, R!Polling
<1>2. R!Become(v) BY DEF R!Step
<1>. HIDE DEF v
<1>3. Knows(R!Top, v) BY <1>1, FrontOK DEF Knows
<1>. QED BY <1>1, <1>2, <1>3, BecomeOK

\* A failed request stops the screen and changes nothing else.
LEMMA FailsOK == ASSUME R!ScanAssumption, R!TypeOK, Named, R!Fails PROVE StackInv' /\ RestInv'
<1>1. R!Step("stopped") /\ R!Trouble /\ R!Stays BY DEF R!Fails
<1>2. StackInv' BY <1>1, StepOK DEF R!Stays, R!TypeOK
<1>. QED BY <1>1, <1>2, TroubleOK DEF R!Stays, R!server, RestInv, R!TypeOK

\* The user's steps keep the types.
LEMMA UserTypes ==
    ASSUME R!ScanAssumption, R!TypeOK, Named,
           \/ R!Confirm \/ R!Back \/ R!Unlock \/ R!Buy \/ R!ClosePaywall
           \/ \E s \in R!All : \E name \in {"preview", "paid", "report", "archived"} : R!Open(name, s)
    PROVE  StackInv' /\ RestInv'
<1>1. ASSUME NEW s \in R!All, NEW name \in {"preview", "paid", "report", "archived"}, R!Open(name, s)
      PROVE  StackInv' /\ RestInv'
  <2>1. name \in R!Names /\ s # None /\ R!Push(name, s) BY <1>1 DEF R!Open, R!Names, R!ScanAssumption
  <2>2. StackInv' BY <2>1, PushOK
  <2>. QED BY <1>1, <2>2 DEF R!Open, R!server, RestInv, R!TypeOK
<1>2. CASE R!Confirm
  <2>1. PICK name \in {"preview", "paid"} : R!Push(name, None) BY <1>2 DEF R!Confirm
  <2>2. name \in R!Names BY DEF R!Names
  <2>3. StackInv' BY <2>1, <2>2, PushOK
  <2>. QED BY <1>2, <2>3 DEF R!Confirm, RestInv, R!TypeOK
<1>3. CASE R!Back
  <2>. DEFINE n == Len(stack) - 1
  <2>1. n \in Nat \ {0} /\ stack' = SubSeq(stack, 1, n) /\ R!Navigated BY <1>3, StackOK DEF R!Back
  <2>2. /\ stack' \in Seq(R!Entries) /\ Len(stack') = n /\ DOMAIN stack' = 1..n
        /\ \A i \in 1..n : stack'[i] = stack[i]
    BY <2>1, StackOK, SubSeqProperties, LenProperties DEF R!TypeOK
  <2>3. \A i \in DOMAIN stack' : R!Kept(i) BY <2>2, StackOK DEF R!Kept
  <2>4. Len(stack') \in 1..MaxDepth + 1 BY <2>1, <2>2 DEF R!TypeOK, R!ScanAssumption
  <2>5. StackInv' BY <2>1, <2>2, <2>3, <2>4, NavigatedOK
  <2>. QED BY <1>3, <2>5 DEF R!Back, R!server, RestInv, R!TypeOK
<1>4. CASE R!Unlock
  <2>1. "paywall" \in R!Names /\ R!Top.s \in R!All /\ R!Top.s # None /\ R!Push("paywall", R!Top.s)
    BY <1>4, FrontOK DEF R!Unlock, R!Names, R!ScanAssumption
  <2>2. StackInv' BY <2>1, PushOK
  <2>. QED BY <1>4, <2>2 DEF R!Unlock, R!server, RestInv, R!TypeOK
<1>5. CASE R!Buy
  <2>. DEFINE opened == [name |-> "paid", s |-> R!Top.s]
  <2>1. R!Top.s \in R!All BY <1>5, FrontOK DEF R!Buy
  <2>2. opened \in R!Entries /\ opened.s # None BY <2>1 DEF R!Entries, R!Names, R!ScanAssumption
  <2>3. R!View("post") \in R!Views BY DEF R!View, R!Views, R!Polling
  <2>4. /\ stack' = [stack EXCEPT ![Len(stack)] = opened] /\ view' = [view EXCEPT ![Len(stack)] = R!View("post")]
        /\ posts' = posts \cup {R!Top.s}
    BY <1>5, StackOK DEF R!Buy
  <2>. HIDE DEF opened
  <2>a. /\ Len(stack) \in Nat \ {0} /\ DOMAIN stack = 1..Len(stack)
        /\ stack \in [1..Len(stack) -> R!Entries] /\ view \in [1..Len(stack) -> R!Views]
    BY StackOK
  <2>5. /\ stack' \in [1..Len(stack) -> R!Entries] /\ view' \in [1..Len(stack) -> R!Views]
        /\ \A i \in 1..Len(stack) : /\ stack'[i] = IF i = Len(stack) THEN opened ELSE stack[i]
                                    /\ view'[i] = IF i = Len(stack) THEN R!View("post") ELSE view[i]
    BY <2>2, <2>3, <2>4, <2>a
  <2>6. stack' \in Seq(R!Entries) /\ Len(stack') = Len(stack) /\ view' \in Seq(R!Views) /\ Len(view') = Len(stack)
    BY <2>5, <2>a, SeqOf
  <2>7. Named' BY <2>2, <2>5, <2>a DEF Named, Knows
  <2>8. StackInv' BY <2>1, <2>4, <2>6, <2>7 DEF StackInv, R!TypeOK
  <2>. QED BY <1>5, <2>8 DEF R!Buy, RestInv, R!TypeOK
<1>6. CASE R!ClosePaywall
  <2>1. R!Tabs \in R!Entries /\ R!Tabs.name = "tabs" BY DEF R!Tabs, R!Entries, R!Names
  <2>2. stack' = <<R!Tabs>> /\ R!Navigated BY <1>6 DEF R!ClosePaywall
  <2>3. stack' \in Seq(R!Entries) /\ Len(stack') = 1 /\ DOMAIN stack' = {1} /\ stack'[1] = R!Tabs BY <2>1, <2>2
  <2>4. Len(stack') \in 1..MaxDepth + 1 BY <2>3 DEF R!ScanAssumption
  <2>5. StackInv' BY <2>1, <2>2, <2>3, <2>4, NavigatedOK
  <2>. QED BY <1>6, <2>5 DEF R!ClosePaywall, R!server, RestInv, R!TypeOK
<1>. QED BY <1>1, <1>2, <1>3, <1>4, <1>5, <1>6

\* A request for a paid report changes a tier of a snapshot, if anything.
LEMMA RequestOK ==
    ASSUME R!ScanAssumption, R!TypeOK, NEW s \in R!All,
           R!RequestPaid(s) \/ (R!Refused \/ UNCHANGED <<R!server, prof, cache, stack, reportTroubles>>)
    PROVE  RestInv' /\ UNCHANGED stack
<1>1. CASE R!RequestPaid(s)
  <2>1. tiers' = tiers \/ tiers' = [tiers EXCEPT ![s].paid = "processing"] BY <1>1 DEF R!RequestPaid
  <2>2. tiers' \in [R!All -> [preview : R!Statuses, paid : R!Statuses]]
    <3>1. "processing" \in R!Statuses BY DEF R!Statuses
    <3>2. [tiers EXCEPT ![s].paid = "processing"] \in [R!All -> [preview : R!Statuses, paid : R!Statuses]]
      BY <3>1, TierOK, Zenon
    <3>3. tiers \in [R!All -> [preview : R!Statuses, paid : R!Statuses]] BY DEF R!TypeOK
    <3>. QED BY <2>1, <3>2, <3>3, Zenon
  <2>. QED BY <1>1, <2>2 DEF R!RequestPaid, RestInv, R!TypeOK
<1>2. CASE ~R!RequestPaid(s) BY <1>2 DEF R!Refused, R!server, RestInv, R!TypeOK
<1>. QED BY <1>1, <1>2

\* What the server answers to a request for a report is in the cache's terms.
LEMMA ReportOK == ASSUME NEW s PROVE R!Report(s) \in {"none", "preview", "paid"}
BY DEF R!Report

\* The polls of the batch, the preview and the report keep the types.
LEMMA PollTypes ==
    ASSUME R!ScanAssumption, R!TypeOK, Named,
           \/ R!BatchAnswer \/ R!PreviewAnswer \/ R!PaidAnswer \/ R!ReportAnswer \/ R!ReportRedirect
           \/ R!ArchivedAnswer \/ R!Timer \/ R!NewToken
    PROVE  StackInv' /\ RestInv'
<1>. USE DEF R!server
<1>1. CASE R!BatchAnswer
  <2>1. CASE scan = "completed" /\ R!Replace(R!Top.name, Scan) /\ UNCHANGED <<R!server, prof, cache, reportTroubles>>
    <3>1. R!Top.name \in R!Names /\ Scan \in R!All /\ Scan # None BY FrontOK DEF R!All, R!ScanAssumption
    <3>2. StackInv' BY <2>1, <3>1, ReplaceOK
    <3>. QED BY <2>1, <3>2 DEF RestInv, R!TypeOK
  <2>2. CASE R!Step("stopped") /\ R!Stays /\ UNCHANGED reportTroubles
    <3>1. StackInv' BY <2>2, StepOK DEF R!Stays, R!TypeOK
    <3>. QED BY <2>2, <3>1 DEF R!Stays, RestInv, R!TypeOK
  <2>3. CASE R!Fails BY <2>3, FailsOK
  <2>. QED BY <1>1, <2>1, <2>2, <2>3 DEF R!BatchAnswer
<1>2. CASE R!PreviewAnswer
  <2>1. CASE R!Fails BY <2>1, FailsOK
  <2>2. ASSUME NEW step \in {"shown", "timer"}, R!Step(step), R!Stays, UNCHANGED reportTroubles PROVE StackInv' /\ RestInv'
    <3>1. StackInv' BY <1>2, <2>2, StepOK DEF R!PreviewAnswer, R!Stays, R!TypeOK
    <3>. QED BY <2>2, <3>1 DEF R!Stays, RestInv, R!TypeOK
  <2>. QED BY <1>2, <2>1, <2>2 DEF R!PreviewAnswer
<1>3. CASE R!PaidAnswer
  <2>1. CASE R!Fails BY <2>1, FailsOK
  <2>2. CASE R!Replace("report", R!Top.s) /\ UNCHANGED <<R!server, prof, cache, reportTroubles>>
    <3>1. "report" \in R!Names /\ R!Top.s \in R!All /\ R!Top.s # None
      BY <1>3, FrontOK DEF R!PaidAnswer, R!Names, R!ScanAssumption
    <3>2. StackInv' BY <2>2, <3>1, ReplaceOK
    <3>. QED BY <2>2, <3>2 DEF RestInv, R!TypeOK
  <2>3. CASE R!Step("timer") /\ UNCHANGED <<stack, posts, R!server, prof, cache, reportTroubles>>
    <3>1. StackInv' BY <1>3, <2>3, StepOK DEF R!PaidAnswer, R!TypeOK
    <3>. QED BY <2>3, <3>1 DEF RestInv, R!TypeOK
  <2>. QED BY <1>3, <2>1, <2>2, <2>3 DEF R!PaidAnswer
<1>4. CASE R!ReportAnswer
  <2>1. CASE R!Step("timer") /\ R!Trouble /\ R!Stays
    <3>1. StackInv' BY <1>4, <2>1, StepOK DEF R!ReportAnswer, R!Stays, R!TypeOK
    <3>. QED BY <2>1, <3>1, TroubleOK DEF R!Stays, RestInv, R!TypeOK
  <2>2. ASSUME NEW got \in {"none", "preview", "paid"}, NEW step \in {"timer", "shown"}, R!Step(step),
               cache' = [cache EXCEPT ![R!Top.s] = got], UNCHANGED <<R!server, prof, stack, posts, reportTroubles>>
        PROVE  StackInv' /\ RestInv'
    <3>1. StackInv' BY <1>4, <2>2, StepOK DEF R!ReportAnswer, R!TypeOK
    <3>. QED BY <2>2, <3>1 DEF RestInv, R!TypeOK
  <2>3. (IF prof /\ R!Report(R!Top.s) = "preview" THEN "none" ELSE R!Report(R!Top.s)) \in {"none", "preview", "paid"}
    BY ReportOK
  <2>. QED BY <1>4, <2>1, <2>2, <2>3 DEF R!ReportAnswer
<1>5. CASE R!ReportRedirect
  <2>1. "preview" \in R!Names /\ R!Top.s \in R!All \cup {None} /\ R!Replace("preview", R!Top.s)
    BY <1>5, FrontOK DEF R!ReportRedirect, R!Names
  <2>2. StackInv' BY <2>1, ReplaceOK
  <2>. QED BY <1>5, <2>2 DEF R!ReportRedirect, RestInv, R!TypeOK
<1>6. CASE R!ArchivedAnswer
  <2>1. CASE R!Fails BY <2>1, FailsOK
  <2>2. ASSUME NEW got \in {"none", "preview", "paid"} \cup {cache[R!Top.s]}, NEW step \in {"stopped", "shown"},
               R!Step(step), cache' = [cache EXCEPT ![R!Top.s] = got], UNCHANGED <<R!server, prof, stack, posts, reportTroubles>>
        PROVE  StackInv' /\ RestInv'
    <3>1. StackInv' BY <1>6, <2>2, StepOK DEF R!ArchivedAnswer, R!TypeOK
    <3>2. R!Top.s \in R!All BY <1>6, FrontOK DEF R!ArchivedAnswer
    <3>. QED BY <2>2, <3>1, <3>2 DEF RestInv, R!TypeOK
  <2>. QED BY <1>6, <2>1, <2>2, ReportOK DEF R!ArchivedAnswer
<1>7. CASE R!Timer
  <2>1. StackInv' BY <1>7, StepOK DEF R!Timer, R!Stays, R!TypeOK
  <2>. QED BY <1>7, <2>1 DEF R!Timer, R!Stays, RestInv, R!TypeOK
<1>8. CASE R!NewToken
  <2>1. R!Top.s # None /\ R!Trouble /\ R!Stays BY <1>8 DEF R!NewToken
  <2>2. PICK l \in BOOLEAN, step \in {"fetch", "post"} : R!Become([R!Front EXCEPT !.late = l, !.step = step])
    <3>1. (R!Front.late \/ R!Front.step = "post") \in BOOLEAN BY StackOK DEF R!Views
    <3>. QED BY <1>8, <3>1, Zenon DEF R!NewToken
  <2>. DEFINE v == [R!Front EXCEPT !.late = l, !.step = step]
  <2>3. v \in R!Views BY StackOK DEF R!Views, R!Polling
  <2>4. Knows(R!Top, v) BY <2>1 DEF Knows
  <2>. HIDE DEF v
  <2>5. StackInv' BY <2>1, <2>2, <2>3, <2>4, BecomeOK DEF v, R!Stays, R!TypeOK
  <2>. QED BY <2>1, <2>5, TroubleOK DEF R!Stays, RestInv, R!TypeOK
<1>. QED BY <1>1, <1>2, <1>3, <1>4, <1>5, <1>6, <1>7, <1>8

\* So do the requests for a paid report.
LEMMA PostTypes ==
    ASSUME R!ScanAssumption, R!TypeOK, Named,
           R!PaidPost \/ R!LatePost \/ \E s \in R!All : R!OrphanPost(s)
    PROVE  StackInv' /\ RestInv'
<1>. USE DEF R!server
<1>1. CASE R!PaidPost
  <2>1. R!Top.s \in R!All /\ R!Front.step = "post" BY <1>1, FrontOK DEF R!PaidPost
  <2>2. CASE R!Fails BY <2>2, FailsOK
  <2>3. CASE R!RequestPaid(R!Top.s) /\ R!Requested /\ UNCHANGED posts
    <3>. DEFINE v == [R!Front EXCEPT !.step = "fetch", !.requested = TRUE]
    <3>1. v \in R!Views /\ R!Become(v) BY <2>3, StackOK DEF R!Requested, R!Views, R!Polling
    <3>2. Knows(R!Top, v) BY <2>1 DEF Knows, R!ScanAssumption
    <3>3. RestInv' /\ UNCHANGED stack BY <2>1, <2>3, RequestOK
    <3>. HIDE DEF v
    <3>. QED BY <2>3, <3>1, <3>2, <3>3, BecomeOK DEF R!TypeOK
  <2>4. CASE R!Refused /\ R!Step("stopped") /\ UNCHANGED posts
    <3>1. RestInv' /\ UNCHANGED stack BY <2>1, <2>4, RequestOK
    <3>. QED BY <2>4, <3>1, StepOK DEF R!TypeOK
  <2>. QED BY <1>1, <2>2, <2>3, <2>4 DEF R!PaidPost
<1>2. CASE R!LatePost
  <2>1. R!Top.s \in R!All /\ UNCHANGED posts BY <1>2, FrontOK DEF R!LatePost
  <2>2. PICK v \in R!Views : R!Become(v)
    <3>1. [R!Front EXCEPT !.late = FALSE] \in R!Views BY StackOK DEF R!Views
    <3>2. (R!Front.step = "post") \in BOOLEAN OBVIOUS
    <3>3. [step |-> "fetch", requested |-> TRUE, late |-> R!Front.step = "post"] \in R!Views BY <3>2 DEF R!Views, R!Polling
    <3>. QED BY <1>2, <3>1, <3>3, Zenon DEF R!LatePost
  <2>3. R!RequestPaid(R!Top.s) \/ R!Refused BY <1>2 DEF R!LatePost
  <2>4. RestInv' /\ UNCHANGED stack BY <2>1, <2>3, RequestOK
  <2>5. Knows(R!Top, v) BY <2>1 DEF Knows, R!ScanAssumption
  <2>. QED BY <2>1, <2>2, <2>4, <2>5, BecomeOK DEF R!TypeOK
<1>3. ASSUME NEW s \in R!All, R!OrphanPost(s) PROVE StackInv' /\ RestInv'
  <2>1. RestInv' /\ UNCHANGED stack BY <1>3, RequestOK DEF R!OrphanPost
  <2>2. posts' \subseteq R!All /\ UNCHANGED view BY <1>3 DEF R!OrphanPost, R!TypeOK
  <2>3. Named' BY <2>1, <2>2 DEF Named
  <2>. QED BY <2>1, <2>2, <2>3 DEF StackInv, R!TypeOK
<1>. QED BY <1>1, <1>2, <1>3

\* The server and the profile keep the types.
LEMMA ServerTypes ==
    ASSUME R!ScanAssumption, R!TypeOK, Named,
           \/ R!ScanEnds \/ R!Lapse \/ R!RefreshProfile
           \/ \E s \in R!All : \E tier \in {"preview", "paid"} : R!JobEnds(s, tier)
    PROVE  StackInv' /\ RestInv'
<1>. USE DEF R!server
<1>1. StackInv'
  <2>1. UNCHANGED <<stack, view, posts>> BY DEF R!ScanEnds, R!Lapse, R!RefreshProfile, R!JobEnds
  <2>. QED BY <2>1 DEF StackInv, R!TypeOK, Named
<1>2. CASE R!ScanEnds
  <2>1. tiers' \in [R!All -> [preview : R!Statuses, paid : R!Statuses]]
    <3>1. "processing" \in R!Statuses /\ Scan \in R!All BY DEF R!Statuses, R!All
    <3>2. [tiers EXCEPT ![Scan].preview = "processing"] \in [R!All -> [preview : R!Statuses, paid : R!Statuses]]
      BY <3>1, TierOK, Zenon
    <3>3. tiers \in [R!All -> [preview : R!Statuses, paid : R!Statuses]] BY DEF R!TypeOK
    <3>. QED BY <1>2, <3>2, <3>3, Zenon DEF R!ScanEnds
  <2>. QED BY <1>1, <1>2, <2>1, TroubleOK DEF R!ScanEnds, RestInv, R!TypeOK
<1>3. CASE R!Lapse BY <1>1, <1>3, TroubleOK DEF R!Lapse, RestInv, R!TypeOK
<1>4. CASE R!RefreshProfile BY <1>1, <1>4 DEF R!RefreshProfile, RestInv, R!TypeOK
<1>5. ASSUME NEW s \in R!All, NEW tier \in {"preview", "paid"}, R!JobEnds(s, tier) PROVE StackInv' /\ RestInv'
  <2>1. tiers' \in [R!All -> [preview : R!Statuses, paid : R!Statuses]]
    <3>1. PICK status \in {"ready", "failed"} : tiers' = [tiers EXCEPT ![s][tier] = status]
      BY <1>5, Zenon DEF R!JobEnds
    <3>2. status \in R!Statuses BY DEF R!Statuses
    <3>. QED BY <3>1, <3>2, TierOK
  <2>. QED BY <1>1, <1>5, <2>1, TroubleOK DEF R!JobEnds, RestInv, R!TypeOK
<1>. QED BY <1>2, <1>3, <1>4, <1>5

\* Every step keeps the types and what the screens know.
LEMMA NextTypes ==
    ASSUME R!ScanAssumption, R!TypeOK, Named, [R!Next]_(R!vars)
    PROVE  R!TypeOK' /\ Named'
<1>1. CASE UNCHANGED R!vars BY <1>1 DEF R!vars, R!server, R!TypeOK, Named
<1>2. CASE R!Next
  <2>1. StackInv' /\ RestInv' BY <1>2, UserTypes, PollTypes, PostTypes, ServerTypes DEF R!Next, R!Poll
  <2>. QED BY <2>1 DEF StackInv, RestInv, R!TypeOK
<1>. QED BY <1>1, <1>2

\* The app starts with the types.
LEMMA InitTypes == ASSUME R!ScanAssumption, R!Init PROVE R!TypeOK /\ Named
<1>1. R!Tabs \in R!Entries /\ R!View("none") \in R!Views BY DEF R!Tabs, R!View, R!Entries, R!Views, R!Names
<1>2. /\ stack \in Seq(R!Entries) /\ Len(stack) = 1 /\ stack[1] = R!Tabs /\ DOMAIN stack = {1}
      /\ view \in Seq(R!Views) /\ Len(view) = 1 /\ view[1] = R!View("none")
  BY <1>1 DEF R!Init
<1>3. Named BY <1>2 DEF Named, Knows, R!Tabs, R!View
<1>4. tiers \in [R!All -> [preview : R!Statuses, paid : R!Statuses]] BY DEF R!Init, R!Statuses
<1>5. /\ {entitled, prof} \subseteq BOOLEAN /\ scan = "none" /\ cache \in [R!All -> {"none", "preview", "paid"}]
      /\ posts = {} /\ reportTroubles = 0
  BY DEF R!Init
<1>. QED BY <1>2, <1>3, <1>4, <1>5 DEF R!TypeOK, R!ScanAssumption

----------------------------------------------------------------------------
(* The report is there                                                     *)

\* Only an answer that there is a paid report puts the report in the place of
\* processing-paid.
LEMMA OnlyPaidAnswer ==
    ASSUME R!ScanAssumption, R!TypeOK, Named, [R!Next]_(R!vars),
           R!Top.name = "paid", R!Top'.name = "report", Len(stack') = Len(stack)
    PROVE  tiers[R!Top.s].paid = "ready"
<1>1. stack' # stack BY DEF R!Top
<1>2. ~UNCHANGED R!vars BY <1>1 DEF R!vars
<1>3. ASSUME NEW name, NEW s, R!Replace(name, s) PROVE R!Top'.name = name /\ R!Top' = [name |-> name, s |-> s]
  <2>1. stack' = [stack EXCEPT ![Len(stack)] = [name |-> name, s |-> s]] BY <1>3 DEF R!Replace
  <2>2. stack'[Len(stack)] = [name |-> name, s |-> s] BY <2>1, StackOK
  <2>. QED BY <2>2 DEF R!Top
<1>4. CASE R!PaidAnswer
  <2>1. R!Report(R!Top.s) = "paid" BY <1>1, <1>4 DEF R!PaidAnswer, R!Fails, R!Stays
  <2>. QED BY <2>1 DEF R!Report
<1>5. ASSUME \/ R!ReportAnswer \/ R!PreviewAnswer \/ R!ArchivedAnswer \/ R!Timer \/ R!NewToken
             \/ R!ScanEnds \/ R!Lapse \/ R!RefreshProfile \/ R!PaidPost \/ R!LatePost
             \/ \E s \in R!All : R!OrphanPost(s) \/ \E tier \in {"preview", "paid"} : R!JobEnds(s, tier)
      PROVE  FALSE
  <2>1. UNCHANGED stack
    BY <1>5 DEF R!ReportAnswer, R!PreviewAnswer, R!ArchivedAnswer, R!Timer, R!NewToken,
       R!ScanEnds, R!Lapse, R!RefreshProfile, R!PaidPost,
       R!LatePost, R!OrphanPost, R!JobEnds, R!Fails, R!Stays, R!RequestPaid, R!Refused
  <2>. QED BY <1>1, <2>1
<1>6. ASSUME R!BatchAnswer \/ R!ReportRedirect PROVE FALSE
  <2>1. ~R!ReportRedirect BY DEF R!ReportRedirect
  <2>2. R!Replace(R!Top.name, Scan) BY <1>1, <1>6, <2>1 DEF R!BatchAnswer, R!Fails, R!Stays
  <2>. QED BY <1>3, <2>2
<1>7. ~R!Unlock /\ ~R!Buy /\ ~R!ClosePaywall BY DEF R!Unlock, R!Buy, R!ClosePaywall
<1>8. ~R!Confirm /\ \A s \in R!All : \A name \in {"preview", "paid", "report", "archived"} : ~R!Open(name, s)
  <2>1. R!Top # R!Tabs BY DEF R!Tabs
  <2>. QED BY <2>1 DEF R!Confirm, R!Open
<1>9. ~R!Back
  <2>1. ASSUME R!Back PROVE Len(stack') = Len(stack) - 1
    <3>1. stack' = SubSeq(stack, 1, Len(stack) - 1) /\ Len(stack) > 1 BY <2>1, Zenon DEF R!Back
    <3>2. \A i \in 1..Len(stack) - 1 : stack[i] \in R!Entries BY StackOK
    <3>3. Len(stack) \in Int /\ Len(stack) - 1 \in Int BY StackOK
    <3>. QED BY <3>1, <3>2, <3>3, SubSeqProperties
  <2>. QED BY <2>1, StackOK
<1>. QED BY <1>2, <1>4, <1>5, <1>6, <1>7, <1>8, <1>9 DEF R!Next, R!Poll

\* The stack of screens has its type, and processing-paid gives way to the
\* report only when the paid one is there.
THEOREM ScreensAreReadyHolds ==
    ASSUME R!ScanAssumption PROVE R!Spec => R!ScreensAreReady
<1>1. R!Init => R!TypeOK /\ Named BY InitTypes
<1>2. R!TypeOK /\ Named /\ [R!Next]_(R!vars) => R!TypeOK' /\ Named' BY NextTypes
<1>3. R!TypeOK /\ Named /\ [R!Next]_(R!vars) =>
        [R!Top.name = "paid" /\ R!Top'.name = "report" /\ Len(stack') = Len(stack)
             => tiers[R!Top.s].paid = "ready"]_(R!vars)
  BY OnlyPaidAnswer, Zenon
<1>. QED BY <1>1, <1>2, <1>3, PTL DEF R!Spec, R!ScreensAreReady, R!ReportIsReady
=============================================================================
