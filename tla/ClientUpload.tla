----------------------------- MODULE ClientUpload -----------------------------
(* The screens that turn screenshots into a batch and a batch into a review: *)
(* upload, processing-ocr, review and trade-slip, with the draft store and   *)
(* services/uploads. Every handler is async: a step is the code between two  *)
(* awaits, and the user can do anything in between, leave included.          *)
(* The server is reduced to what these screens see of UploadPipeline.        *)
EXTENDS Integers, Sequences, FiniteSets

CONSTANTS
    Pictures, NoPicture,
    Assets, Symbols, SymbolOf,  \* what the extraction finds: assets and their symbol_raw
    Ambiguous,                  \* symbols with several candidates
    Holdings, TradeSlips, NoBatch,  \* the batches runs of the two handleUpload may create
    MaxImages,      \* the limit of the picker, 15 in the code
    MaxConfirms,    \* bound on presses of Confirm whose answer is awaited
    MaxTroubles     \* bound on lost requests, unreadable files, and new access tokens
                    \* or languages that make an effect run again

ASSUME PictureAssumption == NoPicture \notin Pictures
ASSUME SymbolAssumption == SymbolOf \in [Assets -> Symbols] /\ Ambiguous \subseteq Symbols
ASSUME BatchAssumption == Holdings \cap TradeSlips = {} /\ NoBatch \notin Holdings \cup TradeSlips
ASSUME LimitAssumption == MaxImages \in Nat \ {0} /\ MaxTroubles \in Nat

VARIABLES
    batch,      \* server: the batch each run of handleUpload creates
    run,        \* the runs of handleUpload
    screen,     \* the screen in front and the batch it is about
    form,       \* state of the upload or trade-slip screen
    draft,      \* useUploadDraftStore
    poll,       \* processing-ocr: the poll of its effect
    stale,      \* answers awaited by effects that were cleaned up
    review,     \* state of the review screen
    sent,       \* reviews on their way
    executed,   \* times the insight was executed with a slip of a batch
    troubles

vars == <<batch, run, screen, form, draft, poll, stale, review, sent, executed, troubles>>

Batches == Holdings \cup TradeSlips
Listed(list) == {list[i] : i \in DOMAIN list}
Lists == {list \in UNION {[1..n -> Pictures] : n \in 0..MaxImages} : \A i, j \in DOMAIN list : i # j => list[i] # list[j]}
Texts == {"none", "new"}    \* the amount typed for an asset, if it is a number and a change
Choices == [page : {"loading", "error", "shown"}, removed : SUBSET Assets, text : [Assets -> Texts],
            resolved : SUBSET Ambiguous]
Untouched == [page |-> "loading", removed |-> {}, text |-> [a \in Assets |-> "none"], resolved |-> {}]
Payloads == [b : Batches, removed : SUBSET Assets, amounts : SUBSET Assets, resolved : SUBSET Ambiguous,
             shown : SUBSET Assets]   \* history: the assets the screen showed as removed

NewBatch == [status |-> "none", declared |-> <<>>, stored |-> <<>>,
             rows |-> Assets, resolved |-> {}, reviewed |-> FALSE]
NewRun == [pc |-> "unused", list |-> <<>>, mounted |-> FALSE]
BlankForm == [images |-> <<>>, uploading |-> FALSE, result |-> FALSE]

TypeOK ==
    /\ batch \in [Batches ->
         [status : {"none", "pending_upload", "processing", "needs_review", "completed", "failed"},
          declared : Lists, stored : UNION {[1..n -> Pictures \cup {NoPicture}] : n \in 0..MaxImages},
          rows : SUBSET Assets, resolved : SUBSET Ambiguous, reviewed : BOOLEAN]]
    /\ run \in [Batches ->
         [pc : {"unused", "create", "put", "checksum", "complete", "poll", "execute", "done"},
          list : Lists, mounted : BOOLEAN]]
    /\ screen \in [name : {"assets", "upload", "slip", "ocr", "failed", "review", "report"},
                   b : Batches \cup {NoBatch}]
    /\ form \in [images : Lists, uploading : BOOLEAN, result : BOOLEAN]
    /\ draft \in [Batches -> Lists]
    /\ poll \in {"none", "asked", "timer"}
    /\ stale \subseteq Batches
    /\ review \in Choices
    /\ sent \subseteq Payloads
    /\ executed \in [Batches -> Nat]
    /\ troubles \in 0..MaxTroubles

Init ==
    /\ batch = [b \in Batches |-> NewBatch]
    /\ run = [b \in Batches |-> NewRun]
    /\ screen = [name |-> "assets", b |-> NoBatch]
    /\ form = BlankForm
    /\ draft = [b \in Batches |-> <<>>]
    /\ poll = "none" /\ stale = {}
    /\ review = Untouched
    /\ sent = {}
    /\ executed = [b \in Batches |-> 0]
    /\ troubles = 0

Trouble == troubles < MaxTroubles /\ troubles' = troubles + 1

(* router.push or replace: the screen in front is unmounted. Its state goes, *)
(* the effect of processing-ocr is cleaned up, a handler under way is not.   *)
Unmounted(f) == [b \in Batches |-> [f[b] EXCEPT !.mounted = FALSE]]
Navigate(name, b, runs) ==
    /\ screen' = [name |-> name, b |-> b]
    /\ run' = Unmounted(runs)
    /\ form' = BlankForm
    /\ review' = Untouched
    /\ poll' = IF name = "ocr" THEN "asked" ELSE "none"
    /\ stale' = IF poll = "asked" THEN stale \cup {screen.b} ELSE stale

----------------------------------------------------------------------------
(* upload and trade-slip                                                   *)

Open(name) ==
    /\ name \in {"upload", "slip"}
    /\ screen.name \in {"assets", "failed"}
    /\ screen.name = "failed" => name = "upload"
    /\ \E b \in Batches : run[b].pc = "unused"
    /\ Navigate(name, NoBatch, run)
    /\ UNCHANGED <<batch, draft, sent, executed, troubles>>

\* handleCancel, Close or the system's back.
Leave ==
    /\ screen.name # "assets"
    /\ Navigate("assets", NoBatch, run)
    /\ UNCHANGED <<batch, draft, sent, executed, troubles>>

\* Mutated form: the new pictures are added without looking for doubles.
PickDoubles(p) ==
    /\ screen.name = "upload" /\ Len(form.images) < MaxImages
    /\ form' = [form EXCEPT !.images = Append(@, p)]
    /\ UNCHANGED <<batch, run, screen, draft, poll, stale, review, sent, executed, troubles>>

\* pickImages merges, drops doubles and cuts at the limit, pickImage
\* replaces. Both are possible during an upload.
Pick(p) ==
    /\ screen.name \in {"upload", "slip"}
    /\ LET list == form.images IN
         form' = [form EXCEPT !.images =
             IF screen.name = "slip" THEN <<p>>
             ELSE IF p \in Listed(list) \/ Len(list) = MaxImages THEN list
             ELSE Append(list, p)]
    /\ UNCHANGED <<batch, run, screen, draft, poll, stale, review, sent, executed, troubles>>

\* The filter of removeImage: the list has no doubles.
Remove(p) ==
    /\ screen.name = "upload"
    /\ \E i \in DOMAIN form.images :
         /\ form.images[i] = p
         /\ form' = [form EXCEPT !.images =
                [j \in 1..Len(form.images) - 1 |-> form.images[IF j < i THEN j ELSE j + 1]]]
    /\ UNCHANGED <<batch, run, screen, draft, poll, stale, review, sent, executed, troubles>>

\* handleUpload, which keeps the list of the render it was pressed in.
Press(b) ==
    /\ screen.name = IF b \in Holdings THEN "upload" ELSE "slip"
    /\ form.images # <<>> /\ ~form.uploading /\ ~form.result
    /\ run[b].pc = "unused"
    /\ form' = [form EXCEPT !.uploading = TRUE]
    /\ run' = [run EXCEPT ![b] =
         [pc |-> "create", list |-> form.images, mounted |-> TRUE]]
    /\ UNCHANGED <<batch, screen, draft, poll, stale, review, sent, executed, troubles>>

Goto(b, pc) == run' = [run EXCEPT ![b].pc = pc]
\* setUploading(false): nothing happens if the screen is gone.
StopUploading(b) == form' = IF run[b].mounted THEN [form EXCEPT !.uploading = FALSE] ELSE form

\* createUploadBatch and setDraft; the server answers in the order declared.
CreateBatch(b) ==
    /\ run[b].pc = "create"
    /\ batch' = [batch EXCEPT ![b].status = "pending_upload", ![b].declared = run[b].list,
                     ![b].stored = [i \in DOMAIN run[b].list |-> NoPicture]]
    /\ draft' = [draft EXCEPT ![b] = IF b \in Holdings THEN run[b].list ELSE @]
    /\ Goto(b, "put")
    /\ UNCHANGED <<screen, form, poll, stale, review, sent, executed, troubles>>

\* Mutated form: the list of the screen as it is by now.
PutCurrent(b) ==
    /\ run[b].pc = "put"
    /\ \E i \in DOMAIN batch[b].stored :
         /\ batch[b].stored[i] = NoPicture /\ \A j \in 1..i - 1 : batch[b].stored[j] # NoPicture
         /\ batch' = [batch EXCEPT ![b].stored[i] =
                IF run[b].mounted /\ i \in DOMAIN form.images THEN form.images[i] ELSE run[b].list[i]]
         /\ Goto(b, IF i = Len(run[b].list) THEN "checksum" ELSE "put")
    /\ UNCHANGED <<screen, form, draft, poll, stale, review, sent, executed, troubles>>

\* uploadImage, one image after the other.
Put(b) ==
    /\ run[b].pc = "put"
    /\ \E i \in DOMAIN batch[b].stored :
         /\ batch[b].stored[i] = NoPicture /\ \A j \in 1..i - 1 : batch[b].stored[j] # NoPicture
         /\ batch' = [batch EXCEPT ![b].stored = [@ EXCEPT ![i] = run[b].list[i]]]
         /\ Goto(b, IF i = Len(run[b].list) THEN "checksum" ELSE "put")
    /\ UNCHANGED <<screen, form, draft, poll, stale, review, sent, executed, troubles>>

\* A request that fails: an alert, and the button is free again.
UploadFails(b) ==
    /\ run[b].pc \in {"create", "put", "complete"} /\ Trouble
    /\ Goto(b, "done")
    /\ StopUploading(b)
    /\ UNCHANGED <<batch, screen, draft, poll, stale, review, sent, executed>>

\* computeClientChecksum reads the files again, outside any try: if one
\* cannot be read the handler ends and uploading stays set.
Checksum(b) ==
    /\ run[b].pc = "checksum"
    /\ \/ Goto(b, "complete") /\ UNCHANGED troubles
       \/ Goto(b, "done") /\ Trouble
    /\ UNCHANGED <<batch, screen, form, draft, poll, stale, review, sent, executed>>

\* completeUploadBatch; then processing-ocr, wherever the user is by now, or
\* the poll of the slip.
CompleteBatch(b) ==
    /\ run[b].pc = "complete"
    /\ batch' = [batch EXCEPT ![b].status = "processing"]
    /\ IF b \in Holdings
       THEN Navigate("ocr", b, [run EXCEPT ![b].pc = "done"])
       ELSE Goto(b, "poll") /\ UNCHANGED <<screen, form, poll, stale, review>>
    /\ UNCHANGED <<draft, sent, executed, troubles>>

\* Mutated form: the poll of a slip goes on after its answer.
PollSlipOn(b) ==
    /\ run[b].pc = "poll"
    /\ batch[b].status \in {"completed", "failed"}
    /\ StopUploading(b)
    /\ executed' = [executed EXCEPT ![b] = IF batch[b].status = "completed" /\ @ < 2 THEN @ + 1 ELSE @]
    /\ UNCHANGED <<batch, run, screen, draft, poll, stale, review, sent, troubles>>

\* The poll of a slip runs until the batch is done; nothing else stops it.
PollSlip(b) ==
    /\ run[b].pc = "poll"
    /\ batch[b].status \in {"completed", "failed"}
    /\ StopUploading(b)
    /\ Goto(b, IF batch[b].status = "completed" THEN "execute" ELSE "done")
    /\ UNCHANGED <<batch, screen, draft, poll, stale, review, sent, executed, troubles>>

\* executeInsight with the transactions of the answer; a failure only shows
\* an alert.
Execute(b) ==
    /\ run[b].pc = "execute"
    /\ \/ executed' = [executed EXCEPT ![b] = @ + 1] /\ UNCHANGED troubles
       \/ Trouble /\ UNCHANGED executed
    /\ Goto(b, "done")
    /\ form' = IF run[b].mounted THEN [form EXCEPT !.result = TRUE] ELSE form
    /\ UNCHANGED <<batch, screen, draft, poll, stale, review, sent>>

----------------------------------------------------------------------------
(* processing-ocr                                                          *)

\* The effect runs again: the old poll is inactive, a new one starts. It
\* does so on the failure page too.
Restart ==
    /\ screen.name \in {"ocr", "failed"} /\ Trouble
    /\ stale' = IF poll = "asked" THEN stale \cup {screen.b} ELSE stale
    /\ poll' = "asked"
    /\ UNCHANGED <<batch, run, screen, form, draft, review, sent, executed>>

\* Mutated form: no next poll while the batch is in processing.
AnsweredOnce ==
    LET st == batch[screen.b].status IN
    IF st = "needs_review" THEN Navigate("review", screen.b, run)
    ELSE /\ poll' = "none"
         /\ screen' = IF st = "failed" THEN [screen EXCEPT !.name = "failed"] ELSE screen
         /\ UNCHANGED <<run, form, stale, review>>

Answered ==
    LET st == batch[screen.b].status IN
    IF st = "needs_review" THEN Navigate("review", screen.b, run)
    ELSE /\ poll' = IF st = "failed" THEN "none" ELSE "timer"
         /\ screen' = IF st = "failed" THEN [screen EXCEPT !.name = "failed"] ELSE screen
         /\ UNCHANGED <<run, form, stale, review>>

PollAnswer ==
    /\ screen.name \in {"ocr", "failed"} /\ poll = "asked"
    /\ \/ poll' = "none" /\ screen' = [screen EXCEPT !.name = "failed"] /\ Trouble
          /\ UNCHANGED <<run, form, stale, review>>
       \/ Answered /\ UNCHANGED troubles
    /\ UNCHANGED <<batch, draft, sent, executed>>

PollTimer ==
    /\ poll = "timer"
    /\ poll' = "asked"
    /\ UNCHANGED <<batch, run, screen, form, draft, stale, review, sent, executed, troubles>>

\* Mutated form: an answer is used whether its effect is active or not.
StaleAnswerUsed(b) ==
    /\ b \in stale
    /\ batch[b].status = "needs_review"
    /\ screen' = [name |-> "review", b |-> b]
    /\ stale' = stale \ {b}
    /\ review' = Untouched /\ poll' = "none" /\ form' = BlankForm /\ run' = Unmounted(run)
    /\ UNCHANGED <<batch, draft, sent, executed, troubles>>

StaleAnswer(b) ==
    /\ b \in stale
    /\ stale' = stale \ {b}
    /\ UNCHANGED <<batch, run, screen, form, draft, poll, review, sent, executed, troubles>>

----------------------------------------------------------------------------
(* review                                                                  *)

\* The query has no retry and no refetch: after an error the screen keeps
\* its loading text.
LoadReview ==
    /\ screen.name = "review" /\ review.page = "loading"
    /\ \/ review' = [review EXCEPT !.page = "shown"] /\ UNCHANGED troubles
       \/ review' = [review EXCEPT !.page = "error"] /\ Trouble
    /\ UNCHANGED <<batch, run, screen, form, draft, poll, stale, sent, executed>>

Reviewing == screen.name = "review" /\ review.page = "shown"

ToggleRemove(a) ==
    /\ Reviewing
    /\ review' = [review EXCEPT !.removed = IF a \in @ THEN @ \ {a} ELSE @ \cup {a}]
    /\ UNCHANGED <<batch, run, screen, form, draft, poll, stale, sent, executed, troubles>>

\* The fields of a removed asset are not editable.
UpdateEdit(a, text) ==
    /\ Reviewing /\ a \notin review.removed
    /\ review.text[a] # text
    /\ review' = [review EXCEPT !.text[a] = text]
    /\ UNCHANGED <<batch, run, screen, form, draft, poll, stale, sent, executed, troubles>>

HandleResolve(s) ==
    /\ Reviewing /\ s \in Ambiguous \ review.resolved
    /\ \E a \in Assets \ review.removed : SymbolOf[a] = s
    /\ review' = [review EXCEPT !.resolved = @ \cup {s}]
    /\ UNCHANGED <<batch, run, screen, form, draft, poll, stale, sent, executed, troubles>>

\* Mutated form: one removed asset settles its symbol for the others.
UnresolvedUntouched == {s \in Ambiguous \ review.resolved : \A a \in review.removed : SymbolOf[a] # s}

Unresolved == {s \in Ambiguous \ review.resolved : \E a \in Assets \ review.removed : SymbolOf[a] = s}

\* Mutated form: a removed asset that was edited is sent as an edit.
EditsBeforeRemovals ==
    [removed |-> {a \in review.removed : review.text[a] # "new"},
     amounts |-> {a \in Assets : review.text[a] = "new"}]

\* buildEdits: removal goes before any edit.
Edits ==
    [removed |-> review.removed,
     amounts |-> {a \in Assets \ review.removed : review.text[a] = "new"}]

\* handleConfirm; the button is never disabled.
Confirm ==
    /\ Reviewing
    /\ Unresolved = {}
    /\ sent' = sent \cup {[b |-> screen.b, removed |-> Edits.removed, amounts |-> Edits.amounts,
                           resolved |-> review.resolved, shown |-> review.removed]}
    /\ Cardinality(sent') <= MaxConfirms
    /\ sent' # sent
    /\ UNCHANGED <<batch, run, screen, form, draft, poll, stale, review, executed, troubles>>

\* handleUploadBatchReview deletes the removed rows, updates the others
\* (their figures are not followed) and starts the calculation whatever the status is.
Reviewed(b, m) ==
    [b EXCEPT !.status = "processing", !.reviewed = TRUE, !.resolved = @ \cup m.resolved,
        !.rows = @ \ m.removed]

\* The draft goes and the user is taken to the report, wherever he is; or the
\* answer is lost, with or without the review, and an alert is shown.
ConfirmAnswer(m) ==
    /\ m \in sent
    /\ sent' = sent \ {m}
    /\ \/ /\ batch' = [batch EXCEPT ![m.b] = Reviewed(@, m)]
          /\ draft' = [draft EXCEPT ![m.b] = <<>>]
          /\ Navigate("report", m.b, run)
          /\ UNCHANGED troubles
       \/ /\ Trouble
          /\ batch' \in {batch, [batch EXCEPT ![m.b] = Reviewed(@, m)]}
          /\ UNCHANGED <<run, screen, form, draft, poll, stale, review>>
    /\ UNCHANGED executed

----------------------------------------------------------------------------
(* The server                                                              *)

Process(b) ==
    /\ batch[b].status = "processing"
    /\ \E st \in {"failed", IF b \in TradeSlips \/ batch[b].reviewed THEN "completed" ELSE "needs_review"} :
         batch' = [batch EXCEPT ![b].status = st]
    /\ UNCHANGED <<run, screen, form, draft, poll, stale, review, sent, executed, troubles>>

Handler(b) ==
    \/ CreateBatch(b) \/ Put(b) \/ Checksum(b) \/ CompleteBatch(b) \/ PollSlip(b) \/ Execute(b)
Ocr == PollAnswer \/ PollTimer
User ==
    \/ \E name \in {"upload", "slip"} : Open(name)
    \/ Leave \/ Confirm
    \/ \E p \in Pictures : Pick(p) \/ Remove(p)
    \/ \E b \in Batches : Press(b)
    \/ \E a \in Assets : ToggleRemove(a) \/ \E text \in Texts : UpdateEdit(a, text)
    \/ \E s \in Ambiguous : HandleResolve(s)

Next ==
    \/ User \/ Ocr \/ Restart \/ LoadReview
    \/ \E b \in Batches : Handler(b) \/ UploadFails(b) \/ StaleAnswer(b) \/ Process(b)
    \/ \E m \in sent : ConfirmAnswer(m)

Spec == Init /\ [][Next]_vars

\* Requests are answered or fail, timers fire and the server's jobs end.
Fairness ==
    /\ WF_vars(Ocr) /\ WF_vars(LoadReview)
    /\ \A b \in Batches : WF_vars(Handler(b)) /\ WF_vars(Process(b))
FairSpec == Spec /\ Fairness

----------------------------------------------------------------------------
(* Properties                                                              *)

(* The picture under an image id is the one the draft and the declaration  *)
(* of the batch have there, and a batch in processing has them all,        *)
(* although the user may change the list of the screen, leave it and       *)
(* upload again while handleUpload is under way.                           *)
PicturesMatch ==
    \A b \in Batches :
        /\ \A i \in DOMAIN batch[b].stored : batch[b].stored[i] \in {NoPicture, batch[b].declared[i]}
        /\ draft[b] \in {<<>>, batch[b].declared}
        /\ batch[b].status \notin {"none", "pending_upload"} => batch[b].stored = batch[b].declared
        /\ screen.name = "review" /\ screen.b = b => draft[b] = batch[b].declared \/ batch[b].reviewed

(* An asset shown as removed when Confirm was pressed is not in the batch  *)
(* once its answer has arrived (buildEdits, handleConfirm), however often  *)
(* he pressed it, put assets back and other answers were lost.             *)
RemovalsHold ==
    [][\A m \in sent \ sent' : troubles' = troubles => batch'[m.b].rows \cap m.shown = {}]_vars

(* No asset of an ambiguous symbol is in a confirmed batch unless the user *)
(* has chosen its candidate (the check in handleConfirm).                  *)
NothingGuessed ==
    \A b \in Batches : \A a \in Assets :
        batch[b].reviewed /\ a \in batch[b].rows /\ SymbolOf[a] \in Ambiguous
            => SymbolOf[a] \in batch[b].resolved

(* Only the screen that waits for a batch opens its review: an answer to a *)
(* poll of a screen that was left, or of an effect that was replaced,      *)
(* takes nobody anywhere (the flag active of processing-ocr).              *)
ReviewFollowsWait ==
    [][screen'.name = "review" /\ screen # screen' =>
          screen.name \in {"ocr", "failed"} /\ screen'.b = screen.b]_vars

(* The insight is executed at most once with the trade of a slip, whether  *)
(* or not the slip's screen is still there.                                *)
SlipExecutesOnce == \A b \in Batches : executed[b] <= 1

(* Whoever waits for an extraction is told how it ended or leaves, and the  *)
(* poll of a slip ends although nothing cancels it.                        *)
Waiting == screen.name = "ocr" \/ \E b \in Batches : run[b].pc = "poll"
WaitsEnd == Waiting ~> ~Waiting

(* A handler of an upload under way is what keeps the button disabled: if  *)
(* an upload fails the user can retry on the same screen.                  *)
UploadFailureAllowsRetry ==
    form.uploading => \E b \in Batches : run[b].mounted /\ run[b].pc # "done"

(* What the server has of a scan is what the user picked, chose and meant:  *)
(* the pictures, the candidates of ambiguous symbols, one execution.        *)
ScansAreFaithful == TypeOK /\ PicturesMatch /\ NothingGuessed /\ SlipExecutesOnce

(* The user is taken on only by the screen that waits, and only with what   *)
(* was on it.                                                               *)
ScreensKeepStep == RemovalsHold /\ ReviewFollowsWait
=============================================================================
