------------------------------ MODULE ClientReport -----------------------------
(* The screens that show a report: preview, processing-paid, report and       *)
(* report-archived, above the tabs. Each polls from an effect that runs again *)
(* with a new access token. How the tabs choose a screen is ClientPortfolio,  *)
(* what the paywall does is ClientStore; here any screen they may open opens. *)
EXTENDS Integers, Sequences

CONSTANTS
    Snapshots,      \* those that had a report when the behaviour began, and
    Scan,           \* that of the review confirmed in it
    None,           \* no snapshot, or one that is not known yet
    MaxDepth,       \* bound on screens above each other
    MaxTroubles     \* bound on failed requests and jobs, new access tokens and lapses

VARIABLES
    tiers,      \* server: status_preview and status_paid of the calculations
    entitled,   \* server: the entitlement is active
    scan,       \* server: the upload batch of the review
    prof,       \* the profile query says the entitlement is active
    cache,      \* the query ['report', id]
    stack,      \* the screens, the one in front last
    view,       \* their states and polls
    posts,      \* requests for paid reports whose screen has gone
    troubles

server == <<tiers, entitled, scan>>
vars == <<server, prof, cache, stack, view, posts, troubles>>

All == Snapshots \cup {Scan}
ASSUME ScanAssumption == Scan \notin Snapshots /\ None \notin All /\ {MaxDepth, MaxTroubles} \subseteq Nat

Statuses == {"none", "processing", "ready", "failed"}
Polling == {"batch", "post", "fetch", "timer"}
Names == {"tabs", "preview", "paywall", "paid", "report", "archived"}
Entries == [name : Names, s : All \cup {None}]
Views == [step : Polling \cup {"none", "stopped", "shown"}, requested : BOOLEAN, late : BOOLEAN]
Tabs == [name |-> "tabs", s |-> None]
View(step) == [step |-> step, requested |-> FALSE, late |-> FALSE]
Top == stack[Len(stack)]
Front == view[Len(view)]
Trouble == troubles < MaxTroubles /\ troubles' = troubles + 1

TypeOK ==
    /\ tiers \in [All -> [preview : Statuses, paid : Statuses]]
    /\ {entitled, prof} \subseteq BOOLEAN
    /\ scan \in {"none", "sent", "completed", "failed"}
    /\ cache \in [All -> {"none", "preview", "paid"}]
    /\ stack \in Seq(Entries) /\ Len(stack) \in 1..MaxDepth + 1
    /\ view \in Seq(Views) /\ Len(view) = Len(stack)
    /\ posts \subseteq All
    /\ troubles \in 0..MaxTroubles

Init ==
    /\ tiers = [s \in All |-> [preview |-> IF s = Scan THEN "none" ELSE "ready", paid |-> "none"]]
    /\ entitled = FALSE /\ prof = FALSE
    /\ scan = "none"
    /\ cache = [s \in All |-> "none"]
    /\ stack = <<Tabs>> /\ view = <<View("none")>>
    /\ posts = {}
    /\ troubles = 0

\* Mutated form: processing-paid does not wait to know its calculation.
FreshEager(screen) ==
    CASE screen.name = "preview" -> View(IF screen.s = None THEN "batch" ELSE "fetch")
      [] screen.name = "paid" -> View("post")
      [] screen.name \in {"report", "archived"} -> View("fetch")
      [] OTHER -> View("none")

\* How a screen begins.
Fresh(screen) ==
    CASE screen.name \in {"preview", "paid"} ->
             View(IF screen.s = None THEN "batch" ELSE IF screen.name = "paid" THEN "post" ELSE "fetch")
      [] screen.name \in {"report", "archived"} -> View("fetch")
      [] OTHER -> View("none")

Kept(i) == i \in DOMAIN stack \cap DOMAIN stack' /\ stack'[i] = stack[i]
Posting(i) == view[i].step = "post" \/ view[i].late
\* What a navigation does. A screen that is covered goes on when it is in front
\* again; the POST of one that goes reaches the server all the same.
Navigated ==
    /\ view' = [i \in DOMAIN stack' |-> IF Kept(i) THEN view[i] ELSE Fresh(stack'[i])]
    /\ posts' = posts \cup {stack[i].s : i \in {k \in DOMAIN stack : ~Kept(k) /\ Posting(k)}}

Push(name, s) ==
    /\ Len(stack) <= MaxDepth
    /\ stack' = Append(stack, [name |-> name, s |-> s])
    /\ Navigated
Replace(name, s) ==
    /\ stack' = [stack EXCEPT ![Len(stack)] = [name |-> name, s |-> s]]
    /\ Navigated

----------------------------------------------------------------------------
(* Navigation                                                              *)

\* Diagnose and the list of the me tab open a screen by the tier that was
\* listed: paid as soon as its status is set, or what it was before.
Open(name, s) ==
    /\ Top = Tabs
    /\ \/ name = "preview" /\ tiers[s].preview # "none"
       \/ name \in {"paid", "report", "archived"} /\ tiers[s].paid # "none"
    /\ Push(name, s)
    /\ UNCHANGED <<server, prof, cache, troubles>>

\* handleConfirm of the review screen opens preview or processing-paid, by what
\* it knows of the entitlement, with the batch of the scan.
Confirm ==
    /\ Top = Tabs /\ scan = "none"
    /\ scan' = "sent"
    /\ \E name \in {"preview", "paid"} : Push(name, None)
    /\ UNCHANGED <<tiers, entitled, prof, cache, troubles>>

Back ==
    /\ Len(stack) > 1
    /\ stack' = SubSeq(stack, 1, Len(stack) - 1)
    /\ Navigated
    /\ UNCHANGED <<server, prof, cache, troubles>>

Unlock ==
    /\ Top.name = "preview" /\ Front.step = "shown"
    /\ Push("paywall", Top.s)
    /\ UNCHANGED <<server, prof, cache, troubles>>

\* A purchase or a restore: the handler and the effect on the entitlement
\* both replace the paywall, so processing-paid begins twice.
Buy ==
    /\ Top.name = "paywall"
    /\ entitled' = TRUE
    /\ stack' = [stack EXCEPT ![Len(stack)] = [name |-> "paid", s |-> Top.s]]
    /\ view' = [view EXCEPT ![Len(view)] = View("post")]
    /\ posts' = posts \cup {Top.s}
    /\ UNCHANGED <<tiers, scan, prof, cache, troubles>>

ClosePaywall ==
    /\ Top.name = "paywall"
    /\ stack' = <<Tabs>>
    /\ Navigated
    /\ UNCHANGED <<server, prof, cache, troubles>>

----------------------------------------------------------------------------
(* Polls                                                                   *)

Become(v) == view' = [view EXCEPT ![Len(view)] = v]
Step(step) == Become([Front EXCEPT !.step = step])
Stays == UNCHANGED <<server, prof, cache, stack, posts>>
Fails == Step("stopped") /\ Trouble /\ Stays

\* pollBatch of preview and processing-paid, for the batch of a scan.
BatchAnswer ==
    /\ Front.step = "batch"
    /\ \/ scan = "completed" /\ Replace(Top.name, Scan) /\ UNCHANGED <<server, prof, cache, troubles>>
       \/ scan = "failed" /\ Step("stopped") /\ Stays /\ UNCHANGED troubles
       \/ Fails

\* Mutated form: a preview that is not ready is an error like any other.
PreviewAnswerOnce ==
    /\ Top.name = "preview" /\ Front.step = "fetch"
    /\ Step(IF tiers[Top.s].preview = "ready" THEN "shown" ELSE "stopped")
    /\ Stays /\ UNCHANGED troubles

\* pollPreview.
PreviewAnswer ==
    /\ Top.name = "preview" /\ Front.step = "fetch"
    /\ \/ /\ Step(IF tiers[Top.s].preview = "ready" THEN "shown" ELSE "timer")
          /\ Stays /\ UNCHANGED troubles
       \/ Fails

\* handleReportPaid.
RequestPaid(s) ==
    /\ entitled
    /\ tiers' = IF tiers[s].paid \in {"processing", "ready"} THEN tiers
                ELSE [tiers EXCEPT ![s].paid = "processing"]
    /\ UNCHANGED <<entitled, scan, prof, cache, stack, troubles>>
Refused == ~entitled /\ UNCHANGED <<server, prof, cache, stack, troubles>>

\* Mutated form: the state that the success sets does not last to the next
\* effect.
RequestedForgotten == Become([Front EXCEPT !.step = "post"])

\* setRequested: the effect runs again, and goes on to the report.
Requested == Become([Front EXCEPT !.step = "fetch", !.requested = TRUE])

\* pollReport of processing-paid asks for the report once per mount.
PaidPost ==
    /\ Front.step = "post"
    /\ \/ RequestPaid(Top.s) /\ Requested /\ UNCHANGED posts
       \/ Refused /\ Step("stopped") /\ UNCHANGED posts
       \/ Fails

\* The POST of an effect that was replaced: active is not tested after it, so
\* its success counts. The one of the present effect is now late.
LatePost ==
    /\ Front.late
    /\ \/ RequestPaid(Top.s) /\ Become([step |-> "fetch", requested |-> TRUE, late |-> Front.step = "post"])
       \/ Refused /\ Become([Front EXCEPT !.late = FALSE])
    /\ UNCHANGED posts

OrphanPost(s) ==
    /\ s \in posts
    /\ posts' = posts \ {s}
    /\ RequestPaid(s) \/ UNCHANGED <<server, prof, cache, stack, troubles>>
    /\ UNCHANGED view

\* handleReportByID: the best tier there is.
Report(s) ==
    IF tiers[s].paid = "ready" THEN "paid" ELSE IF tiers[s].preview = "ready" THEN "preview" ELSE "none"

\* Mutated form: any report will do.
PaidAnswerAny ==
    /\ Top.name = "paid" /\ Front.step = "fetch"
    /\ IF Report(Top.s) # "none" THEN Replace("report", Top.s) ELSE Step("timer") /\ UNCHANGED <<stack, posts>>
    /\ UNCHANGED <<server, prof, cache, troubles>>

PaidAnswer ==
    /\ Top.name = "paid" /\ Front.step = "fetch"
    /\ \/ /\ IF Report(Top.s) = "paid" THEN Replace("report", Top.s)
             ELSE Step("timer") /\ UNCHANGED <<stack, posts>>
          /\ UNCHANGED <<server, prof, cache, troubles>>
       \/ Fails

\* The query of report: for a paid user a preview counts as not ready. It is
\* asked again until the data are final, after an error as well.
ReportAnswer ==
    /\ Top.name = "report" /\ Front.step = "fetch"
    /\ \/ LET got == IF prof /\ Report(Top.s) = "preview" THEN "none" ELSE Report(Top.s) IN
          /\ cache' = [cache EXCEPT ![Top.s] = got]
          /\ Step(IF got = "none" THEN "timer" ELSE "shown")
          /\ UNCHANGED <<server, prof, stack, posts, troubles>>
       \/ Step("timer") /\ Trouble /\ Stays

\* The effect of report: a preview is for the other screen.
ReportRedirect ==
    /\ Top.name = "report"
    /\ cache[Top.s] = "preview" /\ ~prof
    /\ Replace("preview", Top.s)
    /\ UNCHANGED <<server, prof, cache, troubles>>

\* report-archived asks once, and shows what there is.
ArchivedAnswer ==
    /\ Top.name = "archived" /\ Front.step = "fetch"
    /\ \/ /\ cache' = [cache EXCEPT ![Top.s] = IF Report(Top.s) = "none" THEN @ ELSE Report(Top.s)]
          /\ Step(IF Report(Top.s) = "none" THEN "stopped" ELSE "shown")
          /\ UNCHANGED <<server, prof, stack, posts, troubles>>
       \/ Fails

Timer ==
    /\ Front.step = "timer"
    /\ Step("fetch")
    /\ Stays /\ UNCHANGED troubles

\* A new access token: the effect begins again, its POST goes on.
NewToken ==
    /\ Top.name \in {"preview", "paid"} /\ Top.s # None
    /\ Trouble
    /\ Become([Front EXCEPT !.late = @ \/ Front.step = "post",
                            !.step = IF Top.name = "preview" \/ Front.requested THEN "fetch" ELSE "post"])
    /\ Stays

----------------------------------------------------------------------------
(* The server and the profile                                              *)

\* The pipeline ends a batch; a calculation begins with its preview.
ScanEnds ==
    /\ scan = "sent"
    /\ \/ scan' = "completed" /\ tiers' = [tiers EXCEPT ![Scan].preview = "processing"] /\ UNCHANGED troubles
       \/ scan' = "failed" /\ Trouble /\ UNCHANGED tiers
    /\ UNCHANGED <<entitled, prof, cache, stack, view, posts>>

JobEnds(s, tier) ==
    /\ tiers[s][tier] = "processing"
    /\ \/ tiers' = [tiers EXCEPT ![s][tier] = "ready"] /\ UNCHANGED troubles
       \/ tiers' = [tiers EXCEPT ![s][tier] = "failed"] /\ Trouble
    /\ UNCHANGED <<entitled, scan, prof, cache, stack, view, posts>>

Lapse ==
    /\ entitled /\ Trouble
    /\ entitled' = FALSE
    /\ UNCHANGED <<tiers, scan, prof, cache, stack, view, posts>>

\* The profile query is asked again a minute after its last answer, by a
\* screen that mounts.
RefreshProfile ==
    /\ prof # entitled
    /\ prof' = entitled
    /\ UNCHANGED <<server, cache, stack, view, posts, troubles>>

Poll ==
    \/ BatchAnswer \/ PreviewAnswer \/ PaidPost \/ PaidAnswer \/ ReportAnswer \/ ReportRedirect
    \/ ArchivedAnswer \/ Timer

Next ==
    \/ Poll \/ LatePost \/ NewToken
    \/ Confirm \/ Back \/ Unlock \/ Buy \/ ClosePaywall
    \/ ScanEnds \/ Lapse \/ RefreshProfile
    \/ \E s \in All :
          \/ OrphanPost(s)
          \/ \E name \in {"preview", "paid", "report", "archived"} : Open(name, s)
          \/ \E tier \in {"preview", "paid"} : JobEnds(s, tier)

Spec == Init /\ [][Next]_vars

\* Requests are answered, timers fire, and the server ends its jobs; a failure is
\* never what fairness asks for.
Fairness ==
    /\ WF_vars(Poll /\ UNCHANGED troubles) /\ WF_vars(ScanEnds /\ UNCHANGED troubles)
    /\ \A s \in All, tier \in {"preview", "paid"} : WF_vars(JobEnds(s, tier) /\ UNCHANGED troubles)

FairSpec == Spec /\ Fairness

----------------------------------------------------------------------------
(* Properties                                                              *)

(* Whoever waits on preview, processing-paid or report gets to the report:   *)
(* the screen shows it or gives way. It gives up only after a failed request *)
(* or job, or when processing-paid is refused for want of a subscription.    *)
(* report-archived asks only once.                                           *)
WaitsEnd ==
    Front.step \in Polling ~>
        \/ Front.step \notin Polling \cup {"stopped"}
        \/ troubles > 0
        \/ Top.name = "paid" /\ ~entitled
        \/ Top.name = "archived"

(* processing-paid gives way to the report only when there is a paid one      *)
(* (isPaidReport in pollReport): the report screen would send a user whose   *)
(* profile is out of date back to the preview.                              *)
ReportIsReady ==
    [][Top.name = "paid" /\ Top'.name = "report" /\ Len(stack') = Len(stack)
          => tiers[Top.s].paid = "ready"]_vars

(* The same, with the type of the stack of screens it reads.                  *)
ScreensAreReady == []TypeOK /\ ReportIsReady
=============================================================================
