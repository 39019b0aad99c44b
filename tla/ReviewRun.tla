------------------------------- MODULE ReviewRun -------------------------------
(* The action that reviews a pull request: runCodeReview with its report    *)
(* and its marker of a review in progress, main.ts and post.ts              *)
(* (libs/action-code-review, actions/code-review).                          *)
(*                                                                          *)
(* All reviews of a pull request share one comment.  GitHub is external: it *)
(* serializes the jobs of a pull request (the concurrency group of the      *)
(* workflow) but runs old ones again, cancels a job at any time and then    *)
(* runs its post step, or loses the runner with it; a call may fail before  *)
(* or after it took effect.  A closed pull request is one that has moved.   *)
(* A review is the number of a workflow run and the attempt at it, which    *)
(* stands for the run id that the attempt reserves as well.  Nobody else    *)
(* writes the comment.                                                      *)
EXTENDS Naturals, Sequences

CONSTANTS
    MaxReviews,   \* bound: runs of the workflow
    MaxTries,     \* bound: attempts of a run
    MaxPushes,    \* bound: pushes to the pull request
    MaxCuts       \* bound: jobs cancelled or lost

VARIABLES
    reviews,    \* head and attempts of each run of the workflow
    pushed,     \* pushes so far: the head of the pull request
    comment,    \* the report comment
    job,        \* the workflow run whose job is active, 0 if none is
    doing,      \* how far its action has come
    prior,      \* the ledger it has read
    created,    \* markerCreated: the comment goes with the marker
    clearing,   \* what is reported once the marker is cleared
    kept,       \* review-marker-id is saved for the post step
    ledger,     \* publications that GitHub has accepted
    leftover,   \* why the marker of a review may still be there
    cuts        \* jobs cancelled or lost so far

reviewVars == <<reviews, pushed, comment, job, doing, prior, created, clearing, kept,
                ledger, leftover, cuts>>

Runs == 1..MaxReviews
Reviews == Runs \X (1..MaxTries)
None == <<0, 0>>
NoReport == [by |-> None, head |-> 0, runs |-> {}]
NoComment == [there |-> FALSE, marker |-> None, report |-> NoReport]

ReviewTypeOK ==
    /\ reviews \in Seq([head : 0..MaxPushes, tries : 1..MaxTries]) /\ Len(reviews) <= MaxReviews
    /\ pushed \in 0..MaxPushes
    /\ comment \in [there : BOOLEAN, marker : Reviews \cup {None},
                    report : [by : Reviews \cup {None}, head : 0..MaxPushes, runs : SUBSET Reviews]]
    /\ job \in 0..MaxReviews
    /\ doing \in {"idle", "admit", "keep", "live", "mark", "create", "created", "review",
                  "check", "publish", "write", "clear", "thrown", "post"}
    /\ prior \in SUBSET Reviews
    /\ {created, kept} \subseteq BOOLEAN
    /\ clearing \in {"none", "published", "stale", "failed"}
    /\ ledger \subseteq [by : Reviews, head : 0..MaxPushes]
    /\ leftover \in [Reviews -> {"none", "lost", "unsaved", "told"}]
    /\ cuts \in 0..MaxCuts

ReviewInit ==
    /\ reviews = <<>> /\ pushed = 0 /\ comment = NoComment
    /\ job = 0 /\ doing = "idle" /\ prior = {} /\ created = FALSE
    /\ clearing = "none" /\ kept = FALSE
    /\ ledger = {} /\ leftover = [r \in Reviews |-> "none"] /\ cuts = 0

Expected == reviews[job].head

(* The review of the job. *)
Me == <<job, reviews[job].tries>>

(* compareRunIds, and the attempts of one run. *)
NotNewer(one, other) ==
    one[1] < other[1] \/ (one[1] = other[1] /\ one[2] <= other[2])

(* isLivePullRequest: open, and its head is the one under review. *)
Live == pushed = Expected

jobUnchanged == UNCHANGED <<reviews, pushed, job, cuts>>
writeUnchanged == UNCHANGED <<comment, ledger>>

-----------------------------------------------------------------------------
(* GitHub. *)

Pushed ==
    /\ pushed < MaxPushes /\ pushed' = pushed + 1
    /\ UNCHANGED <<reviews, comment, job, doing, prior, created, clearing, kept, ledger, leftover, cuts>>

startUnchanged == UNCHANGED <<pushed, comment, prior, created, clearing, kept, ledger, leftover, cuts>>

(* A job starts, of a new run for a head that was pushed ... *)
StartNew ==
    /\ job = 0 /\ Len(reviews) < MaxReviews
    /\ job' = Len(reviews) + 1 /\ doing' = "admit"
    /\ \E head \in 0..pushed :
          /\ \A r \in DOMAIN reviews : reviews[r].head <= head
          /\ reviews' = Append(reviews, [head |-> head, tries |-> 1])
    /\ startUnchanged

(* ... or of a run that is run again, for the head it was made for.         *)
StartAgain(r) ==
    /\ job = 0 /\ r \in DOMAIN reviews /\ reviews[r].tries < MaxTries
    /\ job' = r /\ doing' = "admit"
    /\ reviews' = [reviews EXCEPT ![r].tries = @ + 1]
    /\ startUnchanged

-----------------------------------------------------------------------------
(* The report comment. *)

(* guardPublicationTarget: no other review is in progress there, and of the *)
(* same head there is no report of a newer run.                             *)
Guarded ==
    /\ comment.marker \in {None, Me}
    /\ comment.report.head = Expected => NotNewer(comment.report.by, Me)

(* A write of the comment: it fails, its answer is lost, or it is done. *)
Write(new, done, lost) ==
    \/ doing' = lost /\ UNCHANGED comment
    \/ doing' \in {done, lost} /\ comment' = new

(* What the review of a job adds to the report. *)
Report == [by |-> Me, head |-> Expected, runs |-> prior \cup {Me}]

-----------------------------------------------------------------------------
(* The review. *)

(* It returns without having touched the comment; main.ts clears the saved  *)
(* state and the post step finds nothing to do.                             *)
Stale == doing' = "post" /\ kept' = FALSE

(* Pull request, comments and head are read.  Without a report a marker     *)
(* will be created.                                                         *)
Admit ==
    /\ doing = "admit"
    /\ prior' = comment.report.runs
    /\ created' = ~comment.there
    /\ \/ Live /\ doing' = (IF comment.there THEN "keep" ELSE "live") /\ UNCHANGED kept
       \/ ~Live /\ Stale
       \/ doing' = "thrown" /\ UNCHANGED kept
    /\ UNCHANGED <<clearing, leftover>> /\ writeUnchanged /\ jobUnchanged

(* onRunStarted: the marker is saved before a report that exists is marked. *)
Keep ==
    /\ doing = "keep" /\ doing' = "live" /\ kept' = TRUE
    /\ UNCHANGED <<prior, created, clearing, leftover>> /\ writeUnchanged /\ jobUnchanged

(* The head is read again, and the report. *)
CheckLive ==
    /\ doing = "live"
    /\ \/ Live /\ created /\ doing' = "create" /\ UNCHANGED kept
       \/ Live /\ ~created /\ Guarded /\ doing' = "mark" /\ UNCHANGED kept
       \/ ~Live /\ Stale
       \/ ~created /\ ~Guarded /\ Stale
       \/ doing' = "thrown" /\ UNCHANGED kept
    /\ UNCHANGED <<prior, created, clearing, leftover>> /\ writeUnchanged /\ jobUnchanged

Mark ==
    /\ doing = "mark"
    /\ Write([comment EXCEPT !.marker = Me], "review", "thrown")
    /\ UNCHANGED <<prior, created, clearing, kept, ledger, leftover>> /\ jobUnchanged

(* The body of markerReport names its run, and has no report yet. *)
Create ==
    /\ doing = "create"
    /\ Write([there |-> TRUE, marker |-> Me, report |-> [NoReport EXCEPT !.by = Me, !.head = Expected]],
             "created", "thrown")
    /\ leftover' = [leftover EXCEPT ![Me] = "unsaved"]
    /\ UNCHANGED <<prior, created, clearing, kept, ledger>> /\ jobUnchanged

(* onRunStarted: only now is the id of the new comment known. *)
KeepCreated ==
    /\ doing = "created" /\ doing' = "review" /\ kept' = TRUE
    /\ leftover' = [leftover EXCEPT ![Me] = "none"]
    /\ UNCHANGED <<prior, created, clearing>> /\ writeUnchanged /\ jobUnchanged

(* The agent is bootstrapped and the workflow runs; either may fail. *)
Review ==
    /\ doing = "review"
    /\ \/ doing' = "check" /\ UNCHANGED clearing
       \/ doing' = "clear" /\ clearing' = "failed"
    /\ UNCHANGED <<prior, created, kept, leftover>> /\ writeUnchanged /\ jobUnchanged

(* After the review, and by the publication workflow: the head is read. *)
CheckReviewed ==
    /\ doing \in {"check", "publish"}
    /\ \/ Live /\ doing' = (IF doing = "check" THEN "publish" ELSE "write") /\ UNCHANGED <<clearing, created>>
       \/ ~Live /\ doing' = "clear" /\ clearing' = "stale"
          /\ created' = (created /\ doing = "check")
       \/ doing = "check" /\ doing' = "thrown" /\ UNCHANGED <<clearing, created>>
       \/ doing = "publish" /\ doing' = "clear" /\ clearing' = "failed" /\ UNCHANGED created
    /\ UNCHANGED <<prior, kept, leftover>> /\ writeUnchanged /\ jobUnchanged

(* publishReport: head and report are read a last time.  When it does not   *)
(* end well the marker, and the comment made for it, will be removed; else  *)
(* the comment stays.                                                       *)
Publish ==
    /\ doing = "write" /\ doing' = "clear"
    /\ \/ (~Live \/ ~Guarded) /\ clearing' = "stale" /\ created' = FALSE /\ writeUnchanged
       \/ /\ Live /\ Guarded /\ comment.there
          /\ comment' = [comment EXCEPT !.marker = None, !.report = Report]
          /\ ledger' = ledger \cup {[by |-> Me, head |-> Expected]}
          /\ \/ clearing' = "published" /\ created' = FALSE
             \/ clearing' = "failed" /\ UNCHANGED created
       \/ clearing' = "failed" /\ UNCHANGED created /\ writeUnchanged
    /\ UNCHANGED <<prior, kept, leftover>> /\ jobUnchanged

-----------------------------------------------------------------------------
(* The marker goes. *)

Unmarked == [comment EXCEPT !.marker = None]

(* clearOwnedMarker: a comment without a marker is left as it is; one that  *)
(* was only made for the marker is deleted with it.                         *)
Cleared ==
    IF comment.marker = None THEN comment
    ELSE IF created THEN NoComment ELSE Unmarked

(* It has to be the marker of this run; a call that fails leaves the saved  *)
(* state to the post step.                                                  *)
ClearMarker ==
    /\ doing = "clear"
    /\ \/ /\ comment.marker \in {None, Me}
          /\ Write(Cleared, "post", "thrown")
          /\ kept' = (doing' # "post")
       \/ comment.marker \notin {None, Me} /\ doing' = "thrown" /\ UNCHANGED <<comment, kept>>
    /\ UNCHANGED <<prior, created, clearing, ledger, leftover>> /\ jobUnchanged

(* run() has rejected and the step fails; its state stays as it was saved. *)
Thrown ==
    /\ doing = "thrown" /\ doing' = "post"
    /\ UNCHANGED <<prior, created, clearing, kept, leftover>> /\ writeUnchanged /\ jobUnchanged

(* The job is over. *)
EndJob(why) ==
    /\ job' = 0 /\ doing' = "idle"
    /\ prior' = {} /\ created' = FALSE /\ clearing' = "none" /\ kept' = FALSE
    /\ leftover' = [leftover EXCEPT ![Me] = IF why = "none" THEN @ ELSE why]

(* runPost: the marker is removed if it is that of the saved run. *)
PostClears ==
    IF comment.there /\ comment.marker = Me THEN comment' = Unmarked ELSE UNCHANGED comment

(* The post step; when it cannot write it says so. *)
PostReview ==
    /\ doing = "post"
    /\ \/ kept /\ PostClears /\ EndJob("none")
       \/ kept /\ UNCHANGED comment /\ EndJob("told")
       \/ ~kept /\ UNCHANGED comment /\ EndJob("none")
    /\ UNCHANGED <<reviews, pushed, ledger, cuts>>

(* The job is cancelled: the post step is next.  Or the runner is lost. *)
Cut ==
    /\ job # 0 /\ cuts < MaxCuts /\ cuts' = cuts + 1
    /\ \/ /\ doing # "post" /\ doing' = "post"
          /\ UNCHANGED <<job, prior, created, clearing, kept, leftover>>
       \/ EndJob("lost")
    /\ UNCHANGED <<reviews, pushed>> /\ writeUnchanged

-----------------------------------------------------------------------------
(* The specification. *)
ReviewProgress ==
    \/ Admit \/ Keep \/ CheckLive \/ Mark \/ Create \/ KeepCreated
    \/ Review \/ CheckReviewed \/ Publish \/ ClearMarker \/ Thrown \/ PostReview

ReviewNext == ReviewProgress \/ Pushed \/ StartNew \/ (\E r \in Runs : StartAgain(r)) \/ Cut

(* The calls of the action and its agent answer, or the job times out. *)
ReviewSpec == ReviewInit /\ [][ReviewNext]_reviewVars /\ WF_reviewVars(ReviewProgress)

ReviewsOver ==
    /\ job = 0 /\ pushed = MaxPushes
    /\ DOMAIN reviews = Runs /\ \A r \in Runs : reviews[r].tries = MaxTries

-----------------------------------------------------------------------------
(* Properties. *)

(* No run is in progress for ever: between two jobs the marker of a run is  *)
(* there only if its runner was lost, if it ended between the creation of   *)
(* the comment and the save of its id, or if the failure was told.          *)
MarkersGo == job = 0 /\ comment.marker # None => leftover[comment.marker] # "none"

(* What was published stays: no marker that is set or cleared, by a run, by *)
(* its post step or by a job that is run again, takes a report with it, and *)
(* the ledger of the report has every run that published.                   *)
ReportsKept ==
    ledger # {} =>
        /\ comment.there
        /\ [by |-> comment.report.by, head |-> comment.report.head] \in ledger
        /\ comment.report.runs = {p.by : p \in ledger}

(* Of one head the report is that of the newest run, though an old run may  *)
(* be run again later.                                                      *)
NewestKept ==
    \A p \in ledger : p.head = comment.report.head => NotNewer(p.by, comment.report.by)

(* A review that says published is there. *)
PublishedTruthful ==
    clearing = "published" => comment.report.by = Me /\ comment.marker = None

ReviewSafe == MarkersGo /\ ReportsKept /\ NewestKept /\ PublishedTruthful

(* Every job ends. *)
ReviewsEnd == [](job # 0 => <>(job = 0))

=============================================================================
