----------------------------- MODULE KnowledgeBase -----------------------------
(***************************************************************************)
(* The learning loop (routers/learning.py): feedback on an investigation   *)
(* is submitted, a reviewer approves or rejects it, and what is approved   *)
(* becomes an article whose chunks later investigations retrieve           *)
(* (services/rag_retrieval_service.py).                                    *)
(*                                                                         *)
(* The application's database is PostgreSQL with pgvector: statements see  *)
(* what is committed, a written row is locked until its transaction ends,  *)
(* and altering the table of chunks waits for every other writer of it.    *)
(***************************************************************************)
EXTENDS Naturals, FiniteSets

CONSTANTS
    Feedback,       \* feedback that may be submitted, one request each
    InvestigationOf, \* the investigation each is about
    Reviews,        \* requests to review feedback
    Titles,         \* titles of articles: the reviewer's, or the question
    NoFeedback,
    MaxRollbacks    \* bound on failing statements

VARIABLES
    status,         \* committed status of each feedback, "none" before it is
    investigation,  \* committed status of each investigation
    articles,       \* committed articles: by which review, of what, titled how
    chunks,         \* committed chunks, each by the article it was cut from
    submitting,     \* where each submission stands
    loaded,         \* the investigation's status each submission has read
    review,         \* what each review is about and has read
    reviewing,      \* where each review stands
    tx,             \* what the transaction of each review holds
    rollbacks       \* failures so far

ASSUME KnowledgeAssumption == NoFeedback \notin Feedback /\ MaxRollbacks \in Nat

knowledgeVars == <<status, investigation, articles, chunks, submitting, loaded,
                   review, reviewing, tx, rollbacks>>

Investigations == {InvestigationOf[f] : f \in Feedback}
FeedbackStatus == {"PENDING_APPROVAL", "APPROVED_KNOWLEDGE", "REJECTED"}
InvestigationStatus == FeedbackStatus \union {"AI_ANSWERED", "DEVELOPER_REVIEW"}
Articles == [by : Reviews, of : Feedback, title : Titles]

NoReview == [of |-> NoFeedback]
Empty == [rows |-> FALSE, article |-> FALSE, clears |-> {}]

KnowledgeTypeOK ==
    /\ status \in [Feedback -> FeedbackStatus \union {"none"}]
    /\ investigation \in [Investigations -> InvestigationStatus]
    /\ articles \subseteq Articles
    /\ chunks \subseteq Articles
    /\ reviewing \in [Reviews -> {"new", "read", "flushed", "cleared", "indexing", "over"}]
    /\ rollbacks \in 0..MaxRollbacks

KnowledgeInit ==
    /\ status = [f \in Feedback |-> "none"]
    /\ investigation = [i \in Investigations |-> "AI_ANSWERED"]
    /\ articles = {}
    /\ chunks = {}
    /\ submitting = [f \in Feedback |-> "new"]
    /\ loaded = [f \in Feedback |-> "AI_ANSWERED"]
    /\ review = [r \in Reviews |-> NoReview]
    /\ reviewing = [r \in Reviews |-> "new"]
    /\ tx = [r \in Reviews |-> Empty]
    /\ rollbacks = 0

knowledgeRows == <<status, investigation, articles, chunks>>
submitVars == <<submitting, loaded>>
reviewVars == <<review, reviewing, tx>>

Target(r) == InvestigationOf[review[r].of]
Verdict(r) == IF review[r].approved THEN "APPROVED_KNOWLEDGE" ELSE "REJECTED"
Article(r) == [by |-> r, of |-> review[r].of, title |-> review[r].title]

\* A column is written only if it differs from what the session has loaded.
Written(old, read, new) == IF new = read THEN old ELSE new

\* Rows a transaction has written, and others wait for: the feedback always
\* (its reviewer changes), the investigation if its status does.
LocksFeedback(r, f) == tx[r].rows /\ review[r].of = f
LocksInvestigation(r, i) ==
    tx[r].rows /\ Target(r) = i /\ review[r].investigation # Verdict(r)

Free(f) == \A r \in Reviews : ~LocksFeedback(r, f)
FreeInvestigation(i) == \A r \in Reviews : ~LocksInvestigation(r, i)

----------------------------------------------------------------------------
\* submit_feedback looks for pending feedback of the investigation first.
CheckPending(f) ==
    /\ submitting[f] = "new"
    /\ LET i == InvestigationOf[f] IN
       IF \E g \in Feedback : InvestigationOf[g] = i /\ status[g] = "PENDING_APPROVAL"
         THEN submitting' = [submitting EXCEPT ![f] = "refused"] /\ UNCHANGED loaded
         ELSE /\ submitting' = [submitting EXCEPT ![f] = "checked"]
              /\ loaded' = [loaded EXCEPT ![f] = investigation[i]]
    /\ UNCHANGED <<knowledgeRows, reviewVars, rollbacks>>

SubmitFeedback(f) ==
    /\ submitting[f] = "checked"
    /\ FreeInvestigation(InvestigationOf[f])
    /\ submitting' = [submitting EXCEPT ![f] = "submitted"]
    /\ status' = [status EXCEPT ![f] = "PENDING_APPROVAL"]
    /\ investigation' = [investigation EXCEPT ![InvestigationOf[f]] =
                            Written(@, loaded[f], "DEVELOPER_REVIEW")]
    /\ UNCHANGED <<articles, chunks, loaded, reviewVars, rollbacks>>

----------------------------------------------------------------------------
Goes(r, next) == reviewing' = [reviewing EXCEPT ![r] = next]

\* review_feedback loads the feedback, whatever its status, and its
\* investigation.
LoadFeedback(r, f, approved, title) ==
    /\ reviewing[r] = "new"
    /\ status[f] # "none"
    /\ review' = [review EXCEPT ![r] =
                    [of |-> f, approved |-> approved, title |-> title,
                     status |-> status[f],
                     investigation |-> investigation[InvestigationOf[f]]]]
    /\ Goes(r, "read")
    /\ UNCHANGED <<knowledgeRows, submitVars, tx, rollbacks>>

\* The rows a review's transaction writes when it commits.
Decided(r) ==
    /\ status' = [status EXCEPT ![review[r].of] =
                    Written(@, review[r].status, Verdict(r))]
    /\ investigation' = [investigation EXCEPT ![Target(r)] =
                    Written(@, review[r].investigation, Verdict(r))]

RowsFree(r) ==
    /\ Free(review[r].of)
    /\ review[r].investigation # Verdict(r) => FreeInvestigation(Target(r))

RejectFeedback(r) ==
    /\ reviewing[r] = "read"
    /\ ~review[r].approved
    /\ RowsFree(r)
    /\ Decided(r)
    /\ Goes(r, "over")
    /\ UNCHANGED <<articles, chunks, submitVars, review, tx, rollbacks>>

\* Approval: the flush writes both statuses and inserts the article.
FlushArticle(r) ==
    /\ reviewing[r] = "read"
    /\ review[r].approved
    /\ RowsFree(r)
    /\ tx' = [tx EXCEPT ![r].rows = TRUE, ![r].article = TRUE]
    /\ Goes(r, "flushed")
    /\ UNCHANGED <<knowledgeRows, submitVars, review, rollbacks>>

\* Reviews whose transaction has altered, or written to, the table of chunks.
Altering == {r \in Reviews : reviewing[r] = "indexing" /\ tx[r].rows}
Writers == {r \in Reviews : reviewing[r] = "cleared"} \union Altering

\* The chunks of the articles with this title are deleted.
DeleteChunks(r) ==
    /\ reviewing[r] = "flushed"
    /\ Altering = {}
    /\ LET titled == {c \in chunks : c.title = review[r].title} IN
         /\ \A s \in Reviews : tx[s].clears \intersect titled = {}
         /\ tx' = [tx EXCEPT ![r].clears = titled]
    /\ Goes(r, "cleared")
    /\ UNCHANGED <<knowledgeRows, submitVars, review, rollbacks>>

\* ALTER TABLE waits for every other writer of the table.
EnsureSchema(r) ==
    /\ reviewing[r] = "cleared"
    /\ Writers = {r}
    /\ Goes(r, "indexing")
    /\ UNCHANGED <<knowledgeRows, submitVars, review, tx, rollbacks>>

\* Fault: the statuses are set after the indexing.
RolledBackEarly(r) == [Empty EXCEPT !.rows = TRUE]

RolledBack(r) == Empty

\* The statement fails: two reviews wait for each other, or the database has
\* its own reasons.  The helper rolls back the transaction of its caller,
\* who goes on to insert the chunks in a new one.
EnsureSchemaFails(r) ==
    /\ reviewing[r] = "cleared"
    /\ \/ Writers # {r} /\ UNCHANGED rollbacks
       \/ rollbacks < MaxRollbacks /\ rollbacks' = rollbacks + 1
    /\ tx' = [tx EXCEPT ![r] = RolledBack(r)]
    /\ Goes(r, "indexing")
    /\ UNCHANGED <<knowledgeRows, submitVars, review>>

\* Chunks are inserted and everything is committed.  An exception of the
\* embedding is swallowed, with some chunks inserted or none.
CommitReview(r) ==
    /\ reviewing[r] = "indexing"
    /\ Altering \subseteq {r}
    /\ IF tx[r].rows THEN Decided(r) ELSE UNCHANGED <<status, investigation>>
    /\ articles' = articles \union (IF tx[r].article THEN {Article(r)} ELSE {})
    /\ \E inserted \in {{}, {Article(r)}} :
         chunks' = (chunks \ tx[r].clears) \union inserted
    /\ tx' = [tx EXCEPT ![r] = Empty]
    /\ Goes(r, "over")
    /\ UNCHANGED <<submitVars, review, rollbacks>>

\* Any other failing statement, or the end of the process, takes everything.
AbandonReview(r) ==
    /\ reviewing[r] \in {"read", "flushed", "cleared", "indexing"}
    /\ rollbacks < MaxRollbacks
    /\ rollbacks' = rollbacks + 1
    /\ tx' = [tx EXCEPT ![r] = Empty]
    /\ Goes(r, "over")
    /\ UNCHANGED <<knowledgeRows, submitVars, review>>

Review(r) ==
    \/ \E f \in Feedback, approved \in BOOLEAN, title \in Titles :
         LoadFeedback(r, f, approved, title)
    \/ RejectFeedback(r) \/ FlushArticle(r) \/ DeleteChunks(r)
    \/ EnsureSchema(r) \/ EnsureSchemaFails(r) \/ CommitReview(r) \/ AbandonReview(r)

KnowledgeNext ==
    \/ \E f \in Feedback : CheckPending(f) \/ SubmitFeedback(f)
    \/ \E r \in Reviews : Review(r)

KnowledgeSpec == KnowledgeInit /\ [][KnowledgeNext]_knowledgeVars

----------------------------------------------------------------------------
\* What is marked as approved knowledge has its article, and an article
\* stems from feedback that is no longer pending, whatever reviews run beside
\* each other and wherever one of them fails (review_feedback commits once).
ApprovalIsWhole ==
    /\ KnowledgeTypeOK
    /\ \A f \in Feedback :
         status[f] = "APPROVED_KNOWLEDGE" => \E a \in articles : a.of = f
    /\ \A a \in articles : status[a.of] # "PENDING_APPROVAL"

\* "The app never learns from unapproved feedback. Rejections are retained
\* for audit but not indexed." (docstring of review_feedback).  Retrieval
\* reads the chunks and asks nothing of the feedback.
LearnsOnlyFromApproved == \A c \in chunks : status[c.of] = "APPROVED_KNOWLEDGE"
=============================================================================
