------------------------ MODULE PullRequestFeedback ------------------------
(***************************************************************************)
(* What one poll of the GitHub observer makes of a pull request: the       *)
(* observation it stores with the ticket and the feedback it reports.      *)
(* TicketLease's GithubFeedback and Decide are what a report does to the   *)
(* ticket; here is which polls report.                                     *)
(*                                                                         *)
(* A comment is a record: its number, its kind, whether its author counts  *)
(* (neither a bot, nor ignored, nor the author of the pull request) and,   *)
(* for a review, whether it requests changes.  GitHub numbers comments in  *)
(* the order they are made and lists them in that order, a page at a time. *)
(***************************************************************************)
EXTENDS Integers, FiniteSets, FiniteSetsExt

Kinds == {"issue comment", "review comment", "review"}

None == [checked |-> FALSE, last |-> [k \in Kinds |-> 0], conflict |-> FALSE]

(* Only the first page is asked for: per_page=100.                         *)
Listed(comments, kind, page) ==
    LET list == {c \in comments : c.kind = kind}
    IN  {c \in list : Cardinality({d \in list : d.id < c.id}) < page}

Counted(comments, kind, page) ==
    {c \in Listed(comments, kind, page) : c.human}

Latest(comments, kind, page) ==
    Max({c.id : c \in Counted(comments, kind, page)} \cup {0})

(* Comments there before the first look at a finished ticket are taken as  *)
(* read; those there before the first look at a gate are not.              *)
NewFeedback(prior, atGate, comments, page) ==
    IF ~prior.checked /\ ~atGate THEN {}
    ELSE {c \in UNION {Counted(comments, k, page) : k \in Kinds} :
            /\ c.id > prior.last[c.kind]
            /\ c.kind = "review" => c.changes}

Observe(prior, atGate, comments, mergeable, page) ==
    [feedback |-> NewFeedback(prior, atGate, comments, page),
     conflict |-> mergeable = "no" /\ ~prior.conflict,
     observation |-> [checked |-> TRUE,
                      last |-> [k \in Kinds |-> Latest(comments, k, page)],
                      conflict |-> mergeable = "no"]]
=============================================================================
