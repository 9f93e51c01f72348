----------------------------- MODULE Bitbucket -----------------------------
(***************************************************************************)
(* The worker with Bitbucket as its git provider                           *)
(* (internal/event/provider/bitbucket.go): what a webhook's payload says   *)
(* of reviews and comments and what ParseEvent makes of it, and which      *)
(* files of a diff GetFilesChanged returns and, with PathMatch, which      *)
(* applications they concern.                                              *)
(*                                                                         *)
(* The events and the diffs that Worker takes from anywhere come from a    *)
(* provider with reviewers and diffs of its own here; all steps are steps  *)
(* of Worker.                                                              *)
(***************************************************************************)
EXTENDS Worker, PathMatch

CONSTANTS
  Users,          \* people who take part in pull requests
  Reviewers,      \* Reviewers[p]: those who are asked for a review of p
  Keys,           \* the kinds of events that webhooks are sent for
  Comments,       \* what may be written, as a payload has it
  NoComment,      \* the payload's comment when the event is not about one
  Repository,     \* the repository of the pull requests
  Manifests,      \* Manifests[a]: repository and paths of a's manifests
  FirstDiff,      \* FirstDiff[p]: p's diff when it is opened
  Diffs,          \* the diffs that a push may lead to
  PageLen         \* entries of a diffstat that come with one answer

(* What a comment says is its command, as for an event.                    *)
Comment == [id : Nat, pending : BOOLEAN, deleted : BOOLEAN,
            command : {"lock", "unlock", "none"}, env : STRING]

Opinions == {"none", "approved", "changes_requested"}

-----------------------------------------------------------------------------
(* ParseEvent.                                                             *)

Type(key) ==
  CASE key = "pullrequest:created" -> "opened"
    [] key = "pullrequest:updated" -> "updated"
    [] key = "pullrequest:fulfilled" -> "merged"
    [] key = "pullrequest:rejected" -> "declined"
    [] key = "pullrequest:comment_created" -> "commented"
    [] OTHER -> "unknown"

Readable(comment) == comment.id > 0 /\ ~comment.pending /\ ~comment.deleted

(* Mutant of Asked: whoever takes part counts.                             *)
AskedOrNot(participants, states) ==
  Cardinality({u \in DOMAIN participants : participants[u].state \in states})

(* How many reviewers are in one of the states.                            *)
Asked(participants, states) ==
  Cardinality({u \in DOMAIN participants :
                 /\ participants[u].role = "REVIEWER"
                 /\ participants[u].state \in states})

ParseEvent(payload) ==
  [type |-> Type(payload.key),
   pr |-> payload.pr,
   command |-> IF Readable(payload.comment) THEN payload.comment.command
               ELSE "none",
   env |-> IF Readable(payload.comment) THEN payload.comment.env ELSE "",
   reviewers |-> Asked(payload.participants, Opinions),
   approved |-> Asked(payload.participants, {"approved"}),
   requestChanged |-> Asked(payload.participants, {"changes_requested"})]

(* A payload: what has happened, and what everybody thinks of it.  (The    *)
(* flag "approved" of a participant is the state "approved".)              *)
Participants(p, opinions) ==
  [u \in Users |-> [role |-> IF u \in Reviewers[p] THEN "REVIEWER"
                             ELSE "PARTICIPANT",
                    state |-> opinions[u]]]

Payload(key, p, comment, opinions) ==
  [key |-> key, pr |-> p, comment |-> comment,
   participants |-> Participants(p, opinions)]

-----------------------------------------------------------------------------
(* GetFilesChanged: one request, whatever the number of pages.  A file     *)
(* that was added has no old path, one that was removed no new path.       *)

FirstPage(diff) ==
  {diff[i] : i \in 1 .. (IF Len(diff) < PageLen THEN Len(diff) ELSE PageLen)}

(* Mutant of FilesChanged: where a file was moved from is left out.        *)
FilesChangedTo(diff) == {f.new : f \in FirstPage(diff)}

FilesChanged(diff) == UNION {{f.old, f.new} : f \in FirstPage(diff)}

Matched(files) ==
  {a \in Apps : matchAppByRepoAndFiles(Manifests[a], Repository, files)}

(* The applications that each diff matches.                                *)
AllDiffs == Diffs \union {FirstDiff[p] : p \in PullRequests}
Matches == [d \in AllDiffs |-> Matched(FilesChanged(d))]

ASSUME BitbucketAssumption ==
  /\ Reviewers \in [PullRequests -> SUBSET Users]
  /\ IsFiniteSet(Users)
  /\ Comments \subseteq Comment
  /\ NoComment \in [id : {0}, pending : {FALSE}, deleted : {FALSE},
                    command : {"none"}, env : {""}]
  /\ \A key \in Keys, p \in PullRequests, comment \in Comments \union {NoComment},
        opinions \in [Users -> Opinions] :
       ParseEvent(Payload(key, p, comment, opinions)) \in Events
  /\ FirstDiff \in [PullRequests -> AllDiffs]
  /\ \A d \in AllDiffs : d \in Seq(Seqs!ToSet(d))
  /\ PageLen \in Nat
  /\ \A p \in PullRequests : Touches[p] = Matches[FirstDiff[p]]

-----------------------------------------------------------------------------
VARIABLES
  opinion,  \* what everybody thinks of each pull request
  diff,     \* the pull requests' diffs: sequences of old and new paths
  vouched,  \* history: pull requests with a deploy command that was written
            \* when their reviews allowed it
  fresh     \* history: the branch of the pull request in a worker's hands
            \* has been up to date since the worker took it

bitbucketVars == <<vars, opinion, diff, vouched, fresh>>

BitbucketTypeOK ==
  /\ opinion \in [PullRequests -> [Users -> Opinions]]
  /\ diff \in [PullRequests -> AllDiffs]
  /\ vouched \subseteq PullRequests
  /\ fresh \in [Workers -> BOOLEAN]

BitbucketInit ==
  /\ Init
  /\ opinion = [p \in PullRequests |-> [u \in Users |-> "none"]]
  /\ diff = FirstDiff
  /\ vouched = {}
  /\ fresh = [w \in Workers |-> FALSE]

(* The reviews of p allow a deploy: nobody who was asked objects, and if   *)
(* anybody was asked, somebody of them has approved.                       *)
Reviewed(p) ==
  /\ \A u \in Reviewers[p] : opinion[p][u] # "changes_requested"
  /\ \A u \in Reviewers[p] : \E v \in Reviewers[p] : opinion[p][v] = "approved"

KeepFresh ==
  fresh' = [w \in Workers |->
              /\ pc'[w] # "idle"
              /\ fresh[w] \/ ~pulls'[next'[w].event.pr].behind]

-----------------------------------------------------------------------------
(* A webhook is sent with what is known of the pull request then.          *)
Send(w, p, key, comment) ==
  /\ comment = NoComment <=> key # "pullrequest:comment_created"
  /\ Webhook(w, ParseEvent(Payload(key, p, comment, opinion[p])))
  /\ vouched' = IF comment.command = "lock" /\ Readable(comment) /\ Reviewed(p)
                  THEN vouched \union {p} ELSE vouched
  /\ UNCHANGED <<opinion, diff>>

Review(p, u) ==
  /\ \E o \in Opinions : opinion' = [opinion EXCEPT ![p][u] = o]
  /\ UNCHANGED <<vars, diff, vouched>>

PushFiles(p) ==
  /\ \E d \in Diffs, behind \in BOOLEAN :
       /\ PushTo(p, Matches[d], behind)
       /\ diff' = [diff EXCEPT ![p] = d]
  /\ UNCHANGED <<opinion, vouched>>

Others ==
  /\ \/ \E p \in PullRequests : Advance(p)
     \/ \E a \in Apps : Resync(a)
     \/ \E w \in Workers : \E i \in DOMAIN incoming[w] : Handle(w, i)
     \/ \E w \in Workers : Crash(w) \/ Start(w)
  /\ UNCHANGED <<opinion, diff, vouched>>

BitbucketNext ==
  /\ \/ \E w \in Workers, p \in PullRequests, key \in Keys,
           comment \in Comments \union {NoComment} : Send(w, p, key, comment)
     \/ \E p \in PullRequests, u \in Users : Review(p, u)
     \/ \E p \in PullRequests : PushFiles(p)
     \/ Others
  /\ KeepFresh

BitbucketSpec == BitbucketInit /\ [][BitbucketNext]_bitbucketVars
-----------------------------------------------------------------------------
(* The applications that a diff relates to, over all of its pages: one of  *)
(* their directories has a file that was changed, or had it before a move. *)
InDirectory(file, path) == Seqs!IsPrefix(Names(path), Names(file))

FilesOf(d) == UNION {{f.old, f.new} : f \in Seqs!ToSet(d)}

AppsWith(d, InOne(_, _)) ==
  {a \in Apps :
     /\ Manifests[a].repository = Repository
     /\ \E file \in FilesOf(d) \ {<<>>}, path \in Paths(Manifests[a]) : InOne(file, path)}

Related == [d \in AllDiffs |-> AppsWith(d, InDirectory)]
Passed == [d \in AllDiffs |-> AppsWith(d, PassesThrough)]

(* The texts that are searched and searched for, and when they are paths   *)
(* in the usual notation.                                                  *)
FilesNamed == UNION {FilesChanged(d) : d \in AllDiffs}
PathsNamed == UNION {Paths(Manifests[a]) : a \in Apps}

TextsArePaths == \A text \in (FilesNamed \ {<<>>}) \union PathsNamed : IsPath(text)

(* "Locks all related apps": of a diff that comes with one answer, the     *)
(* command finds every application that a file of the diff is in, or was   *)
(* in before it moved; and of no diff does it find an application whose    *)
(* path is nowhere in the path of a file of the diff.  (A longer diff      *)
(* belies the words: the answer's next page is not asked for.  And the     *)
(* path is looked for anywhere in the file's, not only at its beginning.)  *)
RelatedFound ==
  \A p \in PullRequests :
    /\ Len(diff[p]) <= PageLen => Related[diff[p]] \subseteq pulls[p].files
    /\ pulls[p].files \subseteq Passed[diff[p]]

(* "You need at least one approval from a reviewer", "one of the reviewers *)
(* has requested changes": an application is locked only to a pull request *)
(* for which a deploy command was written while its reviews allowed it.    *)
(* The counts in the payload, and not who else approves, decide; retries,  *)
(* repeated commands and locks that are taken again add nothing to them.   *)
LockedWhenReviewed ==
  \A a \in Apps, p \in PullRequests : CarriesLock(a, p) => p \in vouched

(* "This pull request is n commits behind, sync your branch!": a worker    *)
(* locks applications only for a branch that was up to date at some moment *)
(* since it took the command.  (The destination may get commits between    *)
(* the comparison and the locks.)                                          *)
LockedUpToDate == \A w \in Workers : pc[w] = "lock" => fresh[w]
=============================================================================
