--------------------------- MODULE CommentPublisher ---------------------------
(***************************************************************************)
(* publishGitHubCiComment and publishGitLabCiComment                       *)
(* (src/src/ci-comment-publisher/): runs of a CI job that keep one comment *)
(* with the verdict on a pull request up to date.  A run lists the         *)
(* comments page by page, and then creates the comment of the bot, updates *)
(* it, or leaves it as it is.  Runs may overlap; a request may take effect *)
(* after the run gave up on it; users add and delete comments meanwhile.   *)
(*                                                                         *)
(* A system note of GitLab is a comment that nobody owns.  The text of a   *)
(* comment is a verdict, which carries the marker of the tool, or Remark.  *)
(***************************************************************************)
EXTENDS Naturals, Sequences, FiniteSets

CONSTANTS
  Runs,
  Verdicts, Remark,
  Verdict,        (* Verdict[r]: what run r wants the comment to say.       *)
  Users, Bot,     (* expectedBotUserId.                                     *)
  PageSize, MaxPages,
  MaxComments,    (* Bound of the model on the comments ever made.          *)
  Settings        (* How the runs are used: records as in SettingOK.        *)

ASSUME RunsAssumption ==
  Verdict \in [Runs -> Verdicts] /\ Remark \notin Verdicts /\ Bot \in Users
ASSUME PagesAssumption ==
  PageSize \in Nat \ {0} /\ MaxPages \in Nat \ {0} /\ MaxComments \in Nat

New      == 0                     (* The target of a request to create.     *)
Comments == [id : Nat \ {New}, author : Users, text : Verdicts \cup {Remark}]

(* trusted: the runs whose artifact matches the provider's event; token:   *)
(* whom the token of each run belongs to; before: the comments before the  *)
(* first run, oldest first.  serialized: a run starts only after the       *)
(* others have ended; deletions: users delete comments; late: a request    *)
(* outlives the run that sent it.                                          *)
SettingOK(s) ==
  /\ s.trusted \subseteq Runs /\ s.token \in [Runs -> Users]
  /\ s.before \in Seq(Comments) /\ \A k \in DOMAIN s.before : s.before[k].id = k
  /\ {s.serialized, s.deletions, s.late} \subseteq BOOLEAN

ASSUME SettingsAssumption == \A s \in Settings : SettingOK(s)

VARIABLES
  setting,    (* One of Settings; it never changes.                          *)
  comments,   (* The comments of the pull request, oldest first.            *)
  made,       (* How many comments were ever made: the next identifier.     *)
  pc, page, owned,   (* Of each run: stage, page to list, matches so far.   *)
  request,    (* What each run has sent and has not taken effect yet.       *)
  reply,      (* The provider's answer, on its way.                         *)
  outcome

vars == <<setting, comments, made, pc, page, owned, request, reply, outcome>>

Outcomes == {"created", "updated", "unchanged", "permission_unavailable"}
Errors   == {"SOURCE_BINDING_MISMATCH", "REQUEST_FAILED", "PAGINATION_LIMIT",
             "AMBIGUOUS_UPSERT_TARGET", "BOT_IDENTITY_MISMATCH"}

NoRequest == [sent |-> FALSE, to |-> New]
NoReply   == [status |-> "none", author |-> Bot]

Init ==
  /\ setting \in Settings
  /\ comments = setting.before /\ made = Len(setting.before)
  /\ pc = [r \in Runs |-> "idle"] /\ page = [r \in Runs |-> 1]
  /\ owned = [r \in Runs |-> {}]
  /\ request = [r \in Runs |-> NoRequest] /\ reply = [r \in Runs |-> NoReply]
  /\ outcome = [r \in Runs |-> "none"]

-----------------------------------------------------------------------------
(* Mutant of IsOwned: the marker alone gives authority.                    *)
IsOwned_AnyAuthor(c) == c.text \in Verdicts

IsOwned(c) == c.author = Bot /\ c.text \in Verdicts

Page(p) ==
  LET past == p * PageSize
  IN  SubSeq(comments, past - PageSize + 1, IF past < Len(comments) THEN past ELSE Len(comments))

LastPage(r) == Len(Page(page[r])) < PageSize

OwnedOn(p) == {Page(p)[k] : k \in {j \in DOMAIN Page(p) : IsOwned(Page(p)[j])}}

(* Mutant of Matches: only the page at hand is searched.                   *)
Matches_ThisPage(r) == OwnedOn(page[r])

(* The comments of the bot on the pages up to this one: ownedMatches, in   *)
(* which no comment is twice, for comments never move to a later page.     *)
Matches(r) == owned[r] \cup OwnedOn(page[r])

Ambiguous(r) == \E c, d \in Matches(r) : c # d

End(r, how) ==
  /\ pc'      = [pc EXCEPT ![r] = "ended"]
  /\ outcome' = [outcome EXCEPT ![r] = how]

Start(r) ==
  /\ pc[r] = "idle"
  /\ setting.serialized => \A other \in Runs : pc[other] \in {"idle", "ended"}
  /\ IF r \in setting.trusted
       THEN pc' = [pc EXCEPT ![r] = "listing"] /\ UNCHANGED outcome
       ELSE End(r, "SOURCE_BINDING_MISMATCH")
  /\ UNCHANGED <<setting, comments, made, page, owned, request, reply>>

NextPage(r) ==
  /\ pc[r] = "listing" /\ ~LastPage(r)
  /\ IF page[r] < MaxPages
       THEN /\ page'  = [page EXCEPT ![r] = @ + 1]
            /\ owned' = [owned EXCEPT ![r] = Matches(r)]
            /\ UNCHANGED <<pc, outcome>>
       ELSE End(r, "PAGINATION_LIMIT") /\ UNCHANGED <<page, owned>>
  /\ UNCHANGED <<setting, comments, made, request, reply>>

Settled(r) == ~Ambiguous(r) /\ \E c \in Matches(r) : c.text = Verdict[r]

(* Mutant of LeaveAsItIs: whatever the comment of the bot says is right.   *)
LeaveAsItIs_Stale(r) ==
  /\ pc[r] = "listing" /\ LastPage(r)
  /\ Matches(r) # {}
  /\ End(r, IF Ambiguous(r) THEN "AMBIGUOUS_UPSERT_TARGET" ELSE "unchanged")
  /\ UNCHANGED <<setting, comments, made, page, owned, request, reply>>

LeaveAsItIs(r) ==
  /\ pc[r] = "listing" /\ LastPage(r)
  /\ Ambiguous(r) \/ Settled(r)
  /\ End(r, IF Ambiguous(r) THEN "AMBIGUOUS_UPSERT_TARGET" ELSE "unchanged")
  /\ UNCHANGED <<setting, comments, made, page, owned, request, reply>>

(* POST without a match, PATCH (PUT for GitLab) with one.                  *)
Send(r) ==
  /\ pc[r] = "listing" /\ LastPage(r)
  /\ ~Ambiguous(r) /\ ~Settled(r)
  /\ \E target \in IF Matches(r) = {} THEN {New} ELSE {c.id : c \in Matches(r)} :
       request' = [request EXCEPT ![r] = [sent |-> TRUE, to |-> target]]
  /\ pc' = [pc EXCEPT ![r] = "waiting"]
  /\ UNCHANGED <<setting, comments, made, page, owned, reply, outcome>>

(* The provider answers 401, 403 or 404 to a page or to the mutation.      *)
Denied(r) ==
  /\ pc[r] = "listing" \/ (pc[r] = "waiting" /\ request[r].sent)
  /\ End(r, "permission_unavailable")
  /\ request' = [request EXCEPT ![r] = NoRequest]
  /\ UNCHANGED <<setting, comments, made, page, owned, reply>>

(* A timeout (one for the whole run), an abort, a broken connection, an    *)
(* unexpected status or an unreadable answer.                              *)
Fail(r) ==
  /\ pc[r] \in {"listing", "waiting"}
  /\ End(r, "REQUEST_FAILED")
  /\ UNCHANGED <<setting, comments, made, page, owned, request, reply>>

Receive(r) ==
  /\ pc[r] = "waiting" /\ reply[r].status # "none"
  /\ End(r, IF reply[r].status = "unavailable" THEN "permission_unavailable" ELSE
            IF reply[r].author # Bot THEN "BOT_IDENTITY_MISMATCH" ELSE reply[r].status)
  /\ UNCHANGED <<setting, comments, made, page, owned, request, reply>>

-----------------------------------------------------------------------------
(* The provider and its users.                                             *)

Perform(r) ==
  /\ request[r].sent
  /\ setting.late \/ pc[r] = "waiting"
  /\ request' = [request EXCEPT ![r] = NoRequest]
  /\ UNCHANGED <<setting, pc, page, owned, outcome>>

Create(r) ==
  /\ Perform(r) /\ request[r].to = New /\ made < MaxComments
  /\ comments' = Append(comments,
       [id |-> made + 1, author |-> setting.token[r], text |-> Verdict[r]])
  /\ made'     = made + 1
  /\ reply'    = [reply EXCEPT ![r] = [status |-> "created", author |-> setting.token[r]]]

Update(r) ==
  /\ Perform(r)
  /\ \E k \in DOMAIN comments :
       /\ comments[k].id = request[r].to
       /\ comments' = [comments EXCEPT ![k].text = Verdict[r]]
       /\ reply'    = [reply EXCEPT ![r] = [status |-> "updated", author |-> comments[k].author]]
  /\ UNCHANGED made

(* The comment was deleted since it was listed.                            *)
UpdateGone(r) ==
  /\ Perform(r) /\ request[r].to # New
  /\ \A k \in DOMAIN comments : comments[k].id # request[r].to
  /\ reply' = [reply EXCEPT ![r] = [status |-> "unavailable", author |-> Bot]]
  /\ UNCHANGED <<comments, made>>

(* Anybody may copy the marker into a comment of their own.                *)
AddComment ==
  /\ made < MaxComments
  /\ \E u \in Users \ {Bot}, t \in Verdicts \cup {Remark} :
       comments' = Append(comments, [id |-> made + 1, author |-> u, text |-> t])
  /\ made' = made + 1
  /\ UNCHANGED <<setting, pc, page, owned, request, reply, outcome>>

DeleteComment ==
  /\ setting.deletions
  /\ \E k \in DOMAIN comments :
       comments' = SubSeq(comments, 1, k - 1) \o SubSeq(comments, k + 1, Len(comments))
  /\ UNCHANGED <<setting, made, pc, page, owned, request, reply, outcome>>

Run(r) ==
  \/ Start(r) \/ NextPage(r) \/ LeaveAsItIs(r) \/ Send(r)
  \/ Denied(r) \/ Fail(r) \/ Receive(r)

Provider(r) == Create(r) \/ Update(r) \/ UpdateGone(r)

Next ==
  \/ \E r \in Runs : Run(r) \/ Provider(r)
  \/ AddComment \/ DeleteComment

Spec == Init /\ [][Next]_vars

-----------------------------------------------------------------------------
(* Properties.                                                             *)

OwnedIds == {comments[k].id : k \in {j \in DOMAIN comments : IsOwned(comments[j])}}

(* One run after the other, and none leaves a request behind.              *)
OneAtATime == setting.serialized /\ ~setting.late

OneBefore ==
  \A j, k \in DOMAIN setting.before :
    IsOwned(setting.before[j]) /\ IsOwned(setting.before[k]) => j = k

Established == \E k \in DOMAIN setting.before : IsOwned(setting.before[k])

(* The pull request carries at most one comment of the bot: with two, all  *)
(* later runs fail with AMBIGUOUS_UPSERT_TARGET.  Runs one at a time see   *)
(* to it, failures and lost answers included, and once the comment is      *)
(* there overlapping runs and late requests do too.  Needed for that: it   *)
(* was so before, and no comment is deleted, which would shift the pages   *)
(* of a listing.                                                           *)
AtMostOneOwned ==
  ~setting.deletions /\ OneBefore /\ (OneAtATime \/ Established) =>
    Cardinality(OwnedIds) <= 1

(* When a run reports success, the comment of the bot says what the run    *)
(* wanted, and it is the only one.                                         *)
SuccessShown ==
  [][~setting.deletions /\ OneAtATime =>
       \A r \in Runs :
         outcome[r] = "none" /\ outcome'[r] \in Outcomes \ {"permission_unavailable"} =>
           Cardinality(OwnedIds) = 1
             /\ \A k \in DOMAIN comments :
                  IsOwned(comments[k]) => comments[k].text = Verdict[r]]_vars

(* "An unowned copy of the marker has no authority": whatever overlaps, is *)
(* late or is deleted, a run never changes a comment of somebody else.     *)
OthersUntouched ==
  [][\A k \in DOMAIN comments, l \in DOMAIN comments' :
       comments[k].id = comments'[l].id /\ comments[k].author # Bot =>
         comments'[l] = comments[k]]_vars
=============================================================================
