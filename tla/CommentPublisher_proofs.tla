------------------------ MODULE CommentPublisher_proofs ------------------------
(***************************************************************************)
(* Theorems about CommentPublisher for any runs, users and settings, pages *)
(* of any size and any number of them.                                     *)
(***************************************************************************)
EXTENDS CommentPublisher, TLAPS, FiniteSetTheorems, SequenceTheorems

Stages == {"idle", "listing", "waiting", "ended"}

TypeOK ==
  /\ setting \in Settings
  /\ comments \in Seq(Comments) /\ made \in Nat
  /\ pc \in [Runs -> Stages] /\ page \in [Runs -> Nat \ {0}]
  /\ owned \in [Runs -> SUBSET Comments]
  /\ request \in [Runs -> [sent : BOOLEAN, to : Nat]]
  /\ reply \in [Runs -> [status : {"none", "created", "updated", "unavailable"}, author : Users]]
  /\ outcome \in [Runs -> Outcomes \cup Errors \cup {"none"}]

-----------------------------------------------------------------------------
(* The inductive invariant.                                                *)

(* An identifier is given once.                                            *)
Identified ==
  /\ \A k \in DOMAIN comments : comments[k].id <= made
  /\ \A j, k \in DOMAIN comments : comments[j].id = comments[k].id => j = k

(* What has this identifier, if anything still has, is the bot's.          *)
Safe(id) ==
  /\ id <= made
  /\ \A k \in DOMAIN comments : comments[k].id = id => IsOwned(comments[k])

(* Whatever a run has found or asked for stays the bot's until the request *)
(* takes effect.                                                           *)
Targets ==
  \A r \in Runs : /\ \A c \in owned[r] : Safe(c.id)
                  /\ request[r].sent => Safe(request[r].to)

(* Nothing is found before the listing, and sent or answered before the    *)
(* end of it.                                                              *)
Stepwise ==
  \A r \in Runs :
    /\ pc[r] = "idle" => page[r] = 1 /\ owned[r] = {}
    /\ pc[r] \in {"idle", "listing"} => ~request[r].sent
    /\ pc[r] \in {"idle", "listing"} \/ request[r].sent => reply[r].status = "none"

(* How many comments are on the pages before the one to list.              *)
Read(r) == (page[r] - 1) * PageSize

(* A run that lists has found all comments of the bot on those pages.      *)
Covered ==
  \A r \in Runs : pc[r] = "listing" =>
    /\ Read(r) <= Len(comments)
    /\ \A k \in DOMAIN comments : k <= Read(r) /\ IsOwned(comments[k]) =>
         \E c \in owned[r] : c.id = comments[k].id

Kept == Established => \E k \in DOMAIN comments : IsOwned(comments[k])

(* A request to create that may still take effect meets no comment of the  *)
(* bot.                                                                    *)
FirstOnly ==
  \A r \in Runs :
    request[r].sent /\ request[r].to = New /\ (setting.late \/ pc[r] = "waiting") =>
      \A k \in DOMAIN comments : ~IsOwned(comments[k])

Unique ==
  \A j, k \in DOMAIN comments : IsOwned(comments[j]) /\ IsOwned(comments[k]) => j = k

Active(r) == pc[r] \in {"listing", "waiting"}

Alone == \A r, s \in Runs : Active(r) /\ Active(s) => r = s

(* What a run has found is as it was found.                                *)
Fresh ==
  \A r \in Runs : pc[r] = "listing" =>
    \A c \in owned[r] : \E k \in DOMAIN comments : comments[k] = c

(* A request to update is for the only comment of the bot.                 *)
Aimed ==
  \A r \in Runs :
    pc[r] = "waiting" /\ request[r].sent /\ request[r].to # New =>
      /\ \E k \in DOMAIN comments : comments[k].id = request[r].to
      /\ \A k \in DOMAIN comments : IsOwned(comments[k]) => comments[k].id = request[r].to

Shows(r) ==
  \E k \in DOMAIN comments :
    /\ IsOwned(comments[k]) /\ comments[k].text = Verdict[r]
    /\ \A j \in DOMAIN comments : IsOwned(comments[j]) => j = k

Answered ==
  \A r \in Runs :
    pc[r] = "waiting" /\ reply[r].status \in {"created", "updated"} /\ reply[r].author = Bot =>
      Shows(r)

GeneralInv == TypeOK /\ Identified /\ Targets /\ Stepwise

(* Unless comments are deleted.                                            *)
ListingInv == Covered /\ Kept /\ (OneAtATime \/ Established => FirstOnly /\ (OneBefore => Unique))

SerialInv == Alone /\ Fresh /\ Aimed /\ Answered

Inv == /\ GeneralInv
       /\ ~setting.deletions => ListingInv
       /\ ~setting.deletions /\ OneAtATime => SerialInv
-----------------------------------------------------------------------------
(* Pages.                                                                  *)

LEMMA SettingFacts ==
  ASSUME TypeOK
  PROVE  /\ setting.token \in [Runs -> Users] /\ setting.before \in Seq(Comments)
         /\ \A k \in DOMAIN setting.before : setting.before[k].id = k
BY SettingsAssumption DEF TypeOK, SettingOK

LEMMA Multiples ==
  ASSUME NEW p \in Nat \ {0}
  PROVE  /\ p * PageSize \in Nat /\ (p - 1) * PageSize \in Nat
         /\ (p - 1) * PageSize = p * PageSize - PageSize
         /\ (p + 1 - 1) * PageSize = p * PageSize
BY PagesAssumption

(* A page is a window of the list, and full exactly if the list reaches    *)
(* its end.                                                                *)
LEMMA PageIsWindow ==
  ASSUME comments \in Seq(Comments), NEW p \in Nat \ {0}
  PROVE  /\ Len(Page(p)) < PageSize <=> Len(comments) < p * PageSize
         /\ \A j \in DOMAIN Page(p) :
              /\ j + (p - 1) * PageSize \in DOMAIN comments
              /\ Page(p)[j] = comments[j + (p - 1) * PageSize]
         /\ \A k \in DOMAIN comments :
              (p - 1) * PageSize < k /\ k <= p * PageSize =>
                /\ k - (p - 1) * PageSize \in DOMAIN Page(p)
                /\ Page(p)[k - (p - 1) * PageSize] = comments[k]
<1> DEFINE past == p * PageSize
           last == IF past < Len(comments) THEN past ELSE Len(comments)
<1>1. past \in Nat /\ past >= PageSize /\ (p - 1) * PageSize = past - PageSize
  BY PagesAssumption, Multiples
<1>2. last \in Nat /\ Len(comments) \in Nat /\ PageSize \in Nat \ {0}
  BY <1>1, PagesAssumption
<1>3. Page(p) = SubSeq(comments, past - PageSize + 1, last)
  BY DEF Page
<1> HIDE DEF past
<1>4. /\ DOMAIN Page(p) = 1..(last - (past - PageSize))
      /\ Len(Page(p)) = IF past - PageSize < last THEN last - (past - PageSize) ELSE 0
      /\ \A j \in DOMAIN Page(p) : Page(p)[j] = comments[j + past - PageSize]
  <2> DEFINE m == past - PageSize + 1
  <2>1. m \in Int /\ last \in Int /\ m >= 1 /\ last <= Len(comments)
    BY <1>1, <1>2
  <2>2. \A i \in m..last : comments[i] \in Comments
    BY <2>1
  <2>3. /\ Page(p) \in Seq(Comments)
        /\ Len(Page(p)) = IF m <= last THEN last - m + 1 ELSE 0
        /\ \A i \in 1..(last - m + 1) : Page(p)[i] = comments[m + i - 1]
    BY <1>3, <2>1, <2>2, SubSeqProperties, SMTT(30)
  <2>4. DOMAIN Page(p) = 1..(last - (past - PageSize))
    BY <1>1, <1>2, <2>3
  <2>5. \A i \in Int : m + i - 1 = i + past - PageSize
    BY <1>1, <1>2
  <2>6. Len(Page(p)) = IF past - PageSize < last THEN last - (past - PageSize) ELSE 0
    BY <1>1, <1>2, <2>3
  <2>7. ASSUME NEW j \in DOMAIN Page(p)
        PROVE  Page(p)[j] = comments[j + past - PageSize]
    <3>1. j \in 1..(last - m + 1) /\ j \in Int
      BY <1>1, <1>2, <2>4
    <3> QED
      BY <3>1, <2>3, <2>5
  <2> QED
    BY <2>4, <2>6, <2>7
<1>5. last = IF past < Len(comments) THEN past ELSE Len(comments)
  OBVIOUS
<1> HIDE DEF last
<1>6. Len(Page(p)) < PageSize <=> Len(comments) < past
  BY <1>1, <1>2, <1>4, <1>5
<1>7. ASSUME NEW j \in DOMAIN Page(p)
      PROVE  /\ j + (p - 1) * PageSize \in DOMAIN comments
             /\ Page(p)[j] = comments[j + (p - 1) * PageSize]
  <2>1. j + past - PageSize \in 1..Len(comments)
    BY <1>1, <1>2, <1>4, <1>5
  <2> QED
    BY <1>1, <1>2, <1>4, <2>1
<1>8. ASSUME NEW k \in DOMAIN comments, past - PageSize < k, k <= past
      PROVE  /\ k - (p - 1) * PageSize \in DOMAIN Page(p)
             /\ Page(p)[k - (p - 1) * PageSize] = comments[k]
  <2>1. k - (past - PageSize) \in 1..(last - (past - PageSize))
    BY <1>1, <1>2, <1>5, <1>8, Len(comments) \in Nat
  <2>2. k - (past - PageSize) + past - PageSize = k
    BY <1>1, <1>2, <1>8
  <2> QED
    BY <1>1, <1>4, <2>1, <2>2
<1> QED
  BY <1>1, <1>6, <1>7, <1>8 DEF past

LEMMA LastPageIsLast ==
  ASSUME TypeOK, NEW r \in Runs
  PROVE  LastPage(r) <=> Len(comments) < page[r] * PageSize
BY PageIsWindow DEF TypeOK, LastPage

LEMMA MatchesAre ==
  ASSUME TypeOK, NEW r \in Runs
  PROVE  /\ owned[r] \subseteq Matches(r) /\ Matches(r) \subseteq Comments
         /\ \A c \in Matches(r) :
              c \in owned[r] \/ \E k \in DOMAIN comments : comments[k] = c /\ IsOwned(c)
         /\ \A k \in DOMAIN comments :
              Read(r) < k /\ k <= page[r] * PageSize /\ IsOwned(comments[k]) =>
                comments[k] \in Matches(r)
<1>1. comments \in Seq(Comments) /\ page[r] \in Nat \ {0} /\ owned[r] \subseteq Comments
  BY DEF TypeOK
<1>2. ASSUME NEW c \in OwnedOn(page[r])
      PROVE  \E k \in DOMAIN comments : comments[k] = c /\ IsOwned(c)
  <2>1. PICK j \in DOMAIN Page(page[r]) : c = Page(page[r])[j] /\ IsOwned(c)
    BY DEF OwnedOn
  <2> QED
    BY <1>1, <2>1, PageIsWindow
<1>3. ASSUME NEW k \in DOMAIN comments,
             Read(r) < k, k <= page[r] * PageSize, IsOwned(comments[k])
      PROVE  comments[k] \in OwnedOn(page[r])
  <2> DEFINE j == k - (page[r] - 1) * PageSize
  <2>1. j \in DOMAIN Page(page[r]) /\ Page(page[r])[j] = comments[k]
    BY <1>1, <1>3, PageIsWindow DEF Read
  <2> QED
    BY <1>3, <2>1 DEF OwnedOn
<1>4. \A k \in DOMAIN comments : comments[k] \in Comments
  BY <1>1
<1> QED
  BY <1>1, <1>2, <1>3, <1>4 DEF Matches

(* What is found is the bot's.                                             *)
LEMMA FoundIsSafe ==
  ASSUME GeneralInv, NEW r \in Runs, NEW c \in Matches(r)
  PROVE  Safe(c.id) /\ c.id \in Nat \ {0}
<1>1. TypeOK /\ Identified /\ Targets
  BY DEF GeneralInv
<1>2. c.id \in Nat \ {0}
  BY <1>1, MatchesAre DEF Comments, New
<1>3. CASE c \in owned[r]
  BY <1>1, <1>2, <1>3 DEF Targets
<1>4. CASE \E k \in DOMAIN comments : comments[k] = c /\ IsOwned(c)
  BY <1>1, <1>2, <1>4 DEF Identified, Safe
<1> QED
  BY <1>1, <1>3, <1>4, MatchesAre

(* A listing misses no comment of the bot up to the end of its page.       *)
LEMMA AllFound ==
  ASSUME TypeOK, Covered, NEW r \in Runs, pc[r] = "listing",
         NEW k \in DOMAIN comments, k <= page[r] * PageSize, IsOwned(comments[k])
  PROVE  \E c \in Matches(r) : c.id = comments[k].id
<1>1. CASE k <= Read(r)
  BY <1>1, MatchesAre DEF Covered
<1>2. CASE Read(r) < k
  BY <1>2, MatchesAre
<1>3. Read(r) \in Nat /\ k \in Nat
  BY Multiples DEF TypeOK, Read
<1> QED
  BY <1>1, <1>2, <1>3
-----------------------------------------------------------------------------
(* What the steps of a run change.                                         *)

OnlyRun(r) ==
  /\ UNCHANGED <<setting, comments, made, reply>>
  /\ \A s \in Runs \ {r} :
       /\ pc'[s] = pc[s] /\ page'[s] = page[s]
       /\ owned'[s] = owned[s] /\ request'[s] = request[s]

Starts(r) ==
  /\ pc[r] = "idle" /\ pc'[r] = "listing"
  /\ setting.serialized => \A other \in Runs : ~Active(other)
  /\ page'[r] = page[r] /\ owned'[r] = owned[r] /\ request'[r] = request[r]

ReadsOn(r) ==
  /\ pc[r] = "listing" /\ pc'[r] = "listing" /\ ~LastPage(r)
  /\ page'[r] = page[r] + 1 /\ owned'[r] = Matches(r) /\ request'[r] = request[r]

Sends(r) ==
  /\ pc[r] = "listing" /\ pc'[r] = "waiting" /\ LastPage(r) /\ ~Ambiguous(r)
  /\ page'[r] = page[r] /\ owned'[r] = owned[r] /\ request'[r].sent
  /\ \/ Matches(r) = {} /\ request'[r].to = New
     \/ \E c \in Matches(r) : request'[r].to = c.id

Ends(r) ==
  /\ pc'[r] = "ended" /\ page'[r] = page[r] /\ owned'[r] = owned[r]
  /\ request'[r] = request[r] \/ request'[r] = NoRequest

LEMMA RunShapes ==
  ASSUME TypeOK, NEW r \in Runs, Run(r)
  PROVE  /\ OnlyRun(r) /\ TypeOK'
         /\ Starts(r) \/ ReadsOn(r) \/ Sends(r) \/ Ends(r)
<1> USE DEF OnlyRun, End, Outcomes, Errors
<1>1. ASSUME Start(r)
      PROVE  OnlyRun(r) /\ TypeOK' /\ (Starts(r) \/ Ends(r))
  <2>1. CASE r \in setting.trusted
    BY <1>1, <2>1 DEF Start, TypeOK, Stages, Starts, Active
  <2>2. CASE r \notin setting.trusted
    BY <1>1, <2>2 DEF Start, TypeOK, Stages, Ends
  <2> QED
    BY <2>1, <2>2
<1>2. ASSUME NextPage(r)
      PROVE  OnlyRun(r) /\ TypeOK' /\ (ReadsOn(r) \/ Ends(r))
  <2>1. Matches(r) \subseteq Comments
    BY MatchesAre
  <2>2. CASE page[r] < MaxPages
    <3>1. /\ page' = [page EXCEPT ![r] = page[r] + 1]
          /\ owned' = [owned EXCEPT ![r] = Matches(r)]
          /\ UNCHANGED <<setting, comments, made, pc, request, reply, outcome>>
          /\ pc[r] = "listing" /\ ~LastPage(r)
      BY <1>2, <2>2 DEF NextPage
    <3>2. page[r] + 1 \in Nat \ {0}
      BY DEF TypeOK
    <3>3. page' \in [Runs -> Nat \ {0}]
      BY <3>1, <3>2 DEF TypeOK
    <3>4. owned' \in [Runs -> SUBSET Comments]
      BY <3>1, <2>1 DEF TypeOK
    <3> QED
      BY <3>1, <3>3, <3>4 DEF TypeOK, ReadsOn
  <2>3. CASE ~(page[r] < MaxPages)
    BY <1>2, <2>3 DEF NextPage, TypeOK, Stages, Ends
  <2> QED
    BY <2>2, <2>3
<1>3. ASSUME LeaveAsItIs(r)
      PROVE  OnlyRun(r) /\ TypeOK' /\ Ends(r)
  BY <1>3 DEF LeaveAsItIs, TypeOK, Stages, Ends
<1>4. ASSUME Send(r)
      PROVE  OnlyRun(r) /\ TypeOK' /\ Sends(r)
  <2>1. PICK target \in IF Matches(r) = {} THEN {New} ELSE {c.id : c \in Matches(r)} :
          request' = [request EXCEPT ![r] = [sent |-> TRUE, to |-> target]]
    BY <1>4 DEF Send
  <2>2. \/ Matches(r) = {} /\ target = New
        \/ \E c \in Matches(r) : target = c.id
    BY <2>1
  <2>3. target \in Nat
    BY <2>2, MatchesAre DEF New, Comments
  <2>4. request' \in [Runs -> [sent : BOOLEAN, to : Nat]]
    BY <2>1, <2>3 DEF TypeOK
  <2>5. request'[r] = [sent |-> TRUE, to |-> target]
        /\ \A s \in Runs \ {r} : request'[s] = request[s]
    BY <2>1 DEF TypeOK
  <2>6. TypeOK'
    BY <1>4, <2>4 DEF Send, TypeOK, Stages
  <2>7. OnlyRun(r)
    BY <1>4, <2>5 DEF Send, TypeOK
  <2>8. pc'[r] = "waiting"
    BY <1>4 DEF Send, TypeOK
  <2> QED
    BY <1>4, <2>2, <2>5, <2>6, <2>7, <2>8 DEF Send, Sends
<1>5. ASSUME Denied(r)
      PROVE  OnlyRun(r) /\ TypeOK' /\ Ends(r)
  <2>1. NoRequest \in [sent : BOOLEAN, to : Nat]
    BY DEF NoRequest, New
  <2> QED
    BY <1>5, <2>1 DEF Denied, TypeOK, Stages, Ends
<1>6. ASSUME Fail(r)
      PROVE  OnlyRun(r) /\ TypeOK' /\ Ends(r)
  BY <1>6 DEF Fail, TypeOK, Stages, Ends
<1>7. ASSUME Receive(r)
      PROVE  OnlyRun(r) /\ TypeOK' /\ Ends(r)
  BY <1>7 DEF Receive, TypeOK, Stages, Ends
<1> QED
  BY <1>1, <1>2, <1>3, <1>4, <1>5, <1>6, <1>7 DEF Run
-----------------------------------------------------------------------------
(* What the provider and its users change.                                 *)

Grows(c) ==
  /\ c \in Comments /\ c.id = made + 1
  /\ comments' = Append(comments, c) /\ made' = made + 1

Revises(k, text) ==
  /\ k \in DOMAIN comments /\ text \in Verdicts
  /\ comments' = [comments EXCEPT ![k].text = text] /\ made' = made

Loses(k) ==
  /\ k \in DOMAIN comments
  /\ comments' = SubSeq(comments, 1, k - 1) \o SubSeq(comments, k + 1, Len(comments))
  /\ made' = made

OnlyRequest(r) ==
  /\ UNCHANGED <<setting, pc, page, owned, outcome>>
  /\ request[r].sent /\ (setting.late \/ pc[r] = "waiting")
  /\ ~request'[r].sent
  /\ \A s \in Runs \ {r} : request'[s] = request[s] /\ reply'[s] = reply[s]

Creates(r) ==
  /\ request[r].to = New
  /\ \E c \in Comments : /\ c.author = setting.token[r] /\ c.text = Verdict[r]
                         /\ Grows(c)
  /\ reply'[r].status = "created" /\ reply'[r].author = setting.token[r]

Updates(r) ==
  /\ \E k \in DOMAIN comments : comments[k].id = request[r].to /\ Revises(k, Verdict[r])
  /\ reply'[r].status = "updated"

LEMMA Grown ==
  ASSUME TypeOK, NEW c, Grows(c)
  PROVE  /\ comments' \in Seq(Comments) /\ made' \in Nat
         /\ Len(comments') = Len(comments) + 1
         /\ \A k \in DOMAIN comments : k \in DOMAIN comments' /\ comments'[k] = comments[k]
         /\ comments'[Len(comments) + 1] = c
         /\ \A k \in DOMAIN comments' : k \in DOMAIN comments \/ k = Len(comments) + 1
<1>1. comments \in Seq(Comments) /\ made \in Nat /\ c \in Comments
  BY DEF TypeOK, Grows
<1>2. comments' = Append(comments, c) /\ made' = made + 1
  BY DEF Grows
<1> QED
  BY <1>1, <1>2

LEMMA Revised ==
  ASSUME TypeOK, NEW k, NEW text, Revises(k, text)
  PROVE  /\ comments' \in Seq(Comments) /\ made' \in Nat
         /\ DOMAIN comments' = DOMAIN comments /\ Len(comments') = Len(comments)
         /\ \A j \in DOMAIN comments : j # k => comments'[j] = comments[j]
         /\ comments'[k].id = comments[k].id /\ comments'[k].author = comments[k].author
         /\ comments'[k].text = text
<1>1. comments \in Seq(Comments) /\ made \in Nat /\ k \in DOMAIN comments /\ text \in Verdicts
  BY DEF TypeOK, Revises
<1>2. comments' = [comments EXCEPT ![k] = [comments[k] EXCEPT !.text = text]] /\ made' = made
  BY DEF Revises
<1>3. comments[k] \in Comments
  BY <1>1
<1>4. [comments[k] EXCEPT !.text = text] \in Comments
  BY <1>1, <1>3 DEF Comments
<1>5. comments' \in Seq(Comments)
  BY <1>1, <1>2, <1>4, ExceptSeq
<1> QED
  BY <1>1, <1>2, <1>3, <1>5 DEF Comments

LEMMA Lost ==
  ASSUME TypeOK, NEW k, Loses(k)
  PROVE  /\ comments' \in Seq(Comments) /\ made' \in Nat
         /\ \A j \in DOMAIN comments' :
              \E i \in DOMAIN comments : /\ comments'[j] = comments[i]
                                         /\ i = IF j < k THEN j ELSE j + 1
<1> DEFINE before == SubSeq(comments, 1, k - 1)
           after  == SubSeq(comments, k + 1, Len(comments))
<1>0. comments \in Seq(Comments) /\ made \in Nat /\ k \in DOMAIN comments
  BY DEF TypeOK, Loses
<1>1. comments \in Seq(Comments) /\ made \in Nat /\ k \in 1..Len(comments) /\ Len(comments) \in Nat
  BY <1>0
<1>2. comments' = before \o after /\ made' = made
  BY DEF Loses
<1>3. /\ before \in Seq(Comments) /\ Len(before) = k - 1
      /\ \A i \in 1..(k - 1) : before[i] = comments[i]
  <2>1. /\ 1 \in Int /\ k - 1 \in Int /\ \A i \in 1..(k - 1) : comments[i] \in Comments
    BY <1>1
  <2>2. /\ before \in Seq(Comments)
        /\ Len(before) = IF 1 <= k - 1 THEN k - 1 - 1 + 1 ELSE 0
        /\ \A i \in 1..(k - 1 - 1 + 1) : before[i] = comments[1 + i - 1]
    BY <2>1, SubSeqProperties
  <2> QED
    BY <1>1, <2>2
<1>4. /\ after \in Seq(Comments) /\ Len(after) = Len(comments) - k
      /\ \A i \in 1..(Len(comments) - k) : after[i] = comments[k + i]
  <2>1. /\ k + 1 \in Int /\ Len(comments) \in Int
        /\ \A i \in (k + 1)..Len(comments) : comments[i] \in Comments
    BY <1>1
  <2>2. /\ after \in Seq(Comments)
        /\ Len(after) = IF k + 1 <= Len(comments) THEN Len(comments) - (k + 1) + 1 ELSE 0
        /\ \A i \in 1..(Len(comments) - (k + 1) + 1) : after[i] = comments[k + 1 + i - 1]
    BY <2>1, SubSeqProperties
  <2> QED
    BY <1>1, <2>2
<1> HIDE DEF before, after
<1>5. comments' \in Seq(Comments)
  BY <1>2, <1>3, <1>4
<1>6. ASSUME NEW j \in DOMAIN comments'
      PROVE  \E i \in DOMAIN comments : /\ comments'[j] = comments[i]
                                        /\ i = IF j < k THEN j ELSE j + 1
  <2>1. j \in 1..(Len(comments) - 1)
    BY <1>1, <1>2, <1>3, <1>4
  <2>2. CASE j < k
    BY <1>1, <1>2, <1>3, <1>4, <2>1, <2>2
  <2>3. CASE ~(j < k)
    <3>1. comments'[j] = after[j - (k - 1)] /\ j - (k - 1) \in 1..(Len(comments) - k)
      BY <1>1, <1>2, <1>3, <1>4, <2>1, <2>3
    <3>2. k + (j - (k - 1)) = j + 1 /\ j + 1 \in DOMAIN comments
      BY <1>1, <2>1
    <3> QED
      BY <1>4, <2>3, <3>1, <3>2
  <2> QED
    BY <2>2, <2>3
<1> QED
  BY <1>1, <1>2, <1>5, <1>6

(* However the list changes, identifiers stay those of one comment, and    *)
(* what is the bot's stays the bot's.                                      *)
ListChanges ==
  \/ comments' = comments /\ made' = made
  \/ \E c \in Comments : Grows(c)
  \/ \E k \in DOMAIN comments, text \in Verdicts : Revises(k, text)
  \/ \E k \in DOMAIN comments : Loses(k)

LEMMA IdentifiersKept ==
  ASSUME TypeOK, Identified, ListChanges
  PROVE  Identified' /\ \A id \in Nat : Safe(id) => Safe(id)'
<1>0. /\ comments \in Seq(Comments) /\ made \in Nat
      /\ \A k \in DOMAIN comments : comments[k].id \in Nat /\ comments[k].id <= made
  <2>1. comments \in Seq(Comments) /\ \A k \in DOMAIN comments : comments[k].id <= made
    BY DEF TypeOK, Identified
  <2>2. \A k \in DOMAIN comments : comments[k] \in Comments
    BY <2>1
  <2>3. \A c \in Comments : c.id \in Nat
    BY DEF Comments
  <2>4. \A k \in DOMAIN comments : comments[k].id \in Nat
    BY <2>2, <2>3, Zenon
  <2> QED
    BY <2>1, <2>4 DEF TypeOK
<1>1. CASE comments' = comments /\ made' = made
  BY <1>1 DEF Identified, Safe
<1>2. ASSUME NEW c \in Comments, Grows(c)
      PROVE  Identified' /\ \A id \in Nat : Safe(id) => Safe(id)'
  <2>1. made' = made + 1 /\ c.id = made + 1
    BY <1>2 DEF Grows
  <2>2. ASSUME NEW k \in DOMAIN comments'
        PROVE  comments'[k].id <= made'
               /\ (k \notin DOMAIN comments => comments'[k].id = made + 1 /\ k = Len(comments) + 1)
    BY <1>0, <1>2, <2>1, Grown
  <2>3. ASSUME NEW j \in DOMAIN comments', NEW k \in DOMAIN comments',
               comments'[j].id = comments'[k].id
        PROVE  j = k
    <3>1. CASE j \in DOMAIN comments /\ k \in DOMAIN comments
      BY <1>2, <2>3, <3>1, Grown DEF Identified
    <3>2. CASE j \in DOMAIN comments /\ k \notin DOMAIN comments
      <4>1. comments'[j].id <= made /\ comments'[k].id = made + 1 /\ comments'[j].id \in Nat
        BY <1>0, <1>2, <2>2, <3>2, Grown
      <4> QED
        BY <1>0, <2>3, <4>1
    <3>3. CASE j \notin DOMAIN comments /\ k \in DOMAIN comments
      <4>1. comments'[k].id <= made /\ comments'[j].id = made + 1 /\ comments'[k].id \in Nat
        BY <1>0, <1>2, <2>2, <3>3, Grown
      <4> QED
        BY <1>0, <2>3, <4>1
    <3>4. CASE j \notin DOMAIN comments /\ k \notin DOMAIN comments
      BY <2>2, <3>4
    <3> QED
      BY <3>1, <3>2, <3>3, <3>4
  <2>4. ASSUME NEW id \in Nat, Safe(id)
        PROVE  Safe(id)'
    <3>1. id <= made /\ id <= made'
      BY <1>0, <2>1, <2>4 DEF Safe
    <3>2. ASSUME NEW k \in DOMAIN comments', comments'[k].id = id
          PROVE  IsOwned(comments'[k])
      <4>1. k \in DOMAIN comments
        BY <1>0, <2>2, <3>1, <3>2
      <4> QED
        BY <1>2, <2>4, <3>2, <4>1, Grown DEF Safe
    <3> QED
      BY <3>1, <3>2 DEF Safe
  <2> QED
    BY <2>2, <2>3, <2>4 DEF Identified
<1>3. ASSUME NEW k \in DOMAIN comments, NEW text \in Verdicts, Revises(k, text)
      PROVE  Identified' /\ \A id \in Nat : Safe(id) => Safe(id)'
  <2>1. /\ DOMAIN comments' = DOMAIN comments /\ made' = made
        /\ \A j \in DOMAIN comments :
             comments'[j].id = comments[j].id /\ comments'[j].author = comments[j].author
        /\ \A j \in DOMAIN comments : IsOwned(comments[j]) => IsOwned(comments'[j])
    BY <1>3, Revised DEF Revises, IsOwned
  <2> QED
    BY <2>1 DEF Identified, Safe
<1>4. ASSUME NEW k \in DOMAIN comments, Loses(k)
      PROVE  Identified' /\ \A id \in Nat : Safe(id) => Safe(id)'
  <2>1. made' = made
    BY <1>4 DEF Loses
  <2>2. \A j \in DOMAIN comments' :
          \E i \in DOMAIN comments : comments'[j] = comments[i]
    BY <1>4, Lost
  <2>3. ASSUME NEW j \in DOMAIN comments', NEW l \in DOMAIN comments',
               comments'[j].id = comments'[l].id
        PROVE  j = l
    <3>1. PICK i \in DOMAIN comments : comments'[j] = comments[i] /\ i = IF j < k THEN j ELSE j + 1
      BY <1>4, Lost
    <3>2. PICK m \in DOMAIN comments : comments'[l] = comments[m] /\ m = IF l < k THEN l ELSE l + 1
      BY <1>4, Lost
    <3>3. i = m
      BY <2>3, <3>1, <3>2 DEF Identified
    <3>4. comments' \in Seq(Comments) /\ j \in Nat /\ l \in Nat /\ k \in Nat
      <4>1. comments' \in Seq(Comments)
        BY <1>4, Lost
      <4> QED
        BY <1>0, <4>1
    <3> QED
      BY <3>1, <3>2, <3>3, <3>4
  <2> QED
    BY <2>1, <2>2, <2>3 DEF Identified, Safe
<1> QED
  BY <1>1, <1>2, <1>3, <1>4 DEF ListChanges

LEMMA ProviderShapes ==
  ASSUME TypeOK, NEW r \in Runs, Provider(r)
  PROVE  /\ OnlyRequest(r) /\ TypeOK' /\ ListChanges
         /\ \/ Creates(r) \/ Updates(r)
            \/ UNCHANGED <<comments, made>> /\ reply'[r].status = "unavailable"
<1>0. /\ NoRequest \in [sent : BOOLEAN, to : Nat] /\ ~NoRequest.sent
      /\ Verdict[r] \in Verdicts /\ Bot \in Users /\ setting.token[r] \in Users
  BY RunsAssumption, SettingFacts DEF NoRequest, New
<1>1. ASSUME Perform(r)
      PROVE  /\ request' \in [Runs -> [sent : BOOLEAN, to : Nat]]
             /\ UNCHANGED <<setting, pc, page, owned, outcome>>
             /\ request[r].sent /\ (setting.late \/ pc[r] = "waiting") /\ ~request'[r].sent
             /\ \A s \in Runs \ {r} : request'[s] = request[s]
  BY <1>0, <1>1 DEF Perform, TypeOK
<1>2. ASSUME NEW status \in {"created", "updated", "unavailable"}, NEW author \in Users,
             reply' = [reply EXCEPT ![r] = [status |-> status, author |-> author]]
      PROVE  /\ reply' \in [Runs -> [status : {"none", "created", "updated", "unavailable"},
                                     author : Users]]
             /\ reply'[r].status = status /\ reply'[r].author = author
             /\ \A s \in Runs \ {r} : reply'[s] = reply[s]
  BY <1>2 DEF TypeOK
<1>3. CASE Create(r)
  <2> DEFINE c == [id |-> made + 1, author |-> setting.token[r], text |-> Verdict[r]]
  <2>1. Perform(r) /\ request[r].to = New /\ comments' = Append(comments, c) /\ made' = made + 1
        /\ reply' = [reply EXCEPT ![r] = [status |-> "created", author |-> setting.token[r]]]
    BY <1>3 DEF Create
  <2>2. c \in Comments
    BY <1>0 DEF TypeOK, Comments, New
  <2>3. Grows(c)
    BY <2>1, <2>2 DEF Grows
  <2>4. c.author = setting.token[r] /\ c.text = Verdict[r]
    OBVIOUS
  <2> HIDE DEF c
  <2>5. comments' \in Seq(Comments) /\ made' \in Nat
    BY <2>3, Grown
  <2>6. /\ reply' \in [Runs -> [status : {"none", "created", "updated", "unavailable"},
                                author : Users]]
        /\ reply'[r].status = "created" /\ reply'[r].author = setting.token[r]
        /\ \A s \in Runs \ {r} : reply'[s] = reply[s]
    BY <1>0, <1>2, <2>1
  <2> QED
    BY <1>1, <2>1, <2>2, <2>3, <2>4, <2>5, <2>6 DEF TypeOK, Creates, OnlyRequest, ListChanges
<1>4. CASE Update(r)
  <2>1. PICK k \in DOMAIN comments :
          /\ comments[k].id = request[r].to
          /\ comments' = [comments EXCEPT ![k].text = Verdict[r]]
          /\ reply' = [reply EXCEPT ![r] = [status |-> "updated", author |-> comments[k].author]]
    BY <1>4 DEF Update
  <2>2. Perform(r) /\ made' = made
    BY <1>4 DEF Update
  <2>3. Revises(k, Verdict[r])
    BY <1>0, <2>1, <2>2 DEF Revises
  <2>4. comments' \in Seq(Comments) /\ made' \in Nat
    BY <2>3, Revised
  <2>5. comments[k].author \in Users
    <3>1. comments \in Seq(Comments)
      BY DEF TypeOK
    <3>2. comments[k] \in Comments
      BY <3>1
    <3> QED
      BY <3>2 DEF Comments
  <2>6. /\ reply' \in [Runs -> [status : {"none", "created", "updated", "unavailable"},
                                author : Users]]
        /\ reply'[r].status = "updated"
        /\ \A s \in Runs \ {r} : reply'[s] = reply[s]
    BY <1>2, <2>1, <2>5
  <2> QED
    BY <1>0, <1>1, <2>1, <2>2, <2>3, <2>4, <2>6 DEF TypeOK, Updates, OnlyRequest, ListChanges
<1>5. CASE UpdateGone(r)
  <2>1. Perform(r) /\ UNCHANGED <<comments, made>>
        /\ reply' = [reply EXCEPT ![r] = [status |-> "unavailable", author |-> Bot]]
    BY <1>5 DEF UpdateGone
  <2> QED
    BY <1>0, <1>1, <1>2, <2>1 DEF TypeOK, OnlyRequest, ListChanges
<1> QED
  BY <1>3, <1>4, <1>5 DEF Provider

LEMMA UserShapes ==
  ASSUME TypeOK, AddComment \/ DeleteComment
  PROVE  /\ UNCHANGED <<setting, pc, page, owned, request, reply, outcome>> /\ TypeOK' /\ ListChanges
         /\ \/ \E c \in Comments : Grows(c) /\ ~IsOwned(c)
            \/ setting.deletions
<1>1. CASE AddComment
  <2>1. PICK u \in Users \ {Bot}, t \in Verdicts \cup {Remark} :
          comments' = Append(comments, [id |-> made + 1, author |-> u, text |-> t])
    BY <1>1 DEF AddComment
  <2> DEFINE c == [id |-> made + 1, author |-> u, text |-> t]
  <2>2. c \in Comments /\ ~IsOwned(c)
    BY DEF TypeOK, Comments, New, IsOwned
  <2>3. Grows(c)
    BY <1>1, <2>1, <2>2 DEF AddComment, Grows
  <2> HIDE DEF c
  <2> QED
    BY <1>1, <2>2, <2>3, Grown DEF AddComment, TypeOK, ListChanges
<1>2. CASE DeleteComment
  <2>1. PICK k \in DOMAIN comments :
          comments' = SubSeq(comments, 1, k - 1) \o SubSeq(comments, k + 1, Len(comments))
    BY <1>2 DEF DeleteComment
  <2>2. Loses(k)
    BY <1>2, <2>1 DEF DeleteComment, Loses
  <2> QED
    BY <1>2, <2>2, Lost DEF DeleteComment, TypeOK, ListChanges
<1> QED
  BY <1>1, <1>2
-----------------------------------------------------------------------------
(* The general part of the invariant.                                      *)

LEMMA GeneralInit == Init => GeneralInv
<1> SUFFICES ASSUME Init PROVE GeneralInv
  OBVIOUS
<1>1. /\ setting \in Settings /\ SettingOK(setting)
      /\ comments = setting.before /\ made = Len(setting.before)
  BY SettingsAssumption DEF Init
<1>2. comments \in Seq(Comments) /\ made \in Nat /\ \A k \in DOMAIN comments : comments[k].id = k
  BY <1>1 DEF SettingOK
<1>3. TypeOK
  BY <1>1, <1>2, RunsAssumption DEF Init, TypeOK, Stages, NoRequest, NoReply, New
<1>4. Identified
  BY <1>1, <1>2 DEF Identified
<1>5. Targets /\ Stepwise
  BY DEF Init, Targets, Stepwise, NoRequest, NoReply
<1> QED
  BY <1>3, <1>4, <1>5 DEF GeneralInv

(* Safe(id) after a step.                                                  *)
StaysSafe(id) ==
  /\ id <= made'
  /\ \A k \in DOMAIN comments' : comments'[k].id = id => IsOwned(comments'[k])

LEMMA GeneralByRun ==
  ASSUME GeneralInv, NEW r \in Runs, Run(r)
  PROVE  GeneralInv'
<1>1. TypeOK /\ Identified /\ Targets /\ Stepwise
  BY DEF GeneralInv
<1>2. /\ OnlyRun(r) /\ TypeOK' /\ UNCHANGED <<comments, made, reply>>
      /\ Starts(r) \/ ReadsOn(r) \/ Sends(r) \/ Ends(r)
  BY <1>1, RunShapes DEF OnlyRun
<1>3. Identified' /\ \A id : Safe(id) => StaysSafe(id)
  BY <1>1, <1>2 DEF Identified, Safe, StaysSafe
<1>4. /\ owned'[r] \subseteq owned[r] \cup Matches(r)
      /\ request'[r].sent => \/ request'[r] = request[r]
                             \/ request'[r].to = New
                             \/ \E c \in Matches(r) : request'[r].to = c.id
  BY <1>2 DEF Starts, ReadsOn, Sends, Ends, NoRequest
<1>5. Safe(New)
  <2>1. \A k \in DOMAIN comments : comments[k] \in Comments
    BY <1>1 DEF TypeOK
  <2>2. \A c \in Comments : c.id # New
    BY DEF Comments
  <2> QED
    BY <1>1, <2>1, <2>2 DEF TypeOK, Safe, New
<1>6. Targets'
  <2>1. ASSUME NEW s \in Runs, NEW c \in owned'[s]
        PROVE  StaysSafe(c.id)
    <3>1. CASE s = r
      BY <1>1, <1>3, <1>4, <2>1, <3>1, FoundIsSafe DEF Targets
    <3>2. CASE s # r
      BY <1>1, <1>2, <1>3, <2>1, <3>2 DEF Targets, OnlyRun
    <3> QED
      BY <3>1, <3>2
  <2>2. ASSUME NEW s \in Runs, request'[s].sent
        PROVE  StaysSafe(request'[s].to)
    <3>1. CASE s = r
      BY <1>1, <1>3, <1>4, <1>5, <2>2, <3>1, FoundIsSafe DEF Targets
    <3>2. CASE s # r
      BY <1>1, <1>2, <1>3, <2>2, <3>2 DEF Targets, OnlyRun
    <3> QED
      BY <3>1, <3>2
  <2> QED
    BY <2>1, <2>2 DEF Targets, Safe, StaysSafe
<1>7. Stepwise'
  <2>1. ASSUME NEW s \in Runs
        PROVE  /\ pc'[s] = "idle" => page'[s] = 1 /\ owned'[s] = {}
               /\ pc'[s] \in {"idle", "listing"} => ~request'[s].sent
               /\ pc'[s] \in {"idle", "listing"} \/ request'[s].sent => reply'[s].status = "none"
    <3>1. CASE s # r
      BY <1>1, <1>2, <3>1 DEF Stepwise, OnlyRun
    <3>2. CASE s = r /\ Starts(r)
      BY <1>1, <1>2, <3>2 DEF Stepwise, Starts
    <3>3. CASE s = r /\ ReadsOn(r)
      BY <1>1, <1>2, <3>3 DEF Stepwise, ReadsOn
    <3>4. CASE s = r /\ Sends(r)
      BY <1>1, <1>2, <3>4 DEF Stepwise, Sends
    <3>5. CASE s = r /\ Ends(r)
      BY <1>1, <1>2, <3>5 DEF Stepwise, Ends, NoRequest
    <3> QED
      BY <1>2, <3>1, <3>2, <3>3, <3>4, <3>5
  <2> QED
    BY <2>1 DEF Stepwise
<1> QED
  BY <1>2, <1>3, <1>6, <1>7 DEF GeneralInv

(* The same for a step outside the runs: at most a request is gone, and    *)
(* then it was sent.                                                       *)
LEMMA GeneralByOthers ==
  ASSUME GeneralInv, TypeOK', ListChanges, UNCHANGED <<setting, pc, page, owned>>,
         \A s \in Runs : \/ request'[s] = request[s] /\ reply'[s] = reply[s]
                         \/ request[s].sent /\ ~request'[s].sent
  PROVE  GeneralInv'
<1>1. TypeOK /\ Identified /\ Targets /\ Stepwise
  BY DEF GeneralInv
<1>2. Identified' /\ \A id \in Nat : Safe(id) => StaysSafe(id)
  BY <1>1, IdentifiersKept DEF Safe, StaysSafe
<1>3. ASSUME NEW s \in Runs, NEW c \in owned'[s]
      PROVE  StaysSafe(c.id)
  <2>1. c \in owned[s] /\ c \in Comments
    BY <1>1 DEF TypeOK
  <2>2. c.id \in Nat
    BY <2>1 DEF Comments
  <2> QED
    BY <1>1, <1>2, <2>1, <2>2 DEF Targets
<1>4. ASSUME NEW s \in Runs, request'[s].sent
      PROVE  StaysSafe(request'[s].to)
  <2>1. request'[s] = request[s] /\ request[s].to \in Nat
    BY <1>1, <1>4 DEF TypeOK
  <2> QED
    BY <1>1, <1>2, <1>4, <2>1 DEF Targets
<1>5. Stepwise'
  BY <1>1 DEF Stepwise
<1> QED
  BY <1>2, <1>3, <1>4, <1>5 DEF GeneralInv, Targets, Safe, StaysSafe

LEMMA GeneralByProvider ==
  ASSUME GeneralInv, NEW r \in Runs, Provider(r)
  PROVE  GeneralInv'
<1>1. TypeOK
  BY DEF GeneralInv
<1>2. OnlyRequest(r) /\ TypeOK' /\ ListChanges
  BY <1>1, ProviderShapes
<1> QED
  BY <1>2, GeneralByOthers DEF OnlyRequest

LEMMA GeneralByUser ==
  ASSUME GeneralInv, AddComment \/ DeleteComment
  PROVE  GeneralInv'
BY UserShapes, GeneralByOthers DEF GeneralInv

LEMMA GeneralStep == GeneralInv /\ [Next]_vars => GeneralInv'
<1>1. ASSUME GeneralInv, UNCHANGED vars
      PROVE  GeneralInv'
  BY <1>1 DEF vars, GeneralInv, TypeOK, Identified, Targets, Safe, Stepwise
<1> QED
  BY <1>1, GeneralByRun, GeneralByProvider, GeneralByUser DEF Next

(* What identifies a comment, or which runs have gone how far, is never    *)
(* confused.                                                               *)
THEOREM GeneralInvariance == Spec => []GeneralInv
<1> QED
  BY GeneralInit, GeneralStep, PTL DEF Spec

-----------------------------------------------------------------------------
(* Comments of others.                                                     *)

LEMMA UpdatesItsOwn ==
  ASSUME GeneralInv, NEW r \in Runs, request[r].sent, Updates(r)
  PROVE  \E k \in DOMAIN comments :
           IsOwned(comments[k]) /\ comments[k].id = request[r].to /\ Revises(k, Verdict[r])
<1>1. Safe(request[r].to)
  BY DEF GeneralInv, Targets
<1> QED
  BY <1>1 DEF Updates, Safe

OthersStay ==
  \A k \in DOMAIN comments, l \in DOMAIN comments' :
    comments[k].id = comments'[l].id /\ comments[k].author # Bot => comments'[l] = comments[k]

LEMMA OthersStayUnlessRevised ==
  ASSUME GeneralInv,
         \/ UNCHANGED comments
         \/ \E c \in Comments : Grows(c)
         \/ \E k \in DOMAIN comments : Loses(k)
  PROVE  OthersStay
<1>1. /\ TypeOK /\ \A k \in DOMAIN comments : comments[k].id <= made
      /\ \A j, k \in DOMAIN comments : comments[j].id = comments[k].id => j = k
  BY DEF GeneralInv, Identified
<1>2. CASE UNCHANGED comments
  BY <1>1, <1>2 DEF OthersStay
<1>3. ASSUME NEW c \in Comments, Grows(c)
      PROVE  OthersStay
  <2>1. c.id = made + 1 /\ made \in Nat
    BY <1>1, <1>3 DEF Grows, TypeOK
  <2>2. ASSUME NEW k \in DOMAIN comments, NEW l \in DOMAIN comments',
               comments[k].id = comments'[l].id
        PROVE  comments'[l] = comments[k]
    <3>1. CASE l \in DOMAIN comments
      BY <1>1, <1>3, <2>2, <3>1, Grown
    <3>2. CASE l \notin DOMAIN comments
      <4>1. comments'[l].id = made + 1
        BY <1>1, <1>3, <2>1, <3>2, Grown
      <4>2. comments[k].id <= made
        BY <1>1
      <4> QED
        BY <2>1, <2>2, <4>1, <4>2
    <3> QED
      BY <3>1, <3>2
  <2> QED
    BY <2>2 DEF OthersStay
<1>4. ASSUME NEW k \in DOMAIN comments, Loses(k)
      PROVE  OthersStay
  BY <1>1, <1>4, Lost DEF OthersStay
<1> QED
  BY <1>2, <1>3, <1>4

(* "An unowned copy of the marker has no authority": whatever overlaps, is *)
(* late or is deleted, in every setting, no step changes a comment of      *)
(* somebody else than the bot.                                             *)
THEOREM OthersKeepTheirs == Spec => OthersUntouched
<1>1. ASSUME GeneralInv, [Next]_vars
      PROVE  OthersStay
  <2>1. TypeOK
    BY <1>1 DEF GeneralInv
  <2>2. CASE UNCHANGED vars
    BY <1>1, <2>2, OthersStayUnlessRevised DEF vars
  <2>3. ASSUME NEW r \in Runs, Run(r)
        PROVE  OthersStay
    BY <1>1, <2>1, <2>3, RunShapes, OthersStayUnlessRevised DEF OnlyRun
  <2>4. ASSUME NEW r \in Runs, Updates(r), request[r].sent
        PROVE  OthersStay
    <3>1. PICK k \in DOMAIN comments : IsOwned(comments[k]) /\ Revises(k, Verdict[r])
      BY <1>1, <2>4, UpdatesItsOwn
    <3>2. ASSUME NEW j \in DOMAIN comments, NEW l \in DOMAIN comments',
                 comments[j].id = comments'[l].id, comments[j].author # Bot
          PROVE  comments'[l] = comments[j]
      <4>1. l \in DOMAIN comments /\ comments[l].id = comments'[l].id
        BY <2>1, <3>1, Revised
      <4>2. l = j
        BY <1>1, <3>2, <4>1 DEF GeneralInv, Identified
      <4>3. l # k
        BY <3>1, <3>2, <4>2 DEF IsOwned
      <4> QED
        BY <2>1, <3>1, <4>2, <4>3, Revised
    <3> QED
      BY <3>2 DEF OthersStay
  <2>5. ASSUME NEW r \in Runs, Provider(r)
        PROVE  OthersStay
    <3>1. CASE Creates(r)
      BY <1>1, <3>1, OthersStayUnlessRevised DEF Creates
    <3>2. CASE Updates(r)
      BY <2>1, <2>4, <2>5, <3>2, ProviderShapes DEF OnlyRequest
    <3>3. CASE UNCHANGED <<comments, made>>
      BY <1>1, <3>3, OthersStayUnlessRevised
    <3> QED
      BY <2>1, <2>5, <3>1, <3>2, <3>3, ProviderShapes
  <2>6. CASE AddComment \/ DeleteComment
    <3>1. CASE AddComment
      <4>1. PICK u \in Users \ {Bot}, t \in Verdicts \cup {Remark} :
              comments' = Append(comments, [id |-> made + 1, author |-> u, text |-> t])
        BY <3>1 DEF AddComment
      <4>2. [id |-> made + 1, author |-> u, text |-> t] \in Comments
        BY <2>1 DEF TypeOK, Comments, New
      <4>3. Grows([id |-> made + 1, author |-> u, text |-> t])
        BY <3>1, <4>1, <4>2 DEF AddComment, Grows
      <4> QED
        BY <1>1, <4>2, <4>3, OthersStayUnlessRevised
    <3>2. CASE DeleteComment
      BY <1>1, <3>2, OthersStayUnlessRevised DEF DeleteComment, Loses
    <3> QED
      BY <2>6, <3>1, <3>2
  <2> QED
    BY <1>1, <2>2, <2>3, <2>5, <2>6 DEF Next
<1>2. OthersStay =>
        \A k \in DOMAIN comments, l \in DOMAIN comments' :
          comments[k].id = comments'[l].id /\ comments[k].author # Bot =>
            comments'[l] = comments[k]
  BY DEF OthersStay
<1>3. GeneralInv /\ [Next]_vars =>
        [\A k \in DOMAIN comments, l \in DOMAIN comments' :
           comments[k].id = comments'[l].id /\ comments[k].author # Bot =>
             comments'[l] = comments[k]]_vars
  BY <1>1, <1>2
<1> QED
  BY <1>3, GeneralInvariance, PTL DEF Spec, OthersUntouched

-----------------------------------------------------------------------------
(* Listings and creations, when no comment is deleted.                     *)

StillThere ==
  /\ Len(comments) <= Len(comments')
  /\ \A k \in DOMAIN comments :
       /\ k \in DOMAIN comments' /\ comments'[k].id = comments[k].id
       /\ IsOwned(comments'[k]) <=> IsOwned(comments[k])

NoneNew == \A k \in DOMAIN comments' : IsOwned(comments'[k]) => k \in DOMAIN comments

LEMMA GrownList ==
  ASSUME TypeOK, NEW c, Grows(c)
  PROVE  StillThere /\ (~IsOwned(c) => NoneNew)
<1>1. /\ Len(comments) \in Nat /\ Len(comments') = Len(comments) + 1
      /\ \A k \in DOMAIN comments : k \in DOMAIN comments' /\ comments'[k] = comments[k]
      /\ comments'[Len(comments) + 1] = c
      /\ \A k \in DOMAIN comments' : k \in DOMAIN comments \/ k = Len(comments) + 1
  BY Grown DEF TypeOK
<1> QED
  BY <1>1 DEF StillThere, NoneNew

LEMMA RevisedList ==
  ASSUME TypeOK, NEW k, NEW text, Revises(k, text), IsOwned(comments[k])
  PROVE  StillThere /\ NoneNew
<1>1. /\ DOMAIN comments' = DOMAIN comments /\ Len(comments') = Len(comments)
      /\ \A j \in DOMAIN comments : j # k => comments'[j] = comments[j]
      /\ comments'[k].id = comments[k].id /\ comments'[k].author = comments[k].author
      /\ comments'[k].text = text /\ text \in Verdicts
  BY Revised DEF Revises
<1>2. Len(comments) \in Nat
  BY DEF TypeOK
<1> QED
  BY <1>1, <1>2 DEF StillThere, NoneNew, IsOwned

LEMMA ListByProvider ==
  ASSUME GeneralInv, NEW r \in Runs, Provider(r)
  PROVE  StillThere /\ (Creates(r) \/ NoneNew)
<1>1. TypeOK /\ request[r].sent
  BY ProviderShapes DEF GeneralInv, OnlyRequest
<1>2. CASE Creates(r)
  BY <1>1, <1>2, GrownList DEF Creates
<1>3. CASE Updates(r)
  BY <1>1, <1>3, UpdatesItsOwn, RevisedList
<1>4. CASE UNCHANGED <<comments, made>>
  BY <1>1, <1>4 DEF StillThere, NoneNew, TypeOK
<1> QED
  BY <1>1, <1>2, <1>3, <1>4, ProviderShapes

LEMMA ListByUser ==
  ASSUME GeneralInv, AddComment \/ DeleteComment, ~setting.deletions
  PROVE  StillThere /\ NoneNew
BY UserShapes, GrownList DEF GeneralInv

LEMMA ListingByRun ==
  ASSUME GeneralInv, ListingInv, NEW r \in Runs, Run(r)
  PROVE  ListingInv'
<1>1. TypeOK /\ Stepwise /\ Covered /\ Kept
  BY DEF GeneralInv, ListingInv
<1>2. /\ OnlyRun(r) /\ UNCHANGED <<setting, comments, made, reply>>
      /\ Starts(r) \/ ReadsOn(r) \/ Sends(r) \/ Ends(r)
  BY <1>1, RunShapes DEF OnlyRun
<1>3. Len(comments) \in Nat /\ page[r] \in Nat \ {0}
  BY <1>1 DEF TypeOK
<1>4. Covered'
  <2>1. ASSUME NEW s \in Runs, pc'[s] = "listing"
        PROVE  /\ (page'[s] - 1) * PageSize <= Len(comments)
               /\ \A k \in DOMAIN comments :
                    k <= (page'[s] - 1) * PageSize /\ IsOwned(comments[k]) =>
                      \E c \in owned'[s] : c.id = comments[k].id
    <3>1. CASE s # r
      BY <1>1, <1>2, <2>1, <3>1 DEF Covered, Read, OnlyRun
    <3>2. CASE s = r /\ Starts(r)
      <4>1. page'[r] = 1 /\ (1 - 1) * PageSize = 0
        BY <1>1, <3>2, PagesAssumption DEF Stepwise, Starts
      <4>2. \A k \in DOMAIN comments : ~(k <= 0)
        BY <1>1 DEF TypeOK
      <4> QED
        BY <1>3, <3>2, <4>1, <4>2
    <3>3. CASE s = r /\ ReadsOn(r)
      <4>1. /\ page'[r] = page[r] + 1 /\ owned'[r] = Matches(r)
            /\ pc[r] = "listing" /\ ~LastPage(r)
        BY <3>3 DEF ReadsOn
      <4>2. (page'[r] - 1) * PageSize = page[r] * PageSize /\ page[r] * PageSize \in Nat
        <5>1. page'[r] - 1 = page[r]
          BY <1>3, <4>1
        <5> QED
          BY <1>3, <5>1, Multiples
      <4>3. page[r] * PageSize <= Len(comments)
        BY <1>1, <1>3, <4>1, <4>2, LastPageIsLast
      <4> QED
        BY <1>1, <3>3, <4>1, <4>2, <4>3, AllFound
    <3> QED
      BY <1>2, <2>1, <3>1, <3>2, <3>3 DEF Sends, Ends
  <2> QED
    BY <1>2, <2>1 DEF Covered, Read
<1>5. Kept' /\ (Unique => Unique')
  BY <1>1, <1>2 DEF Kept, Established, Unique
<1>6. ASSUME FirstOnly
      PROVE  FirstOnly'
  <2>1. ASSUME NEW s \in Runs, request'[s].sent, request'[s].to = New,
               setting.late \/ pc'[s] = "waiting",
               NEW k \in DOMAIN comments, IsOwned(comments[k])
        PROVE  FALSE
    <3>1. CASE s # r
      BY <1>2, <1>6, <2>1, <3>1 DEF FirstOnly, OnlyRun
    <3>2. CASE s = r /\ (Starts(r) \/ ReadsOn(r))
      BY <1>1, <2>1, <3>2 DEF Stepwise, Starts, ReadsOn
    <3>3. CASE s = r /\ Sends(r)
      <4>1. pc[r] = "listing" /\ LastPage(r)
        BY <3>3 DEF Sends
      <4>2. k <= page[r] * PageSize
        <5>1. Len(comments) < page[r] * PageSize /\ page[r] * PageSize \in Nat
          BY <1>1, <1>3, <4>1, LastPageIsLast, Multiples
        <5>2. k \in 1..Len(comments)
          BY <1>1 DEF TypeOK
        <5> QED
          BY <1>3, <5>1, <5>2
      <4>3. PICK c \in Matches(r) : c.id = comments[k].id
        BY <1>1, <2>1, <4>1, <4>2, AllFound
      <4>4. \A d \in Matches(r) : d.id # New
        BY FoundIsSafe DEF New
      <4> QED
        BY <2>1, <3>3, <4>3, <4>4 DEF Sends
    <3>4. CASE s = r /\ Ends(r)
      BY <1>2, <1>6, <2>1, <3>4 DEF FirstOnly, Ends, NoRequest
    <3> QED
      BY <1>2, <3>1, <3>2, <3>3, <3>4
  <2> QED
    BY <1>2, <2>1 DEF FirstOnly
<1> QED
  BY <1>2, <1>4, <1>5, <1>6 DEF ListingInv, OneAtATime, Established, OneBefore

LEMMA ListingKept ==
  ASSUME GeneralInv, Covered, Kept, StillThere, UNCHANGED <<setting, pc, page, owned>>
  PROVE  Covered' /\ Kept'
<1>1. ASSUME NEW s \in Runs, pc'[s] = "listing"
      PROVE  /\ Read(s) <= Len(comments')
             /\ \A k \in DOMAIN comments' : k <= Read(s) /\ IsOwned(comments'[k]) =>
                  \E c \in owned[s] : c.id = comments'[k].id
  <2>1. /\ Len(comments) \in Nat /\ Len(comments') \in Nat
        /\ DOMAIN comments = 1..Len(comments)
        /\ Read(s) \in Nat /\ Read(s) <= Len(comments) /\ Len(comments) <= Len(comments')
    <3>1. comments \in Seq(Comments) /\ page[s] \in Nat \ {0} /\ pc[s] = "listing"
      BY <1>1 DEF GeneralInv, TypeOK
    <3>2. Read(s) \in Nat
      BY <3>1, Multiples DEF Read
    <3> QED
      BY <3>1, <3>2 DEF Covered, StillThere
  <2> QED
    BY <1>1, <2>1 DEF Covered, StillThere
<1> QED
  BY <1>1 DEF Covered, Read, Kept, StillThere, Established

LEMMA ListingByProvider ==
  ASSUME GeneralInv, ListingInv, OneAtATime => Alone, NEW r \in Runs, Provider(r)
  PROVE  ListingInv'
<1>1. TypeOK /\ Covered /\ Kept
  BY DEF GeneralInv, ListingInv
<1>2. OnlyRequest(r) /\ StillThere /\ (Creates(r) \/ NoneNew)
  BY <1>1, ProviderShapes, ListByProvider
<1>3. Covered' /\ Kept'
  BY <1>1, <1>2, ListingKept DEF OnlyRequest
<1>4. ASSUME OneAtATime \/ Established, FirstOnly
      PROVE  FirstOnly' /\ (Unique => Unique')
  <2>1. CASE Creates(r)
    <3>1. \A k \in DOMAIN comments : ~IsOwned(comments[k])
      BY <1>2, <1>4, <2>1 DEF OnlyRequest, Creates, FirstOnly
    <3>2. OneAtATime /\ pc[r] = "waiting" /\ Alone /\ ~setting.late
      BY <1>1, <1>2, <1>4, <3>1 DEF Kept, OnlyRequest, OneAtATime
    <3>3. ASSUME NEW s \in Runs, request'[s].sent
          PROVE  ~(setting'.late \/ pc'[s] = "waiting")
      <4>1. s # r
        BY <1>2, <3>3 DEF OnlyRequest
      <4> QED
        BY <1>2, <3>2, <4>1 DEF OnlyRequest, Alone, Active
    <3>4. \A k \in DOMAIN comments' :
            IsOwned(comments'[k]) => k = Len(comments) + 1
      BY <1>1, <1>2, <2>1, <3>1, Grown DEF Creates
    <3> QED
      BY <3>3, <3>4 DEF FirstOnly, Unique
  <2>2. CASE NoneNew
    <3>1. \A k \in DOMAIN comments' :
            IsOwned(comments'[k]) => k \in DOMAIN comments /\ IsOwned(comments[k])
      BY <1>2, <2>2 DEF NoneNew, StillThere
    <3>2. \A s \in Runs : request'[s].sent => request'[s] = request[s]
      BY <1>2 DEF OnlyRequest
    <3> QED
      BY <1>2, <1>4, <3>1, <3>2 DEF FirstOnly, Unique, OnlyRequest
  <2> QED
    BY <1>2, <2>1, <2>2
<1> QED
  BY <1>2, <1>3, <1>4 DEF ListingInv, OnlyRequest, OneAtATime, Established, OneBefore

LEMMA ListingByUser ==
  ASSUME GeneralInv, ListingInv, ~setting.deletions, AddComment \/ DeleteComment
  PROVE  ListingInv'
<1>1. TypeOK /\ Covered /\ Kept
  BY DEF GeneralInv, ListingInv
<1>2. /\ UNCHANGED <<setting, pc, page, owned, request>> /\ StillThere /\ NoneNew
  BY <1>1, UserShapes, ListByUser
<1>3. Covered' /\ Kept'
  BY <1>1, <1>2, ListingKept
<1>4. \A k \in DOMAIN comments' :
        IsOwned(comments'[k]) => k \in DOMAIN comments /\ IsOwned(comments[k])
  BY <1>2 DEF NoneNew, StillThere
<1>5. (FirstOnly => FirstOnly') /\ (Unique => Unique')
  BY <1>2, <1>4 DEF FirstOnly, Unique
<1> QED
  BY <1>2, <1>3, <1>5 DEF ListingInv, OneAtATime, Established, OneBefore

-----------------------------------------------------------------------------
(* Runs one at a time.                                                     *)

LEMMA SerialByRun ==
  ASSUME GeneralInv, Covered, SerialInv, OneAtATime, NEW r \in Runs, Run(r)
  PROVE  SerialInv'
<1>1. TypeOK /\ Stepwise /\ Alone /\ Fresh /\ Aimed /\ Answered
  BY DEF GeneralInv, SerialInv
<1>2. /\ OnlyRun(r) /\ UNCHANGED <<setting, comments, made, reply>>
      /\ Starts(r) \/ ReadsOn(r) \/ Sends(r) \/ Ends(r)
  BY <1>1, RunShapes DEF OnlyRun
<1>3. Alone'
  <2>1. CASE Starts(r)
    <3>1. \A s \in Runs : ~Active(s)
      BY <2>1 DEF Starts, OneAtATime
    <3> QED
      BY <1>2, <3>1 DEF Alone, Active, OnlyRun
  <2>2. CASE ReadsOn(r) \/ Sends(r) \/ Ends(r)
    <3>1. \A s \in Runs : Active(s)' => Active(s)
      BY <1>2, <2>2 DEF Active, OnlyRun, ReadsOn, Sends, Ends
    <3> QED
      BY <1>1, <3>1 DEF Alone
  <2> QED
    BY <1>2, <2>1, <2>2
<1>4. Fresh'
  <2>1. ASSUME NEW s \in Runs, pc'[s] = "listing", NEW c \in owned'[s]
        PROVE  \E k \in DOMAIN comments : comments[k] = c
    <3>1. CASE s # r
      BY <1>1, <1>2, <2>1, <3>1 DEF Fresh, OnlyRun
    <3>2. CASE s = r /\ Starts(r)
      BY <1>1, <2>1, <3>2 DEF Stepwise, Starts
    <3>3. CASE s = r /\ ReadsOn(r)
      BY <1>1, <2>1, <3>3, MatchesAre DEF Fresh, ReadsOn
    <3> QED
      BY <1>2, <2>1, <3>1, <3>2, <3>3 DEF Sends, Ends
  <2> QED
    BY <1>2, <2>1 DEF Fresh
<1>5. Aimed'
  <2>1. ASSUME NEW s \in Runs, pc'[s] = "waiting", request'[s].sent, request'[s].to # New
        PROVE  /\ \E k \in DOMAIN comments : comments[k].id = request'[s].to
               /\ \A k \in DOMAIN comments : IsOwned(comments[k]) => comments[k].id = request'[s].to
    <3>1. CASE s # r
      BY <1>1, <1>2, <2>1, <3>1 DEF Aimed, OnlyRun
    <3>2. CASE s = r /\ Sends(r)
      <4>1. PICK c \in Matches(r) : request'[r].to = c.id
        BY <2>1, <3>2 DEF Sends
      <4>2. pc[r] = "listing" /\ LastPage(r) /\ ~Ambiguous(r)
        BY <3>2 DEF Sends
      <4>3. \E k \in DOMAIN comments : comments[k] = c
        BY <1>1, <4>1, <4>2, MatchesAre DEF Fresh
      <4>4. ASSUME NEW k \in DOMAIN comments, IsOwned(comments[k])
            PROVE  comments[k].id = c.id
        <5>1. k <= page[r] * PageSize
          <6>1. page[r] \in Nat \ {0} /\ Len(comments) \in Nat /\ k \in 1..Len(comments)
            BY <1>1 DEF TypeOK
          <6>2. Len(comments) < page[r] * PageSize /\ page[r] * PageSize \in Nat
            BY <1>1, <4>2, <6>1, LastPageIsLast, Multiples
          <6> QED
            BY <6>1, <6>2
        <5>2. \E d \in Matches(r) : d.id = comments[k].id
          BY <1>1, <4>2, <4>4, <5>1, AllFound
        <5> QED
          BY <4>1, <4>2, <5>2 DEF Ambiguous
      <4> QED
        BY <3>2, <4>1, <4>3, <4>4
    <3> QED
      BY <1>2, <2>1, <3>1, <3>2 DEF Starts, ReadsOn, Ends
  <2> QED
    BY <1>2, <2>1 DEF Aimed
<1>6. Answered'
  <2>1. ASSUME NEW s \in Runs, pc'[s] = "waiting", reply'[s].status \in {"created", "updated"},
               reply'[s].author = Bot
        PROVE  Shows(s)
    <3>1. CASE s # r
      BY <1>1, <1>2, <2>1, <3>1 DEF Answered, OnlyRun
    <3>2. CASE s = r /\ Sends(r)
      BY <1>1, <1>2, <2>1, <3>2 DEF Stepwise, Sends
    <3> QED
      BY <1>2, <2>1, <3>1, <3>2 DEF Starts, ReadsOn, Ends
  <2> QED
    BY <1>2, <2>1 DEF Answered, Shows
<1> QED
  BY <1>3, <1>4, <1>5, <1>6 DEF SerialInv

LEMMA SerialByProvider ==
  ASSUME GeneralInv, FirstOnly, SerialInv, OneAtATime, NEW r \in Runs, Provider(r)
  PROVE  SerialInv'
<1>1. TypeOK /\ Identified /\ Alone /\ Aimed
  BY DEF GeneralInv, SerialInv
<1>2. OnlyRequest(r) /\ UNCHANGED <<setting, pc, page, owned>>
  BY <1>1, ProviderShapes DEF OnlyRequest
<1>3. request[r].sent /\ pc[r] = "waiting" /\ ~request'[r].sent
  BY <1>2 DEF OnlyRequest, OneAtATime
<1>4. \A s \in Runs \ {r} : pc[s] # "listing" /\ pc[s] # "waiting"
  BY <1>1, <1>3 DEF Alone, Active
<1>5. Alone'
  BY <1>1, <1>2 DEF Alone, Active
<1>6. Fresh' /\ Aimed'
  BY <1>2, <1>3, <1>4 DEF Fresh, Aimed
<1>7. Shows(r)' \/ ~(reply'[r].status \in {"created", "updated"} /\ reply'[r].author = Bot)
  <2>1. CASE Creates(r) /\ reply'[r].author = Bot
    <3>1. PICK c \in Comments :
            c.author = setting.token[r] /\ c.text = Verdict[r] /\ Grows(c)
      BY <2>1 DEF Creates
    <3>2. IsOwned(c)
      BY <2>1, <3>1, RunsAssumption DEF Creates, IsOwned
    <3>3. \A k \in DOMAIN comments : ~IsOwned(comments[k])
      BY <1>3, <2>1 DEF Creates, FirstOnly
    <3>4. Len(comments) + 1 \in DOMAIN comments'
      <4>1. Len(comments') = Len(comments) + 1 /\ comments' \in Seq(Comments) /\ Len(comments) \in Nat
        BY <1>1, <3>1, Grown DEF TypeOK
      <4> QED
        BY <4>1
    <3>5. comments'[Len(comments) + 1] = c
          /\ \A k \in DOMAIN comments' : IsOwned(comments'[k]) => k = Len(comments) + 1
      BY <1>1, <3>1, <3>3, Grown
    <3> QED
      BY <3>1, <3>2, <3>4, <3>5 DEF Shows
  <2>2. CASE Updates(r)
    <3>1. PICK k \in DOMAIN comments :
            IsOwned(comments[k]) /\ comments[k].id = request[r].to /\ Revises(k, Verdict[r])
      BY <1>3, <2>2, UpdatesItsOwn
    <3>2. request[r].to # New
      <4>1. comments[k] \in Comments
        BY <1>1 DEF TypeOK
      <4>2. \A c \in Comments : c.id # New
        BY DEF Comments
      <4> QED
        BY <3>1, <4>1, <4>2
    <3>3. \A j \in DOMAIN comments : IsOwned(comments[j]) => j = k
      BY <1>1, <1>3, <3>1, <3>2 DEF Aimed, Identified
    <3>4. StillThere /\ NoneNew
      BY <1>1, <3>1, RevisedList
    <3>5. k \in DOMAIN comments' /\ IsOwned(comments'[k]) /\ comments'[k].text = Verdict[r]
      BY <1>1, <3>1, <3>4, Revised DEF StillThere
    <3>6. \A j \in DOMAIN comments' : IsOwned(comments'[j]) => j = k
      BY <3>3, <3>4 DEF StillThere, NoneNew
    <3> QED
      BY <3>5, <3>6 DEF Shows
  <2> QED
    BY <1>1, <2>1, <2>2, ProviderShapes
<1>8. Answered'
  BY <1>2, <1>4, <1>7 DEF Answered
<1> QED
  BY <1>5, <1>6, <1>8 DEF SerialInv

LEMMA SerialByUser ==
  ASSUME GeneralInv, SerialInv, ~setting.deletions, AddComment \/ DeleteComment
  PROVE  SerialInv'
<1>1. TypeOK /\ Alone /\ Fresh /\ Aimed /\ Answered
  BY DEF GeneralInv, SerialInv
<1>2. UNCHANGED <<setting, pc, page, owned, request, reply>>
  BY <1>1, UserShapes
<1>3. PICK c \in Comments : Grows(c) /\ ~IsOwned(c)
  BY <1>1, UserShapes
<1>4. \A k \in DOMAIN comments : k \in DOMAIN comments' /\ comments'[k] = comments[k]
  BY <1>1, <1>3, Grown
<1>5. \A k \in DOMAIN comments' : IsOwned(comments'[k]) => k \in DOMAIN comments
  BY <1>1, <1>3, GrownList DEF NoneNew
<1>6. Alone' /\ Fresh' /\ Aimed'
  BY <1>1, <1>2, <1>4, <1>5 DEF Alone, Active, Fresh, Aimed
<1>7. \A r \in Runs : Shows(r) => Shows(r)'
  BY <1>4, <1>5 DEF Shows
<1>8. Answered'
  BY <1>1, <1>2, <1>7 DEF Answered
<1> QED
  BY <1>6, <1>8 DEF SerialInv

-----------------------------------------------------------------------------
(* The comment of the bot.                                                 *)

LEMMA InvInit == Init => Inv
<1> SUFFICES ASSUME Init PROVE Inv
  OBVIOUS
<1>1. GeneralInv /\ TypeOK
  BY GeneralInit DEF GeneralInv
<1>2. comments = setting.before /\ \A r \in Runs : pc[r] = "idle" /\ ~request[r].sent
  BY DEF Init, NoRequest
<1>3. Covered /\ FirstOnly
  BY <1>2 DEF Covered, FirstOnly
<1>4. Kept /\ (OneBefore => Unique)
  BY <1>2 DEF Kept, Established, OneBefore, Unique
<1>5. SerialInv
  BY <1>2 DEF SerialInv, Alone, Active, Fresh, Aimed, Answered
<1> QED
  BY <1>1, <1>3, <1>4, <1>5 DEF Inv, ListingInv

LEMMA InvStep == Inv /\ [Next]_vars => Inv'
<1> SUFFICES ASSUME Inv, [Next]_vars PROVE Inv'
  OBVIOUS
<1>1. GeneralInv /\ GeneralInv' /\ TypeOK
  BY GeneralStep DEF Inv, GeneralInv
<1>2. CASE UNCHANGED vars
  BY <1>1, <1>2 DEF vars, Inv, ListingInv, SerialInv, Covered, Read, Kept, Established,
    OneAtATime, OneBefore, FirstOnly, Unique, Alone, Active, Fresh, Aimed, Answered, Shows
<1>3. ASSUME NEW r \in Runs, Run(r)
      PROVE  Inv'
  <2>1. UNCHANGED setting
    BY <1>1, <1>3, RunShapes DEF OnlyRun
  <2>2. ~setting.deletions => ListingInv'
    BY <1>1, <1>3, ListingByRun DEF Inv
  <2>3. ~setting.deletions /\ OneAtATime => SerialInv'
    BY <1>1, <1>3, SerialByRun DEF Inv, ListingInv
  <2> QED
    BY <1>1, <2>1, <2>2, <2>3 DEF Inv, OneAtATime
<1>4. ASSUME NEW r \in Runs, Provider(r)
      PROVE  Inv'
  <2>1. UNCHANGED setting
    BY <1>1, <1>4, ProviderShapes DEF OnlyRequest
  <2>2. ~setting.deletions => ListingInv'
    BY <1>1, <1>4, ListingByProvider DEF Inv, SerialInv
  <2>3. ~setting.deletions /\ OneAtATime => SerialInv'
    BY <1>1, <1>4, SerialByProvider DEF Inv, ListingInv
  <2> QED
    BY <1>1, <2>1, <2>2, <2>3 DEF Inv, OneAtATime
<1>5. CASE AddComment \/ DeleteComment
  <2>1. UNCHANGED setting
    BY <1>1, <1>5, UserShapes
  <2>2. ~setting.deletions => ListingInv'
    BY <1>1, <1>5, ListingByUser DEF Inv
  <2>3. ~setting.deletions /\ OneAtATime => SerialInv'
    BY <1>1, <1>5, SerialByUser DEF Inv
  <2> QED
    BY <1>1, <2>1, <2>2, <2>3 DEF Inv, OneAtATime
<1> QED
  BY <1>2, <1>3, <1>4, <1>5 DEF Next

(* What every run has read, found, sent and been answered fits the         *)
(* comments that are there.                                                *)
THEOREM Invariance == Spec => []Inv
<1> QED
  BY InvInit, InvStep, PTL DEF Spec

(* "A pull request carries at most one comment of the bot": if it was so   *)
(* before and none is deleted, it stays so under runs one at a time, and,  *)
(* once the comment is there, under overlapping runs and late requests.    *)
THEOREM OneComment == Spec => []AtMostOneOwned
<1>1. ASSUME Inv, ~setting.deletions, OneBefore, OneAtATime \/ Established
      PROVE  Cardinality(OwnedIds) <= 1
  <2>1. Unique
    BY <1>1 DEF Inv, ListingInv
  <2>2. CASE \A k \in DOMAIN comments : ~IsOwned(comments[k])
    <3>1. OwnedIds = {}
      BY <2>2 DEF OwnedIds
    <3> QED
      BY <3>1, FS_EmptySet
  <2>3. CASE \E k \in DOMAIN comments : IsOwned(comments[k])
    <3>1. PICK k \in DOMAIN comments : IsOwned(comments[k])
      BY <2>3
    <3>2. OwnedIds = {comments[k].id}
      BY <2>1, <3>1 DEF OwnedIds, Unique
    <3>3. Cardinality(OwnedIds) = 1
      BY <3>2, FS_Singleton
    <3> QED
      BY <3>3
  <2> QED
    BY <2>2, <2>3
<1>2. Inv => AtMostOneOwned
  BY <1>1 DEF AtMostOneOwned
<1> QED
  BY <1>2, Invariance, PTL

Succeeds(r) == outcome[r] = "none" /\ outcome'[r] \in Outcomes \ {"permission_unavailable"}

(* A run succeeds by finding its verdict in the only comment, or by an     *)
(* answer of the provider that names the bot.                              *)
LEMMA Success ==
  ASSUME TypeOK, NEW r \in Runs, [Next]_vars, Succeeds(r)
  PROVE  \/ /\ pc[r] = "listing" /\ LastPage(r) /\ Settled(r)
         \/ /\ pc[r] = "waiting" /\ reply[r].status \in {"created", "updated"}
            /\ reply[r].author = Bot
<1> USE DEF Succeeds, Outcomes
<1>1. CASE UNCHANGED vars
  BY <1>1 DEF vars
<1>2. ASSUME NEW s \in Runs, Run(s)
      PROVE  \/ /\ pc[r] = "listing" /\ LastPage(r) /\ Settled(r)
             \/ /\ pc[r] = "waiting" /\ reply[r].status \in {"created", "updated"}
                /\ reply[r].author = Bot
  <2>1. ASSUME NEW how, End(s, how)
        PROVE  s = r /\ outcome'[r] = how
    BY <2>1 DEF End, TypeOK
  <2>2. CASE Start(s)
    BY <2>1, <2>2 DEF Start
  <2>3. CASE NextPage(s)
    BY <2>1, <2>3 DEF NextPage
  <2>4. CASE LeaveAsItIs(s)
    <3>1. s = r /\ (Ambiguous(s) => outcome'[r] = "AMBIGUOUS_UPSERT_TARGET")
      BY <2>1, <2>4 DEF LeaveAsItIs
    <3> QED
      BY <2>4, <3>1 DEF LeaveAsItIs
  <2>5. CASE Send(s)
    BY <2>5 DEF Send
  <2>6. CASE Denied(s)
    BY <2>1, <2>6 DEF Denied
  <2>7. CASE Fail(s)
    BY <2>1, <2>7 DEF Fail
  <2>8. CASE Receive(s)
    <3>1. s = r /\ pc[r] = "waiting" /\ reply[r].status # "none"
      BY <2>1, <2>8 DEF Receive
    <3>2. reply[r].status # "unavailable" /\ reply[r].author = Bot
      BY <2>1, <2>8, <3>1 DEF Receive
    <3>3. reply[r].status \in {"none", "created", "updated", "unavailable"}
      BY DEF TypeOK
    <3> QED
      BY <3>1, <3>2, <3>3
  <2> QED
    BY <1>2, <2>2, <2>3, <2>4, <2>5, <2>6, <2>7, <2>8 DEF Run
<1>3. CASE \E s \in Runs : Provider(s)
  BY <1>3, ProviderShapes DEF OnlyRequest
<1>4. CASE AddComment \/ DeleteComment
  BY <1>4, UserShapes
<1> QED
  BY <1>1, <1>2, <1>3, <1>4 DEF Next

(* A success means that the comment of the bot is there, is the only one   *)
(* and says what the run wanted, if runs are one at a time and no comment  *)
(* is deleted, whatever fails and however long answers take.               *)
THEOREM SuccessIsShown == Spec => SuccessShown
<1>1. ASSUME Inv, [Next]_vars, ~setting.deletions, OneAtATime, NEW r \in Runs, Succeeds(r)
      PROVE  Shows(r)
  <2>1. TypeOK /\ Covered /\ Fresh /\ Answered
    BY <1>1 DEF Inv, GeneralInv, ListingInv, SerialInv
  <2>2. CASE pc[r] = "listing" /\ LastPage(r) /\ Settled(r)
    <3>1. PICK c \in Matches(r) : c.text = Verdict[r]
      BY <2>2 DEF Settled
    <3>2. \A d \in Matches(r) : d = c
      BY <2>2, <3>1 DEF Settled, Ambiguous
    <3>3. PICK k \in DOMAIN comments : comments[k] = c
      BY <2>1, <2>2, <3>1, MatchesAre DEF Fresh
    <3>4. ASSUME NEW j \in DOMAIN comments, IsOwned(comments[j])
          PROVE  j = k
      <4>1. j <= page[r] * PageSize
        <5>1. page[r] \in Nat \ {0} /\ Len(comments) \in Nat /\ j \in 1..Len(comments)
          BY <2>1 DEF TypeOK
        <5>2. Len(comments) < page[r] * PageSize /\ page[r] * PageSize \in Nat
          BY <2>1, <2>2, <5>1, LastPageIsLast, Multiples
        <5> QED
          BY <5>1, <5>2
      <4>2. comments[j].id = comments[k].id
        BY <2>1, <2>2, <3>2, <3>3, <3>4, <4>1, AllFound
      <4> QED
        BY <1>1, <4>2 DEF Inv, GeneralInv, Identified
    <3>5. IsOwned(comments[k])
      <4>1. Safe(c.id)
        BY <1>1, <3>1, FoundIsSafe DEF Inv
      <4> QED
        BY <3>3, <4>1 DEF Safe
    <3> QED
      BY <3>1, <3>3, <3>4, <3>5 DEF Shows
  <2>3. CASE /\ pc[r] = "waiting" /\ reply[r].status \in {"created", "updated"}
             /\ reply[r].author = Bot
    BY <2>1, <2>3 DEF Answered
  <2> QED
    BY <1>1, <2>1, <2>2, <2>3, Success
<1>2. ASSUME NEW r \in Runs, Shows(r)
      PROVE  /\ Cardinality(OwnedIds) = 1
             /\ \A k \in DOMAIN comments : IsOwned(comments[k]) => comments[k].text = Verdict[r]
  <2>1. PICK k \in DOMAIN comments :
          /\ IsOwned(comments[k]) /\ comments[k].text = Verdict[r]
          /\ \A j \in DOMAIN comments : IsOwned(comments[j]) => j = k
    BY <1>2 DEF Shows
  <2>2. OwnedIds = {comments[k].id}
    BY <2>1 DEF OwnedIds
  <2> QED
    BY <2>1, <2>2, FS_Singleton
<1>3. Inv /\ [Next]_vars =>
        [~setting.deletions /\ OneAtATime =>
           \A r \in Runs :
             outcome[r] = "none" /\ outcome'[r] \in Outcomes \ {"permission_unavailable"} =>
               Cardinality(OwnedIds) = 1
                 /\ \A k \in DOMAIN comments :
                      IsOwned(comments[k]) => comments[k].text = Verdict[r]]_vars
  BY <1>1, <1>2 DEF Succeeds
<1> QED
  BY <1>3, Invariance, PTL DEF Spec, SuccessShown
=============================================================================
