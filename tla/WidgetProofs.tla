----------------------------- MODULE WidgetProofs -----------------------------
(***************************************************************************)
(* Proofs about the comments widget and the handlers it calls, for any     *)
(* number of comments, pages and jobs, any gate, margin and interval, and  *)
(* any plan of the visitor.                                                *)
(***************************************************************************)
EXTENDS Widget, FiniteSetTheorems, TLAPS

USE EngagementAssumption, WidgetAssumption

-----------------------------------------------------------------------------
(* Handlers.                                                               *)

\* What a handler is at each place; n is the last voter minted.
Fit(h, n) ==
  /\ h.op \in {"like", "flag", "reply"} => h.comment \in Comment
  /\ h.pc \in {"look", "admit", "guard"} => h.gives = NoToken
  /\ h.pc = "look" => h.op \in {"like", "flag"}
  /\ h.pc = "guard" => h.op = "like"
  /\ h.pc = "interval" => h.op = "react"
  /\ h.pc = "count" => h.op \in {"like", "react"}
  /\ h.op # "like" => h.token = NoToken /\ h.gives = NoToken
  /\ h.token # NoToken => h.gives = NoToken
  /\ h.op = "like" /\ h.pc \in {"store", "count"} => h.token # NoToken \/ h.gives # NoToken
  /\ h.token <= n /\ h.gives <= n

ServerTyped ==
  /\ EngagementTypeOK
  /\ \A j \in Job : request[j] # None => Fit(request[j], minted)

\* Handler j goes to h, and voters are only added.
Steps(j, h) ==
  /\ request' = [request EXCEPT ![j] = h]
  /\ minted' \in Nat /\ minted <= minted'
  /\ h # None => h \in Handler /\ Fit(h, minted')

LEMMA StepsTyped ==
  ASSUME ServerTyped, NEW j \in Job, NEW h \in Handler \cup {None}, Steps(j, h)
  PROVE  /\ request' \in [Job -> Handler \cup {None}]
         /\ \A i \in Job : request'[i] # None => Fit(request'[i], minted')
<1>1. request' \in [Job -> Handler \cup {None}]
  BY DEF ServerTyped, EngagementTypeOK, Steps
<1>2. ASSUME NEW i \in Job, request'[i] # None PROVE Fit(request'[i], minted')
  <2>1. CASE i = j
    BY <1>2, <2>1 DEF ServerTyped, EngagementTypeOK, Steps
  <2>2. CASE i # j
    <3>1. request'[i] = request[i] /\ request[i] \in Handler /\ Fit(request[i], minted)
      BY <1>2, <2>2 DEF ServerTyped, EngagementTypeOK, Steps
    <3> QED BY <3>1 DEF Fit, Handler, Voter, NoToken, Steps, ServerTyped, EngagementTypeOK
  <2> QED BY <2>1, <2>2
<1> QED BY <1>1, <1>2

LEMMA Served ==
  ASSUME ServerTyped, NEW j \in Job, NEW pc, Serving(j, pc)
  PROVE  request[j] \in Handler /\ request[j] # None /\ Fit(request[j], minted)
         /\ request[j].pc = pc
BY DEF ServerTyped, EngagementTypeOK, Serving

\* An answer keeps what a handler is.
LEMMA AnswerFits ==
  ASSUME NEW h \in Handler, NEW n \in Nat, Fit(h, n), NEW a \in Answer,
         NEW g \in {h.gives, NoToken}
  PROVE  LET k == [h EXCEPT !.pc = "answered", !.answer = a, !.gives = g]
         IN  k \in Handler /\ Fit(k, n)
BY DEF Handler, Fit, NoToken, Voter

\* What a handler was asked for stays with it.
Kept(old, h) ==
  h.op = old.op /\ h.comment = old.comment /\ h.token = old.token /\ h.issued = old.issued

LEMMA BecomesSteps ==
  ASSUME ServerTyped, NEW j \in Job, NEW h \in Handler, Becomes(j, h),
         minted' \in Nat, minted <= minted', Fit(h, minted'), Kept(request[j], h)
  PROVE  \E k \in Handler : Steps(j, k) /\ Kept(request[j], k)
<1>1. Steps(j, h)
  BY DEF Becomes, Steps
<1> QED BY <1>1

LEMMA AnswersSteps ==
  ASSUME ServerTyped, NEW j \in Job, request[j] # None, NEW a \in Answer, Answers(j, a),
         UNCHANGED minted
  PROVE  \E h \in Handler : Steps(j, h) /\ Kept(request[j], h)
<1> DEFINE h == [request[j] EXCEPT !.pc = "answered", !.answer = a,
                                   !.gives = IF a = "ok" THEN @ ELSE NoToken]
<1>1. request[j] \in Handler /\ Fit(request[j], minted) /\ minted \in Nat
  BY DEF ServerTyped, EngagementTypeOK
<1>2. h \in Handler /\ Fit(h, minted)
  <2>1. CASE a = "ok"
    BY <1>1, <2>1, AnswerFits
  <2>2. CASE a # "ok"
    BY <1>1, <2>2, AnswerFits
  <2> QED BY <2>1, <2>2
<1>3. Becomes(j, h)
  BY DEF Answers
<1>4. minted' \in Nat /\ minted <= minted' /\ Fit(h, minted') /\ Kept(request[j], h)
  BY <1>1, <1>2 DEF Kept, Handler
<1> HIDE DEF h
<1> QED BY <1>2, <1>3, <1>4, BecomesSteps

LEMMA StepTypes ==
  ASSUME ServerTyped, NEW j \in Job, HandlerStep(j) \/ ServerFails(j)
  PROVE  \E h \in Handler : Steps(j, h) /\ Kept(request[j], h)
<1>0. minted \in Nat /\ now \in Nat /\ version \in Nat /\ reactions \in Seq(ReactionRow)
  BY DEF ServerTyped, EngagementTypeOK
<1> DEFINE old == request[j]
           Leads(h) == h \in Handler /\ Fit(h, minted) /\ Kept(old, h)
\* At a place of its own, a handler goes to h and no voter is added.
<1>a. ASSUME NEW pc, Serving(j, pc), NEW h,
             old \in Handler /\ Fit(old, minted) /\ old.pc = pc => Leads(h),
             Becomes(j, h), minted' = minted
      PROVE  \E k \in Handler : Steps(j, k) /\ Kept(old, k)
  <2>1. Leads(h)
    BY <1>a, Served
  <2> QED BY <1>a, <1>0, <2>1, BecomesSteps
<1>1. CASE LookUp(j)
  <2>1. ASSUME old \in Handler, Fit(old, minted), old.pc = "look"
        PROVE  Leads([old EXCEPT !.pc = "admit"])
    BY <2>1 DEF Handler, Fit, Kept
  <2>2. CASE Answers(j, "missing")
    BY <1>1, <2>2, AnswersSteps DEF LookUp, Serving, Answer
  <2> QED BY <1>1, <1>a, <2>1, <2>2 DEF LookUp
<1>2. CASE Admit(j)
  <2>1. CASE TooQuick(j)
    BY <1>2, <2>1, AnswersSteps DEF Admit, Serving, Answer
  <2>2. CASE ~TooQuick(j)
    <3> DEFINE h == [old EXCEPT !.pc = AfterGate[old.op], !.at = now \div Second,
                                !.seen = Len(reactions)]
    <3>1. now \div Second \in Nat /\ Len(reactions) \in Nat
      BY <1>0
    <3>2. ASSUME old \in Handler, Fit(old, minted), old.pc = "admit"
          PROVE  Leads(h)
      <4>1. /\ AfterGate[old.op] \in {"guard", "store", "interval"}
            /\ AfterGate[old.op] = "guard" => old.op = "like"
            /\ AfterGate[old.op] = "interval" => old.op = "react"
            /\ AfterGate[old.op] = "store" => old.op # "like"
        BY <3>2 DEF AfterGate, Handler, Post
      <4> DEFINE pc == AfterGate[old.op]  at == now \div Second  seen == Len(reactions)
      <4> HIDE DEF pc, at, seen
      <4>2. [old EXCEPT !.pc = pc, !.at = at, !.seen = seen] \in Handler
        BY <3>1, <3>2, <4>1 DEF Handler, pc, at, seen
      <4>3. Fit([old EXCEPT !.pc = pc, !.at = at, !.seen = seen], minted)
        BY <3>2, <4>1 DEF Handler, Fit, Kept, pc
      <4>4. Kept(old, h)
        BY <3>2 DEF Kept, Handler
      <4> QED BY <4>2, <4>3, <4>4 DEF pc, at, seen
    <3>3. Serving(j, "admit") /\ Becomes(j, h) /\ minted' = minted
      BY <1>2, <2>2 DEF Admit
    <3> HIDE DEF h
    <3> QED BY <3>2, <3>3, <1>a
  <2> QED BY <2>1, <2>2
<1>3. CASE Guard(j)
  <2>1. CASE Answers(j, "again") /\ UNCHANGED minted
    BY <1>3, <2>1, AnswersSteps DEF Guard, Serving, Answer
  <2>2. CASE /\ Becomes(j, [old EXCEPT !.pc = "store"]) /\ UNCHANGED minted
             /\ old.token # NoToken
    <3>1. ASSUME old \in Handler, Fit(old, minted), old.pc = "guard"
          PROVE  Leads([old EXCEPT !.pc = "store"])
      BY <3>1, <2>2 DEF Handler, Fit, Kept
    <3> QED BY <1>3, <2>2, <3>1, <1>a DEF Guard
  <2>3. CASE /\ Becomes(j, [old EXCEPT !.pc = "store", !.gives = minted + 1])
             /\ minted' = minted + 1 /\ old.token = NoToken
    <3> DEFINE h == [old EXCEPT !.pc = "store", !.gives = minted + 1]
    <3>1. old \in Handler /\ Fit(old, minted) /\ old.pc = "guard"
      BY <1>3, Served DEF Guard
    <3>2. h \in Handler
      <4> DEFINE n == minted + 1
      <4>1. n \in Voter
        BY <1>0 DEF Voter
      <4> HIDE DEF n
      <4>2. [old EXCEPT !.pc = "store", !.gives = n] \in Handler
        BY <3>1, <4>1 DEF Handler
      <4> QED BY <4>2 DEF n
    <3>3. Fit(h, minted')
      BY <1>0, <2>3, <3>1, SMTT(30) DEF Fit, Handler, NoToken, Voter
    <3>4. Becomes(j, h) /\ minted' \in Nat /\ minted <= minted'
      BY <1>0, <2>3
    <3>5. Kept(old, h)
      BY <3>1 DEF Kept, Handler
    <3> HIDE DEF h
    <3> QED BY <3>2, <3>3, <3>4, <3>5, BecomesSteps
  <2> QED BY <1>3, <2>1, <2>2, <2>3 DEF Guard
<1>4. CASE Interval(j)
  <2>1. ASSUME old \in Handler, Fit(old, minted), old.pc = "interval"
        PROVE  Leads([old EXCEPT !.pc = "store"])
    BY <2>1 DEF Handler, Fit, Kept
  <2>2. CASE Answers(j, "slow")
    BY <1>4, <2>2, AnswersSteps DEF Interval, Serving, Answer
  <2> QED BY <1>4, <1>a, <2>1, <2>2 DEF Interval
\* What a batch leaves, and its counts, are to be answered.
<1>b. ASSUME old \in Handler, Fit(old, minted), old.pc = "store", old.op \in {"like", "react"}
      PROVE  Leads([old EXCEPT !.pc = "count"])
  BY <1>b DEF Handler, Fit, Kept
<1>5. CASE StoreLike(j)
  <2>1. CASE Answers(j, "error")
    BY <1>5, <2>1, AnswersSteps DEF StoreLike, Serving, Answer
  <2> QED BY <1>5, <1>a, <1>b, <2>1 DEF StoreLike
<1>6. CASE StoreFlag(j)
  BY <1>6, AnswersSteps DEF StoreFlag, Serving, Answer
<1>7. ASSUME NEW approved \in BOOLEAN, StoreComment(j, approved)
      PROVE  \E h \in Handler : Steps(j, h) /\ Kept(old, h)
  <2> DEFINE v == IF approved THEN version + 1 ELSE 0
             h == [old EXCEPT !.pc = "answered", !.answer = "ok", !.stored = v]
  <2>1. v \in Nat
    BY <1>0
  <2>2. Serving(j, "store") /\ Becomes(j, h) /\ minted' = minted
    BY <1>7 DEF StoreComment
  <2> HIDE DEF v
  <2>3. ASSUME old \in Handler, Fit(old, minted), old.pc = "store"
        PROVE  Leads(h)
    BY <2>1, <2>3 DEF Handler, Fit, Kept, Answer
  <2> HIDE DEF h
  <2> QED BY <2>2, <2>3, <1>a
<1>8. CASE StoreReaction(j)
  BY <1>8, <1>a, <1>b DEF StoreReaction
<1>9. CASE Count(j)
  BY <1>9, AnswersSteps DEF Count, Serving, Answer, tables
<1>10. CASE ServerFails(j)
  BY <1>10, AnswersSteps DEF ServerFails, Answer, tables
<1> QED BY <1>1, <1>2, <1>3, <1>4, <1>5, <1>6, <1>7, <1>8, <1>9, <1>10 DEF HandlerStep

\* The tables keep their types, and the list only changes forwards.
LEMMA TablesTyped ==
  ASSUME ServerTyped, NEW j \in Job, HandlerStep(j) \/ ServerFails(j)
  PROVE  /\ now' = now /\ status' = status /\ edits' = edits
         /\ version' \in Nat /\ version <= version'
         /\ flags' \in [Comment -> Nat]
         /\ likes \subseteq likes'
         /\ likes' \subseteq [comment: Comment, voter: 1..minted]
         /\ reactions' \in Seq(ReactionRow)
<1> USE DEF ServerTyped, EngagementTypeOK
<1>1. CASE LookUp(j) \/ Admit(j) \/ Guard(j) \/ Interval(j) \/ Count(j) \/ ServerFails(j)
  BY <1>1 DEF LookUp, Admit, Guard, Interval, Count, ServerFails, tables
<1>2. CASE StoreLike(j)
  <2>1. request[j] \in Handler /\ Fit(request[j], minted) /\ request[j].pc = "store"
    BY <1>2, Served DEF StoreLike
  <2>2. request[j].comment \in Comment /\ VoterOf(request[j]) \in 1..minted
    BY <1>2, <2>1, SMTT(30) DEF StoreLike, Fit, VoterOf, Handler, NoToken, Voter
  <2> QED BY <1>2, <2>2 DEF StoreLike
<1>3. CASE StoreFlag(j)
  <2>1. request[j].comment \in Comment
    BY <1>3, Served DEF StoreFlag, Fit
  <2> QED BY <1>3, <2>1 DEF StoreFlag
<1>4. ASSUME NEW approved \in BOOLEAN, StoreComment(j, approved)
      PROVE  /\ now' = now /\ status' = status /\ edits' = edits
             /\ version' \in Nat /\ version <= version'
             /\ flags' = flags /\ likes' = likes /\ reactions' = reactions
  BY <1>4 DEF StoreComment
<1>5. CASE StoreReaction(j)
  <2>1. request[j] \in Handler
    BY <1>5, Served DEF StoreReaction
  <2>2. [at |-> request[j].at, seen |-> request[j].seen] \in ReactionRow
    BY <2>1 DEF Handler, ReactionRow
  <2> QED BY <1>5, <2>2 DEF StoreReaction
<1> QED BY <1>1, <1>2, <1>3, <1>4, <1>5 DEF HandlerStep

\* A step of a handler keeps the types of the server.
LEMMA HandlerTyped ==
  ASSUME ServerTyped, NEW j \in Job, HandlerStep(j) \/ ServerFails(j)
  PROVE  ServerTyped' /\ minted <= minted'
<1>1. PICK h \in Handler : Steps(j, h)
  BY StepTypes
<1>2. /\ request' \in [Job -> Handler \cup {None}]
      /\ \A i \in Job : request'[i] # None => Fit(request'[i], minted')
      /\ minted' \in Nat /\ minted <= minted'
  BY <1>1, StepsTyped DEF Steps
<1>3. /\ now' \in Nat /\ status' = status /\ edits' = edits /\ version' \in Nat
      /\ flags' \in [Comment -> Nat] /\ reactions' \in Seq(ReactionRow)
      /\ likes' \subseteq [comment: Comment, voter: 1..minted]
  BY TablesTyped DEF ServerTyped, EngagementTypeOK
<1>4. likes' \subseteq [comment: Comment, voter: 1..minted']
  <2>1. 1..minted \subseteq 1..minted'
    BY <1>2 DEF ServerTyped, EngagementTypeOK
  <2> QED BY <1>3, <2>1
<1> QED BY <1>2, <1>3, <1>4 DEF ServerTyped, EngagementTypeOK

-----------------------------------------------------------------------------
(* Jobs.                                                                   *)

JobFit(b) ==
  /\ b.op \in {"like", "flag", "reply"} => b.comment \in Comment
  /\ b.op \in {"post", "react", "load"} => b.comment = None
  /\ b.op = "load" => b.pc \in {"list", "voted", "render"}
  /\ b.pc \in {"list", "voted", "render"} => b.op \in {"load", "post", "reply"}
  /\ b.pc = "wait" => Waits(b.op)

\* A job b that has posted waits for the handler h in its slot; before and after
\* that the slot is free.
Link(b, h) ==
  b # None =>
    /\ JobFit(b)
    /\ b.pc = "sent" => h # None /\ h.op = b.op /\ h.comment = b.comment /\ h.issued = b.issued
    /\ b.pc # "sent" => h = None

\* No page knows a voter that was not minted.
Known ==
  /\ kept \in 0..minted
  /\ \A p \in Page : page[p].token \in 0..minted

Typed ==
  /\ WidgetTypeOK
  /\ ServerTyped
  /\ Known
  /\ \A j \in Job : Link(job[j], request[j])

LEMMA TypedFacts ==
  ASSUME Typed
  PROVE  /\ now \in Nat /\ version \in Nat /\ minted \in Nat
         /\ status \in [Comment -> {"approved", "pending", "gone"}]
         /\ request \in [Job -> Handler \cup {None}]
         /\ \A j \in Job : request[j] # None => request[j] \in Handler /\ Fit(request[j], minted)
         /\ plan \in Plan /\ kept \in Token
         /\ page \in [Page -> PageView]
         /\ \A p \in Page : page[p] \in PageView
         /\ job \in [Job -> PendingJob \cup {None}]
         /\ \A j \in Job : job[j] # None => job[j] \in PendingJob
         /\ clicks \in 0..plan.clicks /\ liked \in SUBSET Comment /\ excuse \in SUBSET Reason
         /\ \A j \in Job : Link(job[j], request[j])
<1>1. WidgetTypeOK /\ ServerTyped /\ EngagementTypeOK /\ \A j \in Job : Link(job[j], request[j])
  BY DEF Typed, ServerTyped
<1> QED BY <1>1 DEF WidgetTypeOK, EngagementTypeOK, ServerTyped

\* What remains to be shown when only the pages and their jobs change.
LEMMA PagesTyped ==
  ASSUME Typed, UNCHANGED <<server, plan>>,
         kept' \in 0..minted,
         page' \in [Page -> PageView], \A p \in Page : page'[p].token \in 0..minted,
         job' \in [Job -> PendingJob \cup {None}],
         clicks' \in 0..plan.clicks, liked' \in SUBSET Comment, excuse' \in SUBSET Reason,
         \A j \in Job : Link(job'[j], request[j])
  PROVE  Typed'
<1>1. ServerTyped'
  BY DEF Typed, ServerTyped, EngagementTypeOK, server, Serving
<1>2. minted' = minted /\ request' = request /\ plan' = plan /\ plan \in Plans
  BY DEF server, Typed, WidgetTypeOK
<1>3. kept' \in Token
  BY TypedFacts DEF Token, Voter, NoToken
<1>4. WidgetTypeOK'
  BY <1>1, <1>2, <1>3 DEF WidgetTypeOK, ServerTyped
<1>5. Known' /\ \A j \in Job : Link(job'[j], request'[j])
  BY <1>2 DEF Known
<1> QED BY <1>1, <1>4, <1>5 DEF Typed

\* The same when a slot is filled or emptied.
LEMMA SlotTyped ==
  ASSUME Typed, UNCHANGED <<now, tables, minted, plan>>,
         NEW j \in Job, NEW h \in Handler \cup {None}, request' = [request EXCEPT ![j] = h],
         h # None => Fit(h, minted),
         kept' \in 0..minted,
         page' \in [Page -> PageView], \A p \in Page : page'[p].token \in 0..minted,
         NEW b \in PendingJob \cup {None}, job' = [job EXCEPT ![j] = b], Link(b, h),
         clicks' \in 0..plan.clicks, liked' \in SUBSET Comment, excuse' \in SUBSET Reason
  PROVE  Typed'
<1>1. Steps(j, h)
  BY TypedFacts DEF Steps
<1>2. /\ request' \in [Job -> Handler \cup {None}]
      /\ \A i \in Job : request'[i] # None => Fit(request'[i], minted')
  BY <1>1, StepsTyped DEF Typed
<1>3. ServerTyped'
  BY <1>2 DEF Typed, ServerTyped, EngagementTypeOK, tables
<1>4. job' \in [Job -> PendingJob \cup {None}]
  BY TypedFacts
<1>5. ASSUME NEW i \in Job PROVE Link(job'[i], request'[i])
  <2>1. CASE i = j
    BY <2>1, TypedFacts
  <2>2. CASE i # j
    BY <2>2, TypedFacts
  <2> QED BY <2>1, <2>2
<1>6. minted' = minted /\ plan' = plan /\ plan \in Plans
  BY DEF Typed, WidgetTypeOK
<1>7. kept' \in Token
  BY TypedFacts DEF Token, Voter, NoToken
<1>8. WidgetTypeOK'
  BY <1>3, <1>4, <1>6, <1>7 DEF WidgetTypeOK, ServerTyped
<1> QED BY <1>3, <1>5, <1>6, <1>8 DEF Typed, Known

\* A job that has lost its button.
Detached(b) == [b EXCEPT !.attached = FALSE]

LEMMA DetachedTyped ==
  ASSUME NEW b \in PendingJob
  PROVE  /\ Detached(b) \in PendingJob
         /\ \A h : Link(b, h) => Link(Detached(b), h)
<1>1. Detached(b) \in PendingJob
  BY DEF PendingJob, Detached
<1>2. /\ Detached(b).op = b.op /\ Detached(b).comment = b.comment /\ Detached(b).pc = b.pc
      /\ Detached(b).issued = b.issued
  BY DEF PendingJob, Detached
<1>3. Detached(b) # None /\ b # None
  BY <1>1
<1> HIDE DEF Detached
<1> QED BY <1>1, <1>2, <1>3 DEF Link, JobFit

\* Some jobs are dropped, some lose their buttons, and j goes to b.
Rearranged(j, b) ==
  \A i \in Job :
    IF i = j THEN job'[i] = b
    ELSE \/ job'[i] = job[i] \/ job'[i] = None
         \/ job[i] # None /\ job'[i] = Detached(job[i])

LEMMA RearrangedTyped ==
  ASSUME Typed, NEW j \in Job, NEW b \in PendingJob \cup {None}, Link(b, request[j]),
         job' = [i \in Job |-> job'[i]], Rearranged(j, b)
  PROVE  /\ job' \in [Job -> PendingJob \cup {None}]
         /\ \A i \in Job : Link(job'[i], request[i])
<1>1. ASSUME NEW i \in Job PROVE job'[i] \in PendingJob \cup {None} /\ Link(job'[i], request[i])
  <2>1. CASE i = j
    BY <2>1 DEF Rearranged
  <2>2. CASE i # j
    <3>1. job[i] \in PendingJob \cup {None} /\ Link(job[i], request[i])
      BY TypedFacts
    <3>2. CASE job'[i] = job[i] \/ job'[i] = None
      BY <3>1, <3>2 DEF Link
    <3>3. CASE job[i] # None /\ job'[i] = Detached(job[i])
      BY <3>1, <3>3, DetachedTyped
    <3> QED BY <2>2, <3>2, <3>3 DEF Rearranged
  <2> QED BY <2>1, <2>2
<1> QED BY <1>1

\* One page changes, and still knows no voter that was not minted.
LEMMA PageTyped ==
  ASSUME Typed, NEW p \in Page, NEW v \in PageView, v.token \in 0..minted,
         page' = [page EXCEPT ![p] = v]
  PROVE  page' \in [Page -> PageView] /\ \A q \in Page : page'[q].token \in 0..minted
<1>1. page \in [Page -> PageView] /\ \A q \in Page : page[q].token \in 0..minted
  BY TypedFacts DEF Typed, Known
<1>2. ASSUME NEW q \in Page PROVE page'[q] \in PageView /\ page'[q].token \in 0..minted
  BY <1>1
<1> QED BY <1>1, <1>2

\* Its buttons change.
LEMMA ButtonsTyped ==
  ASSUME Typed, NEW p \in Page, NEW d \in SUBSET Control,
         page' = [page EXCEPT ![p].disabled = d]
  PROVE  page' \in [Page -> PageView] /\ \A q \in Page : page'[q].token \in 0..minted
<1> DEFINE v == [page[p] EXCEPT !.disabled = d]
<1>1. page[p] \in PageView /\ page \in [Page -> PageView] /\ page[p].token \in 0..minted
  BY TypedFacts DEF Typed, Known
<1>2. v \in PageView /\ v.token = page[p].token
  BY <1>1 DEF PageView
<1>3. page' = [page EXCEPT ![p] = v]
  BY <1>1
<1> HIDE DEF v
<1> QED BY <1>1, <1>2, <1>3, PageTyped

LEMMA EnabledTyped ==
  ASSUME Typed, NEW b \in PendingJob, NEW ok
  PROVE  Enabled(b, ok) \in SUBSET Control
<1>1. b.page \in Page
  BY DEF PendingJob
<1>2. page[b.page].disabled \in SUBSET Control
  BY <1>1, TypedFacts DEF PageView
<1> QED BY <1>2 DEF Enabled

LEMMA LoadsTyped ==
  ASSUME Typed, NEW p \in Page, NEW op \in Post \cup {"load"}, NEW c \in Comment \cup {None},
         NEW expected \in Nat
  PROVE  /\ Loads(p, op, c, expected) \in PendingJob
         /\ Loads(p, op, c, expected).op = op /\ Loads(p, op, c, expected).comment = c
         /\ Loads(p, op, c, expected).pc = "list" /\ Loads(p, op, c, expected).issued = 0
         /\ Loads(p, op, c, expected).page = p /\ Loads(p, op, c, expected).attached
         /\ Loads(p, op, c, expected).token = page[p].token
         /\ Loads(p, op, c, expected).liked = liked
<1> DEFINE since == IF expected > page[p].version THEN expected ELSE page[p].version
           token == page[p].token
<1>1. since \in Nat /\ token \in Token /\ liked \in SUBSET Comment
  BY TypedFacts DEF PageView
<1>2. Loads(p, op, c, expected) =
        [op |-> op, page |-> p, comment |-> c, pc |-> "list", t0 |-> 0, issued |-> 0,
         attached |-> TRUE, token |-> token, version |-> 0, shown |-> {}, voted |-> {},
         since |-> since, liked |-> liked]
  BY DEF Loads
<1> HIDE DEF since, token
<1>3. Loads(p, op, c, expected) \in PendingJob
  BY <1>1, <1>2 DEF PendingJob
<1> QED BY <1>2, <1>3 DEF token

LEMMA LoadsAnew ==
  ASSUME Typed, NEW p \in Page, NEW op \in Post \cup {"load"}, NEW c \in Comment \cup {None}
  PROVE  /\ Loads(p, op, c, 0) \in PendingJob
         /\ Loads(p, op, c, 0).op = op /\ Loads(p, op, c, 0).comment = c
         /\ Loads(p, op, c, 0).pc = "list" /\ Loads(p, op, c, 0).issued = 0
         /\ Loads(p, op, c, 0).page = p /\ Loads(p, op, c, 0).attached
         /\ Loads(p, op, c, 0).token = page[p].token
         /\ Loads(p, op, c, 0).liked = liked
<1>1. 0 \in Nat
  OBVIOUS
<1> QED BY <1>1, LoadsTyped

\* A slot without a job or with one that has not posted has no handler.
LEMMA FreeSlot ==
  ASSUME Typed, NEW j \in Job, job[j] # None, job[j].pc # "sent"
  PROVE  request[j] = None
BY TypedFacts DEF Link

-----------------------------------------------------------------------------
(* Types: the visitor.                                                     *)

LEMMA ActsTyped ==
  ASSUME Typed, NEW j \in Job, NEW op \in Ops, Acts(j, op), plan' = plan
  PROVE  clicks' \in 0..plan.clicks /\ job[j] = None /\ request[j] = None
BY TypedFacts DEF Acts, Plan

LEMMA ClickTyped ==
  ASSUME Typed, NEW j \in Job, NEW p \in Page, NEW op \in Post, NEW c \in Comment \cup {None},
         Click(j, p, op, c)
  PROVE  Typed'
<1> DEFINE b == [Loads(p, op, c, 0) EXCEPT !.pc = "ask", !.t0 = now]
           d == page[p].disabled \cup {[op |-> op, comment |-> c]}
<1>1. clicks' \in 0..plan.clicks /\ job[j] = None /\ request[j] = None
  BY ActsTyped DEF Click, Post, Ops
<1>2. /\ Loads(p, op, c, 0) \in PendingJob /\ Loads(p, op, c, 0).op = op
      /\ Loads(p, op, c, 0).comment = c
  BY LoadsAnew
<1>3. /\ b \in PendingJob /\ b.pc = "ask" /\ b.op = op /\ b.comment = c
  BY <1>2, TypedFacts DEF PendingJob
<1>4. Link(b, None)
  <2>1. op \in {"like", "flag", "reply"} => c \in Comment
    BY TypedFacts DEF Click, Offered, PageView
  <2>2. op \in {"post", "react"} => c = None
    BY DEF Click, Offered
  <2> HIDE DEF b
  <2> QED BY <1>3, <2>1, <2>2 DEF Link, JobFit, Post
<1>5. d \in SUBSET Control
  BY TypedFacts DEF PageView, Control
<1>6. page' \in [Page -> PageView] /\ \A q \in Page : page'[q].token \in 0..minted
  <2>1. page' = [page EXCEPT ![p].disabled = d]
    BY DEF Click
  <2> HIDE DEF d
  <2> QED BY <1>5, <2>1, ButtonsTyped
<1>7. job' = [job EXCEPT ![j] = b] /\ UNCHANGED <<server, plan, kept, liked, excuse>>
  BY DEF Click, Turns
<1> HIDE DEF b
<1>8. /\ job' \in [Job -> PendingJob \cup {None}]
      /\ \A i \in Job : Link(job'[i], request[i])
  BY <1>1, <1>3, <1>4, <1>7, TypedFacts
<1> QED BY <1>1, <1>6, <1>7, <1>8, PagesTyped, TypedFacts DEF Typed, Known

LEMMA OpenTyped ==
  ASSUME Typed, NEW j \in Job, NEW p \in Page, Open(j, p)
  PROVE  Typed'
<1> DEFINE b == [Loads(p, "load", None, 0) EXCEPT !.token = kept, !.since = 0]
<1>1. clicks' \in 0..plan.clicks /\ job[j] = None /\ request[j] = None
  BY ActsTyped DEF Open, Ops
<1>2. b \in PendingJob /\ b.op = "load" /\ b.pc = "list" /\ b.comment = None
  <2>1. /\ Loads(p, "load", None, 0) \in PendingJob /\ Loads(p, "load", None, 0).op = "load"
        /\ Loads(p, "load", None, 0).comment = None /\ Loads(p, "load", None, 0).pc = "list"
    BY LoadsAnew
  <2> QED BY <2>1, TypedFacts DEF PendingJob
<1>3. Link(b, None)
  <2> HIDE DEF b
  <2> QED BY <1>2 DEF Link, JobFit
<1>4. job' = [i \in Job |->
               IF i = j THEN b
               ELSE IF job[i] # None /\ job[i].page = p THEN None ELSE job[i]]
  BY DEF Open
<1> HIDE DEF b
<1>5. Rearranged(j, b)
  BY <1>4 DEF Rearranged
<1>6. /\ job' \in [Job -> PendingJob \cup {None}]
      /\ \A i \in Job : Link(job'[i], request[i])
  BY <1>1, <1>2, <1>3, <1>4, <1>5, RearrangedTyped
<1>7. Fresh(kept) \in PageView /\ Fresh(kept).token = kept
  BY TypedFacts DEF Fresh, PageView
<1>8. page' \in [Page -> PageView] /\ \A q \in Page : page'[q].token \in 0..minted
  BY <1>7, PageTyped DEF Open, Typed, Known
<1>9. UNCHANGED <<server, plan, kept, liked>> /\ excuse' \in SUBSET Reason
  BY TypedFacts DEF Open, Reason
<1> QED BY <1>1, <1>6, <1>8, <1>9, PagesTyped, TypedFacts DEF Typed, Known

LEMMA SortTyped ==
  ASSUME Typed, NEW j \in Job, NEW p \in Page, Sort(j, p)
  PROVE  Typed'
<1> DEFINE b == Loads(p, "load", None, 0)
<1>1. clicks' \in 0..plan.clicks /\ job[j] = None /\ request[j] = None
  BY ActsTyped DEF Sort, Ops
<1>2. b \in PendingJob /\ b.op = "load" /\ b.pc = "list" /\ b.comment = None
  BY LoadsAnew
<1>3. job' = [job EXCEPT ![j] = b] /\ UNCHANGED <<server, plan, kept, page, liked, excuse>>
  BY DEF Sort, Turns
<1> HIDE DEF b
<1>4. Link(b, None)
  BY <1>2 DEF Link, JobFit
<1>5. /\ job' \in [Job -> PendingJob \cup {None}]
      /\ \A i \in Job : Link(job'[i], request[i])
  BY <1>1, <1>2, <1>3, <1>4, TypedFacts
<1> QED BY <1>1, <1>3, <1>5, PagesTyped, TypedFacts DEF Typed, Known

LEMMA CloseReplyTyped ==
  ASSUME Typed, NEW p \in Page, NEW c \in Comment, CloseReply(p, c)
  PROVE  Typed'
<1> DEFINE k == [op |-> "reply", comment |-> c]
<1>1. page' = [page EXCEPT ![p].disabled = @ \ {k}]
  BY DEF CloseReply
<1>2. page' \in [Page -> PageView] /\ \A q \in Page : page'[q].token \in 0..minted
  <2> DEFINE d == page[p].disabled \ {k}
  <2>1. d \in SUBSET Control
    BY TypedFacts DEF PageView
  <2>2. page' = [page EXCEPT ![p].disabled = d]
    BY <1>1
  <2> HIDE DEF d
  <2> QED BY <2>1, <2>2, ButtonsTyped
<1>3. job' = [i \in Job |-> IF job[i] # None /\ job[i].page = p /\ ControlOf(job[i]) = k
                           THEN Detached(job[i]) ELSE job[i]]
  BY DEF CloseReply, Detached
<1>4. ASSUME NEW i \in Job
      PROVE  job'[i] \in PendingJob \cup {None} /\ Link(job'[i], request[i])
  <2>1. job[i] \in PendingJob \cup {None} /\ Link(job[i], request[i])
    BY TypedFacts
  <2>2. CASE job[i] # None /\ job'[i] = Detached(job[i])
    BY <2>1, <2>2, DetachedTyped
  <2> QED BY <1>3, <2>1, <2>2
<1>5. job' \in [Job -> PendingJob \cup {None}]
  BY <1>3, <1>4
<1>6. UNCHANGED <<server, plan, kept, clicks, liked, excuse>>
  BY DEF CloseReply
<1> QED BY <1>2, <1>4, <1>5, <1>6, PagesTyped, TypedFacts DEF Typed, Known

-----------------------------------------------------------------------------
(* Types: challenge, work, wait, post.                                     *)

\* A job goes on, its page and its slot as they were.
LEMMA TurnTyped ==
  ASSUME Typed, NEW j \in Job, NEW b \in PendingJob \cup {None}, Turns(j, b),
         Link(b, request[j]),
         UNCHANGED <<server, plan, kept, page, clicks, liked, excuse>>
  PROVE  Typed'
<1>1. job' = [job EXCEPT ![j] = b]
  BY DEF Turns
<1>2. /\ job' \in [Job -> PendingJob \cup {None}]
      /\ \A i \in Job : Link(job'[i], request[i])
  BY <1>1, TypedFacts
<1> QED BY <1>2, PagesTyped, TypedFacts DEF Typed, Known

LEMMA AtFacts ==
  ASSUME Typed, NEW j \in Job, NEW pc, At(j, pc)
  PROVE  /\ job[j] # None /\ job[j] \in PendingJob /\ job[j].pc = pc
         /\ job[j].page \in Page /\ page[job[j].page] \in PageView
         /\ JobFit(job[j]) /\ Link(job[j], request[j])
<1>1. job[j] # None /\ job[j] \in PendingJob /\ job[j].pc = pc /\ Link(job[j], request[j])
  BY TypedFacts DEF At
<1>2. job[j].page \in Page
  BY <1>1 DEF PendingJob
<1> QED BY <1>1, <1>2, TypedFacts DEF Link

LEMMA IssueTyped ==
  ASSUME Typed, NEW j \in Job, Issue(j)
  PROVE  Typed'
<1> DEFINE t == now \div Second
           b == [job[j] EXCEPT !.pc = "solve", !.issued = t]
<1>1. /\ job[j] \in PendingJob /\ job[j].pc = "ask" /\ JobFit(job[j]) /\ request[j] = None
  BY AtFacts DEF Issue, Link
<1>2. t \in Nat
  BY TypedFacts
<1>3. Turns(j, b) /\ UNCHANGED <<server, plan, kept, page, clicks, liked, excuse>>
  BY DEF Issue
<1> HIDE DEF t
<1>4. b \in PendingJob /\ b.pc = "solve" /\ b.op = job[j].op /\ b.comment = job[j].comment
  BY <1>1, <1>2 DEF PendingJob
<1> HIDE DEF b
<1>5. Link(b, request[j])
  BY <1>1, <1>4 DEF Link, JobFit
<1> QED BY <1>3, <1>4, <1>5, TurnTyped

\* What is sent fits, and knows the token of its page.
LEMMA SendFits ==
  ASSUME Typed, NEW j \in Job, job[j] # None, job[j].pc \in {"solve", "wait"}
  PROVE  LET b == job[j]
             h == NewHandler(b.op, b.comment,
                             IF b.op = "like" THEN page[b.page].token ELSE NoToken, b.issued)
         IN  /\ h \in Handler /\ Fit(h, minted)
             /\ h.op = b.op /\ h.comment = b.comment /\ h.issued = b.issued
             /\ h.pc \in {"look", "admit"} /\ h.gives = NoToken
             /\ h.token = (IF b.op = "like" THEN page[b.page].token ELSE NoToken)
             /\ h.answer = "" /\ h.at = 0 /\ h.seen = 0 /\ h.stored = 0
<1> DEFINE b == job[j]
           t == IF b.op = "like" THEN page[b.page].token ELSE NoToken
           h == NewHandler(b.op, b.comment, t, b.issued)
           pc == IF b.op \in {"like", "flag"} THEN "look" ELSE "admit"
<1>1. b \in PendingJob /\ JobFit(b) /\ b.page \in Page /\ b.op \in Post
      /\ b.comment \in Comment \cup {None} /\ b.issued \in Nat
  <2>1. b \in PendingJob /\ JobFit(b)
    BY TypedFacts DEF Link
  <2> QED BY <2>1 DEF PendingJob, JobFit
<1>2. t \in Voter \cup {NoToken} /\ t \in 0..minted /\ (b.op # "like" => t = NoToken)
  BY <1>1, TypedFacts DEF Typed, Known, NoToken, PageView, Token
<1>3. h = [op |-> b.op, pc |-> pc, comment |-> b.comment, token |-> t, gives |-> NoToken,
           issued |-> b.issued, at |-> 0, seen |-> 0, answer |-> "", stored |-> 0]
  BY DEF NewHandler
<1>4. pc \in {"look", "admit"} /\ (pc = "look" => b.op \in {"like", "flag"})
  OBVIOUS
<1> HIDE DEF t, pc, h
<1>5. h \in Handler
  BY <1>1, <1>2, <1>3, <1>4 DEF Handler, Answer
<1>6. h.token = t
  BY <1>3
<1>7. /\ h.op = b.op /\ h.comment = b.comment /\ h.issued = b.issued
      /\ h.pc = pc /\ h.gives = NoToken
      /\ h.answer = "" /\ h.at = 0 /\ h.seen = 0 /\ h.stored = 0
  BY <1>3
<1>8. Fit(h, minted)
  <2>1. minted \in Nat
    BY TypedFacts
  <2>2. t <= minted /\ 0 <= minted
    BY <1>2, <2>1
  <2> QED BY <1>1, <1>2, <1>4, <1>6, <1>7, <2>2 DEF Fit, JobFit, NoToken
<1> QED BY <1>4, <1>5, <1>6, <1>7, <1>8 DEF h, t

LEMMA SendTyped ==
  ASSUME Typed, NEW j \in Job, job[j] # None, job[j].pc \in {"solve", "wait"}, Send(j)
  PROVE  Typed'
<1> DEFINE h == NewHandler(job[j].op, job[j].comment,
                  IF job[j].op = "like" THEN page[job[j].page].token ELSE NoToken, job[j].issued)
           b == [job[j] EXCEPT !.pc = "sent"]
<1>1. h \in Handler /\ Fit(h, minted) /\ h.op = job[j].op /\ h.comment = job[j].comment
      /\ h.issued = job[j].issued
  BY SendFits
<1>2. job[j] \in PendingJob /\ JobFit(job[j])
  BY TypedFacts DEF Link
<1>3. /\ b \in PendingJob /\ b.pc = "sent" /\ b.op = job[j].op /\ b.comment = job[j].comment
      /\ b.issued = job[j].issued
  BY <1>2 DEF PendingJob
<1>4. request' = [request EXCEPT ![j] = h] /\ job' = [job EXCEPT ![j] = b]
  BY DEF Send, Turns
<1>5. excuse' \in SUBSET Reason
  BY TypedFacts DEF Send, Excuses, Reason
<1>6. UNCHANGED <<now, tables, minted, plan, kept, page, clicks, liked>>
  BY DEF Send
<1> HIDE DEF b, h
<1>7. Link(b, h)
  BY <1>1, <1>2, <1>3, <1>4 DEF Link, JobFit
<1> QED BY <1>1, <1>3, <1>4, <1>5, <1>6, <1>7, SlotTyped, TypedFacts DEF Typed, Known

LEMMA SolvedTyped ==
  ASSUME Typed, NEW j \in Job, Solved(j)
  PROVE  Typed'
<1>1. /\ job[j] # None /\ job[j] \in PendingJob /\ job[j].pc = "solve" /\ JobFit(job[j])
      /\ request[j] = None
  BY AtFacts DEF Solved, Link
<1>2. CASE Waits(job[j].op)
  <2> DEFINE b == [job[j] EXCEPT !.pc = "wait"]
  <2>1. b \in PendingJob /\ b.pc = "wait" /\ b.op = job[j].op /\ b.comment = job[j].comment
    BY <1>1 DEF PendingJob
  <2>2. Turns(j, b) /\ UNCHANGED <<server, plan, kept, page, clicks, liked, excuse>>
    BY <1>2 DEF Solved
  <2> HIDE DEF b
  <2>3. Link(b, request[j])
    BY <1>1, <1>2, <2>1 DEF Link, JobFit, Waits
  <2> QED BY <2>1, <2>2, <2>3, TurnTyped
<1>3. CASE ~Waits(job[j].op)
  BY <1>1, <1>3, SendTyped DEF Solved
<1> QED BY <1>2, <1>3

LEMMA GateOverTyped ==
  ASSUME Typed, NEW j \in Job, GateOver(j)
  PROVE  Typed'
BY SendTyped DEF GateOver, At

-----------------------------------------------------------------------------
(* Types: answers.                                                         *)

LEMMA SentFacts ==
  ASSUME Typed, NEW j \in Job, At(j, "sent")
  PROVE  /\ job[j] # None /\ job[j] \in PendingJob /\ JobFit(job[j]) /\ job[j].page \in Page
         /\ request[j] \in Handler /\ Fit(request[j], minted)
         /\ request[j].op = job[j].op /\ request[j].comment = job[j].comment
         /\ request[j].issued = job[j].issued
<1>1. request[j] # None
  BY AtFacts DEF Link
<1> QED BY <1>1, AtFacts, TypedFacts DEF Link

LEMMA LikeAnsweredTyped ==
  ASSUME Typed, NEW j \in Job, LikeAnswered(j)
  PROVE  Typed'
<1> DEFINE b == job[j]  h == request[j]
           shows == h.answer \in {"ok", "again"} /\ b.attached
           d == Enabled(b, h.answer = "ok")
<1>1. /\ b # None /\ b \in PendingJob /\ JobFit(b) /\ b.page \in Page
      /\ h \in Handler /\ Fit(h, minted) /\ b.op = "like"
  BY SentFacts DEF LikeAnswered
<1>2. b.comment \in Comment /\ h.gives \in Token /\ h.gives \in 0..minted
  BY <1>1, TypedFacts DEF JobFit, Handler, Token, Fit, NoToken, Voter
<1>3. d \in SUBSET Control
  BY <1>1, EnabledTyped
<1>4. ASSUME NEW p \in Page
      PROVE  page'[p] \in PageView /\ page'[p].token \in 0..minted
  <2>1. page[p] \in PageView /\ page[p].token \in 0..minted
    BY TypedFacts DEF Typed, Known
  <2>2. CASE p = b.page
    <3> DEFINE tok == Learns(h.gives, page[p].token)
               vot == IF shows THEN page[p].voted \cup {b.comment} ELSE page[p].voted
    <3>1. tok \in Token /\ tok \in 0..minted
      BY <1>2, <2>1 DEF Learns, PageView
    <3>2. vot \in SUBSET Comment
      BY <1>2, <2>1 DEF PageView
    <3>3. page'[p] = [page[p] EXCEPT !.token = tok, !.voted = vot, !.disabled = d]
      BY <2>2 DEF LikeAnswered
    <3> HIDE DEF tok, vot, d
    <3> QED BY <1>3, <2>1, <3>1, <3>2, <3>3 DEF PageView
  <2>3. CASE p # b.page
    <3>1. page'[p] = [page[p] EXCEPT !.behind = @ \/ h.gives # NoToken]
      BY <2>3 DEF LikeAnswered
    <3> QED BY <2>1, <3>1 DEF PageView
  <2> QED BY <2>2, <2>3
<1>5. page' \in [Page -> PageView]
  <2>1. page' = [p \in Page |-> page'[p]]
    BY DEF LikeAnswered
  <2> QED BY <1>4, <2>1
<1>6. kept' \in 0..minted /\ liked' \in SUBSET Comment
  BY <1>1, <1>2, TypedFacts DEF LikeAnswered, Typed, Known
<1>7. /\ request' = [request EXCEPT ![j] = None] /\ job' = [job EXCEPT ![j] = None]
      /\ UNCHANGED <<now, tables, minted, plan, clicks, excuse>>
  BY DEF LikeAnswered, Clears, Turns
<1>8. Link(None, None)
  BY DEF Link
<1> QED BY <1>4, <1>5, <1>6, <1>7, <1>8, SlotTyped, TypedFacts

\* An answer that only gives a button back, and may mark a report.
LEMMA ButtonBack ==
  ASSUME Typed, NEW j \in Job, NEW v \in PageView, NEW p \in Page, v.token = page[p].token,
         page' = [page EXCEPT ![p] = v],
         Turns(j, None), Clears(j),
         UNCHANGED <<now, tables, minted, plan, kept, clicks, liked, excuse>>
  PROVE  Typed'
<1>1. page' \in [Page -> PageView] /\ \A q \in Page : page'[q].token \in 0..minted
  BY PageTyped DEF Typed, Known
<1>2. request' = [request EXCEPT ![j] = None] /\ job' = [job EXCEPT ![j] = None]
  BY DEF Clears, Turns
<1>3. Link(None, None)
  BY DEF Link
<1> QED BY <1>1, <1>2, <1>3, SlotTyped, TypedFacts DEF Typed, Known

LEMMA FlagAnsweredTyped ==
  ASSUME Typed, NEW j \in Job, FlagAnswered(j)
  PROVE  Typed'
<1> DEFINE b == job[j]  p == b.page  ok == request[j].answer = "ok"
           d == Enabled(b, ok)
           f == IF ok /\ b.attached THEN page[p].flagged \cup {b.comment} ELSE page[p].flagged
           v == [page[p] EXCEPT !.disabled = d, !.flagged = f]
<1>1. b \in PendingJob /\ b.comment \in Comment /\ p \in Page /\ page[p] \in PageView
  BY SentFacts, TypedFacts DEF FlagAnswered, JobFit
<1>2. d \in SUBSET Control
  BY <1>1, EnabledTyped
<1>3. f \in SUBSET Comment
  BY <1>1 DEF PageView
<1>4. page' = [page EXCEPT ![p] = v]
  BY <1>1, TypedFacts DEF FlagAnswered
<1>5. /\ Turns(j, None) /\ Clears(j)
      /\ UNCHANGED <<now, tables, minted, plan, kept, clicks, liked, excuse>>
  BY DEF FlagAnswered
<1> HIDE DEF d, f
<1>6. v \in PageView /\ v.token = page[p].token
  BY <1>1, <1>2, <1>3 DEF PageView
<1> HIDE DEF v
<1> QED BY <1>1, <1>4, <1>5, <1>6, ButtonBack

\* Just the button.
LEMMA OnlyButton ==
  ASSUME Typed, NEW p \in Page, NEW d \in SUBSET Control
  PROVE  /\ [page[p] EXCEPT !.disabled = d] \in PageView
         /\ [page[p] EXCEPT !.disabled = d].token = page[p].token
         /\ [page EXCEPT ![p].disabled = d] = [page EXCEPT ![p] = [page[p] EXCEPT !.disabled = d]]
<1>1. page \in [Page -> PageView] /\ page[p] \in PageView
  BY TypedFacts
<1> QED BY <1>1 DEF PageView

LEMMA ReactionAnsweredTyped ==
  ASSUME Typed, NEW j \in Job, ReactionAnswered(j)
  PROVE  Typed'
<1> DEFINE b == job[j]  p == b.page  d == Enabled(b, request[j].answer = "ok")
           v == [page[p] EXCEPT !.disabled = d]
<1>1. b \in PendingJob /\ p \in Page
  BY SentFacts DEF ReactionAnswered
<1>2. d \in SUBSET Control
  BY <1>1, EnabledTyped
<1>3. page' = [page EXCEPT ![p].disabled = d]
  BY DEF ReactionAnswered
<1> HIDE DEF d
<1>4. v \in PageView /\ v.token = page[p].token /\ page' = [page EXCEPT ![p] = v]
  BY <1>1, <1>2, <1>3, OnlyButton
<1>5. /\ Turns(j, None) /\ Clears(j)
      /\ UNCHANGED <<now, tables, minted, plan, kept, clicks, liked, excuse>>
  BY DEF ReactionAnswered
<1> HIDE DEF v
<1> QED BY <1>1, <1>4, <1>5, ButtonBack

LEMMA CommentAnsweredTyped ==
  ASSUME Typed, NEW j \in Job, CommentAnswered(j)
  PROVE  Typed'
<1> DEFINE b == job[j]  p == b.page
<1>1. /\ b \in PendingJob /\ JobFit(b) /\ p \in Page /\ b.comment \in Comment \cup {None}
      /\ b.attached \in BOOLEAN /\ request[j] \in Handler /\ b.op \in {"post", "reply"}
  BY SentFacts DEF CommentAnswered, PendingJob
<1>2. CASE request[j].answer = "ok"
  <2>1. PICK e \in Nat : e = request[j].stored
    BY <1>1 DEF Handler
  <2>2. PICK l : l = Loads(p, b.op, b.comment, e)
    OBVIOUS
  <2>3. /\ l \in PendingJob /\ l.op = b.op /\ l.comment = b.comment /\ l.pc = "list"
    BY <1>1, <2>2, LoadsTyped DEF Post
  <2> DEFINE k == [l EXCEPT !.attached = b.attached]
  <2>4. Turns(j, k) /\ UNCHANGED page
    BY <1>2, <2>1, <2>2 DEF CommentAnswered
  <2>5. k \in PendingJob /\ k.op = b.op /\ k.comment = b.comment /\ k.pc = "list"
    BY <1>1, <2>3 DEF PendingJob
  <2>6. /\ request' = [request EXCEPT ![j] = None] /\ job' = [job EXCEPT ![j] = k]
        /\ UNCHANGED <<now, tables, minted, plan, kept, page, clicks, liked, excuse>>
    BY <2>4 DEF CommentAnswered, Clears, Turns
  <2> HIDE DEF k
  <2>7. Link(k, None)
    BY <1>1, <2>5 DEF Link, JobFit
  <2> QED BY <2>5, <2>6, <2>7, SlotTyped, TypedFacts DEF Typed, Known
<1>3. CASE request[j].answer # "ok"
  <2> DEFINE d == Enabled(b, FALSE)
             v == [page[p] EXCEPT !.disabled = d]
  <2>1. d \in SUBSET Control
    BY <1>1, EnabledTyped
  <2>2. page' = [page EXCEPT ![p].disabled = d] /\ Turns(j, None)
    BY <1>3 DEF CommentAnswered, Enabled
  <2> HIDE DEF d
  <2>3. v \in PageView /\ v.token = page[p].token /\ page' = [page EXCEPT ![p] = v]
    BY <1>1, <2>1, <2>2, OnlyButton
  <2>4. Clears(j) /\ UNCHANGED <<now, tables, minted, plan, kept, clicks, liked, excuse>>
    BY DEF CommentAnswered
  <2> HIDE DEF v
  <2> QED BY <1>1, <2>2, <2>3, <2>4, ButtonBack
<1> QED BY <1>2, <1>3

-----------------------------------------------------------------------------
(* Types: loading the list, and failures.                                  *)

LEMMA ReadCachedTyped ==
  ASSUME Typed, NEW j \in Job, ReadCached(j)
  PROVE  Typed'
<1>1. job[j] \in PendingJob /\ JobFit(job[j]) /\ job[j].pc = "list" /\ request[j] = None
  BY AtFacts DEF ReadCached, Link
<1>2. PICK v \in 0..version, s \in SUBSET Comment :
        Turns(j, [job[j] EXCEPT !.pc = "render", !.version = v, !.shown = s])
  BY DEF ReadCached
<1> DEFINE b == [job[j] EXCEPT !.pc = "render", !.version = v, !.shown = s]
<1>3. v \in Nat
  BY TypedFacts
<1>4. b \in PendingJob /\ b.pc = "render" /\ b.op = job[j].op /\ b.comment = job[j].comment
  BY <1>1, <1>3 DEF PendingJob
<1>5. Turns(j, b) /\ UNCHANGED <<server, plan, kept, page, clicks, liked, excuse>>
  BY <1>2 DEF ReadCached
<1> HIDE DEF b
<1>6. Link(b, request[j])
  BY <1>1, <1>4 DEF Link, JobFit
<1> QED BY <1>4, <1>5, <1>6, TurnTyped

LEMMA ReadListTyped ==
  ASSUME Typed, NEW j \in Job, ReadList(j)
  PROVE  Typed'
<1>1. job[j] \in PendingJob /\ JobFit(job[j]) /\ job[j].pc = "list" /\ request[j] = None
  BY AtFacts DEF ReadList, Link
<1> DEFINE s == {c \in Comment : status[c] = "approved"}
           b == [job[j] EXCEPT !.pc = "voted", !.version = version, !.shown = s]
<1>2. s \in SUBSET Comment /\ version \in Nat
  BY TypedFacts
<1>3. Turns(j, b) /\ UNCHANGED <<server, plan, kept, page, clicks, liked, excuse>>
  BY DEF ReadList
<1> HIDE DEF s
<1>4. b \in PendingJob /\ b.pc = "voted" /\ b.op = job[j].op /\ b.comment = job[j].comment
  BY <1>1, <1>2 DEF PendingJob
<1> HIDE DEF b
<1>5. Link(b, request[j])
  BY <1>1, <1>4 DEF Link, JobFit
<1> QED BY <1>3, <1>4, <1>5, TurnTyped

LEMMA ReadVotedTyped ==
  ASSUME Typed, NEW j \in Job, ReadVoted(j)
  PROVE  Typed'
<1>1. job[j] \in PendingJob /\ JobFit(job[j]) /\ job[j].pc = "voted" /\ request[j] = None
  BY AtFacts DEF ReadVoted, Link
<1> DEFINE s == {c \in job[j].shown : Liked(c, job[j].token)}
           b == [job[j] EXCEPT !.pc = "render", !.voted = s]
<1>2. s \in SUBSET Comment
  BY <1>1 DEF PendingJob
<1>3. Turns(j, b) /\ UNCHANGED <<server, plan, kept, page, clicks, liked, excuse>>
  BY DEF ReadVoted
<1> HIDE DEF s
<1>4. b \in PendingJob /\ b.pc = "render" /\ b.op = job[j].op /\ b.comment = job[j].comment
  BY <1>1, <1>2 DEF PendingJob
<1> HIDE DEF b
<1>5. Link(b, request[j])
  BY <1>1, <1>4 DEF Link, JobFit
<1> QED BY <1>3, <1>4, <1>5, TurnTyped

LEMMA RenderTyped ==
  ASSUME Typed, NEW j \in Job, Render(j)
  PROVE  Typed'
<1> DEFINE b == job[j]  p == b.page  d == {k \in Enabled(b, TRUE) : ~OfList(k)}
           v == [page[p] EXCEPT !.version = b.version, !.shown = b.shown, !.voted = b.voted,
                                !.flagged = {}, !.disabled = d]
<1>1. b # None /\ b \in PendingJob /\ p \in Page /\ page[p] \in PageView /\ request[j] = None
  BY AtFacts DEF Render, Link
<1>2. d \in SUBSET Control
  BY <1>1, EnabledTyped
<1>3. page' = [page EXCEPT ![p] = v]
  BY DEF Render
<1> HIDE DEF d
<1>4. v \in PageView /\ v.token = page[p].token
  BY <1>1, <1>2 DEF PageView, PendingJob
<1> HIDE DEF v
<1>5. page' \in [Page -> PageView] /\ \A q \in Page : page'[q].token \in 0..minted
  BY <1>1, <1>3, <1>4, PageTyped DEF Typed, Known
<1>6. job' = [i \in Job |->
       IF i = j THEN None
       ELSE IF job[i] # None /\ job[i].page = p /\ OfList(ControlOf(job[i]))
            THEN Detached(job[i]) ELSE job[i]]
  BY DEF Render, Detached
<1>7. Rearranged(j, None) /\ Link(None, request[j])
  BY <1>6 DEF Rearranged, Link
<1>8. /\ job' \in [Job -> PendingJob \cup {None}]
      /\ \A i \in Job : Link(job'[i], request[i])
  BY <1>6, <1>7, RearrangedTyped
<1>9. UNCHANGED <<server, plan, kept, clicks, liked, excuse>>
  BY DEF Render
<1> QED BY <1>5, <1>8, <1>9, PagesTyped, TypedFacts DEF Typed, Known

LEMMA JobFailsTyped ==
  ASSUME Typed, NEW j \in Job, JobFails(j)
  PROVE  Typed'
<1> DEFINE b == job[j]  p == b.page  d == Enabled(b, FALSE)
<1>1. b \in PendingJob
  BY TypedFacts DEF JobFails
<1>2. p \in Page /\ d \in SUBSET Control
  BY <1>1, EnabledTyped DEF PendingJob
<1>3. page' = [page EXCEPT ![p].disabled = d]
  BY DEF JobFails
<1> HIDE DEF d
<1>4. page' \in [Page -> PageView] /\ \A q \in Page : page'[q].token \in 0..minted
  BY <1>2, <1>3, ButtonsTyped
<1>5. job' = [job EXCEPT ![j] = None]
  BY DEF JobFails, Turns
<1>6. /\ job' \in [Job -> PendingJob \cup {None}]
      /\ \A i \in Job : Link(job'[i], request[i])
  BY <1>5, TypedFacts DEF Link
<1>7. UNCHANGED <<server, plan, kept, clicks, liked>> /\ excuse' \in SUBSET Reason
  BY TypedFacts DEF JobFails, Reason
<1> QED BY <1>4, <1>6, <1>7, PagesTyped, TypedFacts DEF Typed, Known

LEMMA UnheardTyped ==
  ASSUME Typed, NEW j \in Job, Unheard(j)
  PROVE  Typed'
<1>1. request' = [request EXCEPT ![j] = None] /\ job[j] = None
  BY DEF Unheard, Clears
<1>2. job' = [job EXCEPT ![j] = None]
  BY <1>1, TypedFacts DEF Unheard, client
<1>3. Link(None, None)
  BY DEF Link
<1>4. UNCHANGED <<now, tables, minted, plan, kept, page, clicks, liked, excuse>>
  BY DEF Unheard, client
<1> QED BY <1>1, <1>2, <1>3, <1>4, SlotTyped, TypedFacts DEF Typed, Known

-----------------------------------------------------------------------------
(* Types: the Worker, the moderator, the clock.                            *)

\* A handler's step leaves its job linked, and everybody else alone.
LEMMA WorkerTyped ==
  ASSUME Typed, NEW j \in Job, HandlerStep(j) \/ ServerFails(j),
         UNCHANGED <<plan, kept, page, job, clicks, liked>>, excuse' \in SUBSET Reason
  PROVE  Typed'
<1>1. ServerTyped' /\ minted <= minted'
  BY HandlerTyped DEF Typed
<1>2. minted \in Nat /\ minted' \in Nat
  BY <1>1, TypedFacts DEF ServerTyped, EngagementTypeOK
<1>3. PICK h \in Handler : Steps(j, h) /\ Kept(request[j], h)
  BY StepTypes DEF Typed
<1>4. request[j] # None
  BY DEF HandlerStep, ServerFails, Serving, LookUp, Admit, Guard, Interval, StoreLike, StoreFlag,
         StoreReaction, Count, StoreComment
<1>5. ASSUME NEW i \in Job PROVE Link(job'[i], request'[i])
  <2>1. CASE i # j
    BY <1>3, <2>1, TypedFacts DEF Steps
  <2>2. CASE i = j
    BY <1>3, <1>4, <2>2, TypedFacts DEF Steps, Kept, Link
  <2> QED BY <2>1, <2>2
<1>6. Known'
  BY <1>1, <1>2 DEF Typed, Known
<1>7. WidgetTypeOK'
  BY <1>1 DEF Typed, WidgetTypeOK, ServerTyped
<1> QED BY <1>1, <1>5, <1>6, <1>7 DEF Typed

LEMMA HandlerFailsTyped ==
  ASSUME Typed, NEW j \in Job, HandlerFails(j)
  PROVE  Typed'
<1>1. excuse' \in SUBSET Reason
  BY TypedFacts DEF HandlerFails, Reason
<1> QED BY <1>1, WorkerTyped DEF HandlerFails

LEMMA ServerStepTyped ==
  ASSUME Typed, NEW j \in Job, ServerStep(j)
  PROVE  Typed'
<1>1. UNCHANGED <<plan, kept, page, job, clicks, liked, excuse>>
  BY DEF ServerStep, client
<1> QED BY <1>1, WorkerTyped, TypedFacts DEF ServerStep

\* The requests, the voters and the browser stay, and the rest keeps its type.
LEMMA RestTyped ==
  ASSUME Typed, UNCHANGED <<minted, request, client>>,
         now' \in Nat, status' \in [Comment -> {"approved", "pending", "gone"}],
         edits' \in 0..MaxEdits, version' \in Nat, UNCHANGED <<likes, flags, reactions>>
  PROVE  Typed'
<1>1. ServerTyped'
  BY DEF Typed, ServerTyped, EngagementTypeOK
<1>2. WidgetTypeOK'
  BY <1>1 DEF Typed, ServerTyped, WidgetTypeOK, client
<1> QED BY <1>1, <1>2 DEF Typed, Known, client

LEMMA ModerateTyped ==
  ASSUME Typed, NEW c \in Comment, NEW s \in {"approved", "pending", "gone"},
         Moderate(c, s), UNCHANGED client
  PROVE  Typed'
<1>1. edits \in 0..MaxEdits
  BY DEF Typed, ServerTyped, EngagementTypeOK
<1> QED BY <1>1, TypedFacts, RestTyped DEF Moderate

LEMMA TickTyped ==
  ASSUME Typed, Tick
  PROVE  Typed'
<1>1. edits \in 0..MaxEdits
  BY DEF Typed, ServerTyped, EngagementTypeOK
<1> QED BY <1>1, TypedFacts, RestTyped DEF Tick, tables

LEMMA StillTyped ==
  ASSUME Typed, UNCHANGED vars
  PROVE  Typed'
BY TypedFacts, PagesTyped DEF vars, client, Typed, Known

-----------------------------------------------------------------------------

LEMMA TypedInit == Init => Typed
<1> SUFFICES ASSUME Init PROVE Typed
  OBVIOUS
<1>1. EngagementTypeOK
  BY DEF Init, EngagementInit, EngagementTypeOK
<1>2. Fresh(NoToken) \in PageView /\ [Fresh(NoToken) EXCEPT !.shown = Comment] \in PageView
      /\ [Fresh(NoToken) EXCEPT !.shown = Comment].token = NoToken
  BY DEF Fresh, PageView, Token
<1>3. plan \in Plans /\ plan \in Plan
  BY DEF Init
<1>4. WidgetTypeOK
  BY <1>1, <1>2, <1>3 DEF Init, WidgetTypeOK, Token, Plan
<1>5. Known
  <2>1. kept = 0 /\ minted = 0 /\ \A p \in Page : page[p].token = 0
    BY <1>2 DEF Init, EngagementInit, NoToken
  <2> QED BY <2>1 DEF Known
<1>6. ServerTyped /\ \A j \in Job : Link(job[j], request[j])
  BY <1>1 DEF Init, EngagementInit, ServerTyped, Link
<1> QED BY <1>4, <1>5, <1>6 DEF Typed

LEMMA TypedNext ==
  ASSUME Typed, [Next]_vars
  PROVE  Typed'
<1>1. ASSUME NEW j \in Job, VisitorStep(j) PROVE Typed'
  BY <1>1, ClickTyped, OpenTyped, SortTyped DEF VisitorStep
<1>2. ASSUME NEW j \in Job, ClientStep(j) PROVE Typed'
  BY <1>2, IssueTyped, SolvedTyped, GateOverTyped, LikeAnsweredTyped, FlagAnsweredTyped,
     ReactionAnsweredTyped, CommentAnsweredTyped, ReadCachedTyped, ReadListTyped,
     ReadVotedTyped, RenderTyped DEF ClientStep
<1>3. ASSUME NEW j \in Job, ServerStep(j) \/ JobFails(j) \/ Unheard(j) \/ HandlerFails(j)
      PROVE  Typed'
  BY <1>3, ServerStepTyped, JobFailsTyped, UnheardTyped, HandlerFailsTyped
<1>4. ASSUME NEW p \in Page, NEW c \in Comment, CloseReply(p, c) PROVE Typed'
  BY <1>4, CloseReplyTyped
<1>5. ASSUME NEW c \in Comment, NEW s \in {"approved", "pending", "gone"}, Moderate(c, s),
             UNCHANGED client
      PROVE  Typed'
  BY <1>5, ModerateTyped
<1>6. CASE Tick
  BY <1>6, TickTyped
<1>7. CASE UNCHANGED vars
  BY <1>7, StillTyped
<1> QED BY <1>1, <1>2, <1>3, <1>4, <1>5, <1>6, <1>7 DEF Next

\* The types and the links between pages, jobs and handlers always hold.
THEOREM WidgetTyped == Spec => []Typed
BY TypedInit, TypedNext, PTL DEF Spec

\* Pages, jobs, handlers and tables keep their types; in particular no page or
\* handler ever has the token of a voter that was not minted.
THEOREM WidgetTypeCorrect == Spec => []WidgetTypeOK
<1>1. Typed => WidgetTypeOK
  BY DEF Typed
<1> QED BY <1>1, WidgetTyped, PTL

-----------------------------------------------------------------------------
(* The interval between reactions.                                         *)

\* Nothing is stored from the future, or has seen more than was stored; and a
\* non-empty table has a last stamp, without which LastStamp would mean nothing.
Rows ==
  /\ \A i \in DOMAIN reactions : reactions[i].at <= now \div Second
  /\ \A i \in DOMAIN reactions : reactions[i].seen <= Len(reactions)
  /\ reactions # <<>> => \E i \in DOMAIN reactions : \A k \in DOMAIN reactions :
                            reactions[k].at <= reactions[i].at

Due(h) == h # None /\ h.op = "react" /\ h.pc \in {"interval", "store"}

\* A reaction that passed the check is far enough from whatever it has seen.
Spacing(h) ==
  Due(h) =>
    /\ h.at <= now \div Second
    /\ h.seen <= Len(reactions)
    /\ \A i \in DOMAIN reactions : i <= h.seen =>
         /\ reactions[i].at <= h.at
         /\ h.pc = "store" => h.at - reactions[i].at >= MinInterval

IntervalInv == Rows /\ IntervalHeld /\ \A j \in Job : Spacing(request[j])

LEMMA ReactionFacts ==
  ASSUME Typed
  PROVE  /\ reactions \in Seq(ReactionRow) /\ Len(reactions) \in Nat
         /\ DOMAIN reactions = 1..Len(reactions)
         /\ \A i \in DOMAIN reactions : reactions[i].at \in Nat /\ reactions[i].seen \in Nat
         /\ now \div Second \in Nat
<1>1. reactions \in Seq(ReactionRow) /\ now \in Nat
  BY DEF Typed, ServerTyped, EngagementTypeOK
<1>2. \A i \in DOMAIN reactions : reactions[i] \in ReactionRow
  BY <1>1
<1> QED BY <1>1, <1>2 DEF ReactionRow

LEMMA Seconds ==
  ASSUME NEW t \in Nat, NEW u \in Nat, t <= u
  PROVE  t \div Second \in Nat /\ u \div Second \in Nat /\ t \div Second <= u \div Second
<1>1. Second \in Nat \ {0}
  OBVIOUS
<1> QED BY <1>1

\* Time passes, and no handler comes nearer to storing a reaction.
LEMMA NobodyDue ==
  ASSUME Typed, IntervalInv, reactions' = reactions, now' \in Nat, now <= now',
         \A j \in Job : request'[j] = request[j] \/ ~Due(request'[j])
  PROVE  IntervalInv'
<1>1. now \div Second \in Nat /\ now' \div Second \in Nat /\ now \div Second <= now' \div Second
  BY TypedFacts, Seconds
<1>2. Rows'
  BY <1>1, ReactionFacts DEF IntervalInv, Rows
<1>3. IntervalHeld'
  BY DEF IntervalInv, IntervalHeld
<1>4. ASSUME NEW j \in Job PROVE Spacing(request[j])'
  <2>1. CASE ~Due(request'[j])
    BY <2>1 DEF Spacing, Due
  <2>2. CASE Due(request'[j]) /\ request'[j] = request[j]
    <3>1. request[j] \in Handler /\ Due(request[j]) /\ request[j].at \in Nat
      BY <2>2, TypedFacts DEF Due, Handler
    <3> QED BY <1>1, <2>2, <3>1 DEF IntervalInv, Spacing, Due
  <2> QED BY <2>1, <2>2
<1> QED BY <1>2, <1>3, <1>4 DEF IntervalInv

\* One handler does.
LEMMA OneDue ==
  ASSUME IntervalInv, UNCHANGED <<now, reactions>>, NEW j \in Job,
         request \in [Job -> Handler \cup {None}],
         NEW h, request' = [request EXCEPT ![j] = h], Spacing(h)
  PROVE  IntervalInv'
<1>1. Rows' /\ IntervalHeld'
  BY DEF IntervalInv, Rows, IntervalHeld
<1>2. ASSUME NEW i \in Job PROVE Spacing(request[i])'
  <2>1. Spacing(request'[i])
    BY DEF IntervalInv
  <2> QED BY <2>1 DEF Spacing, Due
<1> QED BY <1>1, <1>2 DEF IntervalInv

LEMMA AdmitInterval ==
  ASSUME Typed, IntervalInv, NEW j \in Job, Admit(j), ~TooQuick(j)
  PROVE  IntervalInv'
<1> DEFINE h == [request[j] EXCEPT !.pc = AfterGate[request[j].op], !.at = now \div Second,
                                   !.seen = Len(reactions)]
<1>1. request[j] \in Handler /\ request' = [request EXCEPT ![j] = h]
  BY Served DEF Admit, Becomes, Typed
<1>2. h.at = now \div Second /\ h.seen = Len(reactions) /\ h.op = request[j].op
      /\ h.pc = AfterGate[request[j].op]
  BY <1>1 DEF Handler
<1>3. Due(h) => h.pc = "interval"
  BY <1>2 DEF Due, AfterGate
<1> HIDE DEF h
<1>4. Spacing(h)
  BY <1>2, <1>3, ReactionFacts DEF Spacing, IntervalInv, Rows
<1>5. UNCHANGED <<now, reactions>>
  BY DEF Admit, tables
<1> QED BY <1>1, <1>4, <1>5, OneDue, TypedFacts

LEMMA LastIsLast ==
  ASSUME Typed, Rows, reactions # <<>>
  PROVE  LastStamp \in Nat /\ \A i \in DOMAIN reactions : reactions[i].at <= LastStamp
<1>1. PICK i \in DOMAIN reactions : \A k \in DOMAIN reactions : reactions[k].at <= reactions[i].at
  BY DEF Rows
<1>2. reactions[i].at \in Stamps /\ \A u \in Stamps : reactions[i].at >= u
  BY <1>1, ReactionFacts DEF Stamps
<1>3. LastStamp \in Stamps /\ \A u \in Stamps : LastStamp >= u
  BY <1>2 DEF LastStamp
<1> QED BY <1>3, ReactionFacts DEF Stamps

LEMMA IntervalInterval ==
  ASSUME Typed, IntervalInv, NEW j \in Job, Interval(j),
         Becomes(j, [request[j] EXCEPT !.pc = "store"]),
         ~(MinInterval > 0 /\ reactions # <<>> /\ TooSoon(request[j].at))
  PROVE  IntervalInv'
<1> DEFINE h == [request[j] EXCEPT !.pc = "store"]
<1>1. /\ request[j] \in Handler /\ request[j] # None /\ request[j].pc = "interval"
      /\ request[j].op = "react"
  BY Served DEF Interval, Typed, Fit
<1>2. /\ h.at = request[j].at /\ h.seen = request[j].seen /\ h.pc = "store" /\ h.op = "react"
      /\ request[j].at \in Nat /\ request[j].seen \in Nat /\ request' = [request EXCEPT ![j] = h]
  BY <1>1 DEF Handler, Becomes
<1> HIDE DEF h
<1>3. Spacing(request[j]) /\ Due(request[j])
  BY <1>1 DEF IntervalInv, Due
<1>4. ASSUME NEW i \in DOMAIN reactions, i <= h.seen
      PROVE  h.at - reactions[i].at >= MinInterval
  <2>1. reactions[i].at <= h.at /\ reactions[i].at \in Nat
    BY <1>2, <1>3, <1>4, ReactionFacts DEF Spacing
  <2>2. CASE MinInterval = 0
    BY <1>2, <2>1, <2>2
  <2>3. CASE MinInterval > 0
    <3>1. reactions # <<>>
      BY <1>4
    <3>2. LastStamp \in Nat /\ reactions[i].at <= LastStamp
      BY <3>1, LastIsLast DEF IntervalInv
    <3>3. h.at - LastStamp >= MinInterval
      BY <1>2, <2>3, <3>1, <3>2 DEF TooSoon
    <3> QED BY <1>2, <2>1, <3>2, <3>3
  <2> QED BY <2>2, <2>3
<1>5. Spacing(h)
  BY <1>2, <1>3, <1>4 DEF Spacing
<1>6. UNCHANGED <<now, reactions>>
  BY DEF Interval, tables
<1> QED BY <1>2, <1>5, <1>6, OneDue, TypedFacts

LEMMA StoreInterval ==
  ASSUME Typed, IntervalInv, NEW j \in Job, StoreReaction(j)
  PROVE  IntervalInv'
<1> DEFINE h == request[j]  row == [at |-> h.at, seen |-> h.seen]  n == Len(reactions)
<1>1. /\ h \in Handler /\ h # None /\ h.pc = "store" /\ h.op = "react"
      /\ h.at \in Nat /\ h.seen \in Nat
  BY Served DEF StoreReaction, Typed, Handler
<1>2. Spacing(h) /\ Due(h)
  BY <1>1 DEF IntervalInv, Due
<1>3. /\ reactions' = Append(reactions, row) /\ now' = now
      /\ request' = [request EXCEPT ![j] = [h EXCEPT !.pc = "count"]]
  BY DEF StoreReaction, Becomes
<1>4. row \in ReactionRow /\ row.at = h.at /\ row.seen = h.seen
  BY <1>1 DEF ReactionRow
<1> HIDE DEF row
<1>5. /\ Len(reactions') = n + 1 /\ DOMAIN reactions' = 1..(n + 1)
      /\ reactions'[n + 1] = row
      /\ \A i \in DOMAIN reactions : i \in DOMAIN reactions' /\ reactions'[i] = reactions[i]
      /\ n \in Nat /\ DOMAIN reactions = 1..n
  BY <1>3, <1>4, ReactionFacts
<1>6. \A i \in DOMAIN reactions' : i \in DOMAIN reactions \/ i = n + 1
  BY <1>5
<1> HIDE DEF n
<1>7. Rows'
  <2>1. \A i \in DOMAIN reactions' : reactions'[i].at <= now' \div Second
    BY <1>2, <1>3, <1>4, <1>5, <1>6 DEF Spacing, IntervalInv, Rows
  <2>2. \A i \in DOMAIN reactions' : reactions'[i].seen <= Len(reactions')
    BY <1>1, <1>2, <1>4, <1>5, <1>6, ReactionFacts DEF Spacing, IntervalInv, Rows, n
  <2>3. \E i \in DOMAIN reactions' : \A k \in DOMAIN reactions' : reactions'[k].at <= reactions'[i].at
    <3>1. CASE \A k \in DOMAIN reactions : reactions[k].at <= h.at
      <4>1. \A k \in DOMAIN reactions' : reactions'[k].at <= reactions'[n + 1].at
        BY <1>1, <1>4, <1>5, <1>6, <3>1
      <4> QED BY <1>5, <4>1
    <3>2. CASE \E k \in DOMAIN reactions : h.at < reactions[k].at
      <4>1. PICK k \in DOMAIN reactions : h.at < reactions[k].at
        BY <3>2
      <4>2. PICK i \in DOMAIN reactions : \A m \in DOMAIN reactions : reactions[m].at <= reactions[i].at
        BY <4>1, <1>5 DEF IntervalInv, Rows
      <4>3. h.at <= reactions[i].at
        BY <1>1, <4>1, <4>2, ReactionFacts
      <4>4. \A m \in DOMAIN reactions' : reactions'[m].at <= reactions'[i].at
        BY <1>4, <1>5, <1>6, <4>2, <4>3
      <4> QED BY <1>5, <4>2, <4>4
    <3> QED BY <1>1, <3>1, <3>2, ReactionFacts
  <2> QED BY <2>1, <2>2, <2>3 DEF Rows
<1>8. IntervalHeld'
  <2>1. ASSUME NEW i \in DOMAIN reactions', NEW k \in DOMAIN reactions', i <= reactions'[k].seen
        PROVE  reactions'[k].at - reactions'[i].at >= MinInterval
    <3>1. i \in DOMAIN reactions
      <4>1. reactions'[k].seen <= n /\ reactions'[k].seen \in Nat
        BY <1>1, <1>2, <1>4, <1>5, <1>6, ReactionFacts DEF Spacing, IntervalInv, Rows, n
      <4> QED BY <1>5, <1>6, <2>1, <4>1
    <3>2. CASE k \in DOMAIN reactions
      BY <1>5, <2>1, <3>1, <3>2 DEF IntervalInv, IntervalHeld
    <3>3. CASE k = n + 1
      BY <1>1, <1>2, <1>4, <1>5, <2>1, <3>1, <3>3 DEF Spacing
    <3> QED BY <1>6, <3>2, <3>3
  <2> QED BY <2>1 DEF IntervalHeld
<1>9. ASSUME NEW i \in Job PROVE Spacing(request[i])'
  <2>1. CASE i = j
    <3>1. request'[i].pc = "count"
      BY <1>1, <1>3, <2>1, TypedFacts DEF Handler
    <3> QED BY <3>1 DEF Spacing, Due
  <2>2. CASE i # j /\ Due(request'[i])
    <3>1. request'[i] = request[i] /\ request[i] \in Handler /\ Spacing(request[i]) /\ Due(request[i])
      BY <1>3, <2>2, TypedFacts DEF IntervalInv, Due
    <3>2. request[i].seen \in Nat /\ request[i].seen <= n
      BY <3>1 DEF Spacing, Handler, n
    <3>3. ASSUME NEW m \in DOMAIN reactions', m <= request[i].seen
          PROVE  m \in DOMAIN reactions /\ reactions'[m] = reactions[m]
      BY <1>5, <1>6, <3>2, <3>3
    <3>4. request'[i].seen <= Len(reactions')
      BY <1>5, <3>1, <3>2
    <3> QED BY <1>3, <3>1, <3>3, <3>4 DEF Spacing
  <2>3. CASE ~Due(request'[i])
    BY <2>3 DEF Spacing
  <2> QED BY <2>1, <2>2, <2>3
<1> QED BY <1>7, <1>8, <1>9 DEF IntervalInv

LEMMA SlotNotDue ==
  ASSUME Typed, NEW j \in Job, NEW h, request' = [request EXCEPT ![j] = h], ~Due(h)
  PROVE  \A i \in Job : request'[i] = request[i] \/ ~Due(request'[i])
BY TypedFacts

LEMMA AnswersNotDue ==
  ASSUME Typed, NEW j \in Job, request[j] # None, NEW a \in Answer, Answers(j, a)
  PROVE  \A i \in Job : request'[i] = request[i] \/ ~Due(request'[i])
<1> DEFINE g == IF a = "ok" THEN request[j].gives ELSE NoToken
           h == [request[j] EXCEPT !.pc = "answered", !.answer = a, !.gives = g]
<1>1. request' = [request EXCEPT ![j] = h]
  BY DEF Answers, Becomes
<1> HIDE DEF g
<1>2. h.pc = "answered"
  BY TypedFacts DEF Handler
<1> HIDE DEF h
<1> QED BY <1>1, <1>2, SlotNotDue DEF Due

LEMMA HandlerInterval ==
  ASSUME Typed, IntervalInv, NEW j \in Job, HandlerStep(j) \/ ServerFails(j)
  PROVE  IntervalInv'
<1> DEFINE old == request[j]
           Undue == \A i \in Job : request'[i] = request[i] \/ ~Due(request'[i])
<1>a. ASSUME reactions' = reactions, now' = now, Undue PROVE IntervalInv'
  BY <1>a, NobodyDue, TypedFacts
<1>b. ASSUME NEW a \in Answer, NEW pc, Serving(j, pc), Answers(j, a) PROVE Undue
  BY <1>b, AnswersNotDue DEF Serving
<1>c. ASSUME NEW pc, Serving(j, pc), NEW h, Becomes(j, h),
             old \in Handler /\ Fit(old, minted) /\ old.pc = pc => h.op # "react" \/ h.pc \in {"admit", "count"}
      PROVE  Undue
  <2>1. old \in Handler /\ Fit(old, minted) /\ old.pc = pc
    BY <1>c, Served DEF Typed
  <2> QED BY <1>c, <2>1, SlotNotDue DEF Due, Becomes
<1> HIDE DEF Undue
<1>1. CASE LookUp(j)
  <2>1. old \in Handler => [old EXCEPT !.pc = "admit"].pc = "admit"
    BY DEF Handler
  <2>2. Undue
    BY <1>1, <1>b, <1>c, <2>1 DEF LookUp, Answer
  <2> QED BY <1>1, <1>a, <2>2 DEF LookUp, tables
<1>2. CASE Admit(j)
  <2>1. CASE TooQuick(j)
    <3>1. Undue
      BY <1>2, <1>b, <2>1 DEF Admit, Answer
    <3> QED BY <1>2, <1>a, <3>1 DEF Admit, tables
  <2> QED BY <1>2, <2>1, AdmitInterval
<1>3. CASE Guard(j)
  <2>1. old \in Handler /\ Fit(old, minted) /\ old.pc = "guard" =>
          /\ [old EXCEPT !.pc = "store"].op = "like"
          /\ [old EXCEPT !.pc = "store", !.gives = minted + 1].op = "like"
    BY DEF Handler, Fit
  <2>2. CASE Answers(j, "again")
    BY <1>3, <1>a, <1>b, <2>2 DEF Guard, Answer, tables
  <2>3. CASE Becomes(j, [old EXCEPT !.pc = "store"])
    <3>1. Undue
      BY <1>3, <1>c, <2>1, <2>3 DEF Guard
    <3> QED BY <1>3, <1>a, <3>1 DEF Guard, tables
  <2>4. CASE Becomes(j, [old EXCEPT !.pc = "store", !.gives = minted + 1])
    <3>1. Undue
      BY <1>3, <1>c, <2>1, <2>4 DEF Guard
    <3> QED BY <1>3, <1>a, <3>1 DEF Guard, tables
  <2> QED BY <1>3, <2>2, <2>3, <2>4 DEF Guard
<1>4. CASE Interval(j)
  <2>1. CASE Answers(j, "slow")
    BY <1>4, <1>a, <1>b, <2>1 DEF Interval, Answer, tables
  <2> QED BY <1>4, <2>1, IntervalInterval DEF Interval
<1>5. CASE StoreLike(j)
  <2>1. old \in Handler => [old EXCEPT !.pc = "count"].pc = "count"
    BY DEF Handler
  <2>2. Undue
    BY <1>5, <1>b, <1>c, <2>1 DEF StoreLike, Answer
  <2> QED BY <1>5, <1>a, <2>2 DEF StoreLike
<1>6. CASE StoreFlag(j)
  BY <1>6, <1>a, <1>b DEF StoreFlag, Answer
<1>7. ASSUME NEW approved \in BOOLEAN, StoreComment(j, approved) PROVE IntervalInv'
  <2> DEFINE h == [old EXCEPT !.pc = "answered", !.answer = "ok",
                              !.stored = IF approved THEN version + 1 ELSE 0]
  <2>1. old \in Handler /\ old.op # "react"
    BY <1>7, Served DEF StoreComment, Typed
  <2>2. h.op # "react"
    BY <2>1 DEF Handler
  <2>3. Serving(j, "store") /\ Becomes(j, h) /\ reactions' = reactions /\ now' = now
    BY <1>7 DEF StoreComment
  <2> HIDE DEF h
  <2> QED BY <1>a, <1>c, <2>2, <2>3
<1>8. CASE StoreReaction(j)
  BY <1>8, StoreInterval
<1>9. CASE Count(j)
  BY <1>9, <1>a, <1>b DEF Count, Answer, tables
<1>10. CASE ServerFails(j)
  <2>1. Undue
    BY <1>10, AnswersNotDue DEF ServerFails, Answer, Undue
  <2> QED BY <1>10, <1>a, <2>1 DEF ServerFails, tables
<1> QED BY <1>1, <1>2, <1>3, <1>4, <1>5, <1>6, <1>7, <1>8, <1>9, <1>10 DEF HandlerStep

\* What a browser does to the slots: a handler that has just begun, or none.
LEMMA ClientInterval ==
  ASSUME Typed, IntervalInv, NEW j \in Job,
         VisitorStep(j) \/ ClientStep(j) \/ JobFails(j) \/ Unheard(j)
  PROVE  IntervalInv'
<1>1. UNCHANGED <<now, reactions>>
  BY DEF VisitorStep, ClientStep, JobFails, Unheard, Click, Open, Sort, Issue, Solved, GateOver,
         Send, LikeAnswered, FlagAnswered, ReactionAnswered, CommentAnswered, ReadCached,
         ReadList, ReadVoted, Render, server, tables
<1>2. \A i \in Job : request'[i] = request[i] \/ ~Due(request'[i])
  <2>1. CASE request' = request
    BY <2>1
  <2>2. CASE Clears(j)
    BY <2>2, SlotNotDue DEF Clears, Due
  <2>3. CASE (At(j, "solve") /\ Send(j)) \/ GateOver(j)
    <3> DEFINE h == NewHandler(job[j].op, job[j].comment,
                      IF job[j].op = "like" THEN page[job[j].page].token ELSE NoToken,
                      job[j].issued)
    <3>1. h.pc \in {"look", "admit"}
      BY <2>3, SendFits DEF GateOver, At
    <3>2. request' = [request EXCEPT ![j] = h]
      BY <2>3 DEF GateOver, Send
    <3> HIDE DEF h
    <3> QED BY <3>1, <3>2, SlotNotDue DEF Due
  <2> QED BY <2>1, <2>2, <2>3
       DEF VisitorStep, ClientStep, JobFails, Unheard, Click, Open, Sort, Issue, Solved,
           LikeAnswered, FlagAnswered, ReactionAnswered, CommentAnswered, ReadCached,
           ReadList, ReadVoted, Render, server
<1> QED BY <1>1, <1>2, NobodyDue, TypedFacts

LEMMA IntervalNext ==
  ASSUME Typed, IntervalInv, [Next]_vars
  PROVE  IntervalInv'
<1>1. ASSUME NEW j \in Job, VisitorStep(j) \/ ClientStep(j) \/ JobFails(j) \/ Unheard(j)
      PROVE  IntervalInv'
  BY <1>1, ClientInterval
<1>2. ASSUME NEW j \in Job, ServerStep(j) \/ HandlerFails(j) PROVE IntervalInv'
  BY <1>2, HandlerInterval DEF ServerStep, HandlerFails
<1>3. ASSUME UNCHANGED <<reactions, request>>, now' \in Nat, now <= now' PROVE IntervalInv'
  BY <1>3, NobodyDue
<1>4. CASE \E p \in Page, c \in Comment : CloseReply(p, c)
  BY <1>3, <1>4, TypedFacts DEF CloseReply, server
<1>5. CASE \E c \in Comment, s \in {"approved", "pending", "gone"} : Moderate(c, s)
  BY <1>3, <1>5, TypedFacts DEF Moderate
<1>6. CASE Tick \/ UNCHANGED vars
  BY <1>3, <1>6, TypedFacts DEF Tick, tables, vars, server
<1> QED BY <1>1, <1>2, <1>4, <1>5, <1>6 DEF Next

LEMMA IntervalInit == Init => IntervalInv
BY DEF Init, EngagementInit, IntervalInv, Rows, IntervalHeld, Spacing, Due

\* However many handlers overlap, a reaction keeps its distance from every one
\* that was stored before its own handler read the clock.
THEOREM IntervalAlwaysHeld == Spec => []IntervalHeld
<1>1. Spec => []IntervalInv
  BY IntervalInit, IntervalNext, WidgetTyped, PTL DEF Spec
<1>2. IntervalInv => IntervalHeld
  BY DEF IntervalInv
<1> QED BY <1>1, <1>2, PTL

-----------------------------------------------------------------------------
(* The wait of the forms.                                                  *)

\* A form that waited has posted late enough for a challenge that was signed
\* within the margin of asking for it, and is not refused for it.
Gated(b, h) ==
  b # None /\ b.pc = "sent" /\ Waits(b.op) =>
    /\ now >= b.t0 + WaitTicks
    /\ b.issued * Second <= b.t0 + Margin => h.answer # "tooquick"

GateInv == \A j \in Job : Gated(job[j], request[j])

\* A job other than one that posts now: as it was, or not waiting for an answer.
Quieter(j) ==
  \/ job'[j] = None \/ job'[j].pc # "sent"
  \/ job[j] # None /\ job[j].pc = "sent" /\ request'[j] = request[j]
     /\ job'[j] \in {job[j], Detached(job[j])}

LEMMA DetachedFields ==
  ASSUME NEW b \in PendingJob
  PROVE  /\ Detached(b) \in PendingJob /\ Detached(b) # None
         /\ Detached(b).op = b.op /\ Detached(b).pc = b.pc /\ Detached(b).page = b.page
         /\ Detached(b).comment = b.comment /\ Detached(b).t0 = b.t0
         /\ Detached(b).issued = b.issued /\ Detached(b).token = b.token
         /\ Detached(b).version = b.version /\ Detached(b).since = b.since
         /\ Detached(b).shown = b.shown /\ Detached(b).voted = b.voted
         /\ Detached(b).liked = b.liked /\ ~Detached(b).attached
BY ZenonT(40) DEF PendingJob, Detached

LEMMA QuieterGate ==
  ASSUME Typed, GateInv, now' \in Nat, now <= now', \A j \in Job : Quieter(j)
  PROVE  GateInv'
<1>1. WaitTicks \in Nat
  BY DEF WaitTicks
<1>2. ASSUME NEW j \in Job, job'[j] # None, job'[j].pc = "sent", Waits(job'[j].op)
      PROVE  /\ now' >= job'[j].t0 + WaitTicks
             /\ job'[j].issued * Second <= job'[j].t0 + Margin => request'[j].answer # "tooquick"
  <2>1. /\ job[j] \in PendingJob /\ job[j].pc = "sent" /\ request'[j] = request[j]
        /\ job'[j] \in {job[j], Detached(job[j])} /\ job[j] # None /\ now \in Nat
    BY <1>2, TypedFacts DEF Quieter
  <2>2. job'[j].t0 = job[j].t0 /\ job'[j].issued = job[j].issued /\ job'[j].op = job[j].op
        /\ job[j].t0 \in Nat
    BY <2>1, DetachedFields DEF PendingJob
  <2>3. Gated(job[j], request[j])
    BY DEF GateInv
  <2>4. now >= job[j].t0 + WaitTicks
        /\ (job[j].issued * Second <= job[j].t0 + Margin => request[j].answer # "tooquick")
    BY <1>2, <2>1, <2>2, <2>3 DEF Gated
  <2>5. now' >= job[j].t0 + WaitTicks
    BY <1>1, <2>1, <2>2, <2>4
  <2> QED BY <2>1, <2>2, <2>4, <2>5
<1> QED BY <1>2 DEF GateInv, Gated, WaitTicks

\* The client's steps but posting.
LEMMA StillQuiet ==
  ASSUME Typed, UNCHANGED <<job, request>>
  PROVE  \A j \in Job : Quieter(j)
BY DEF Quieter

LEMMA TurnQuiet ==
  ASSUME Typed, NEW j \in Job, NEW b, Turns(j, b), b = None \/ b.pc # "sent",
         request' = request \/ Clears(j)
  PROVE  \A i \in Job : Quieter(i)
<1>1. job'[j] = b /\ \A i \in Job \ {j} : job'[i] = job[i] /\ request'[i] = request[i]
  BY TypedFacts DEF Turns, Clears
<1> QED BY <1>1 DEF Quieter

LEMMA RearrangedQuiet ==
  ASSUME Typed, NEW j \in Job, NEW b, Rearranged(j, b), b = None \/ b.pc # "sent",
         request' = request
  PROVE  \A i \in Job : Quieter(i)
<1>1. ASSUME NEW i \in Job PROVE Quieter(i)
  <2>1. CASE i = j
    BY <2>1 DEF Rearranged, Quieter
  <2>2. CASE i # j
    BY <2>2, TypedFacts, DetachedFields DEF Rearranged, Quieter
  <2> QED BY <2>1, <2>2
<1> QED BY <1>1

LEMMA ClientQuiet ==
  ASSUME Typed, NEW j \in Job, VisitorStep(j) \/ ClientStep(j) \/ JobFails(j) \/ Unheard(j),
         ~((Solved(j) \/ GateOver(j)) /\ Send(j))
  PROVE  UNCHANGED now /\ \A i \in Job : Quieter(i)
<1>1. ASSUME NEW p \in Page, NEW op \in Post, NEW c \in Comment \cup {None}, Click(j, p, op, c)
      PROVE  UNCHANGED now /\ \A i \in Job : Quieter(i)
  <2> DEFINE l == Loads(p, op, c, 0)
             b == [l EXCEPT !.pc = "ask", !.t0 = now]
  <2>1. l \in PendingJob
    BY LoadsAnew
  <2>2. Turns(j, b) /\ request' = request /\ now' = now
    BY <1>1 DEF Click, server
  <2> HIDE DEF l
  <2>3. b.pc # "sent"
    BY <2>1 DEF PendingJob
  <2> HIDE DEF b
  <2> QED BY <2>2, <2>3, TurnQuiet
<1>2. ASSUME NEW p \in Page, Open(j, p) PROVE UNCHANGED now /\ \A i \in Job : Quieter(i)
  <2> DEFINE l == Loads(p, "load", None, 0)
             b == [l EXCEPT !.token = kept, !.since = 0]
  <2>1. l \in PendingJob /\ l.pc = "list"
    BY LoadsAnew
  <2>2. Rearranged(j, b) /\ request' = request /\ now' = now
    BY <1>2 DEF Open, Rearranged, server
  <2> HIDE DEF l
  <2>3. b.pc # "sent"
    BY <2>1 DEF PendingJob
  <2> HIDE DEF b
  <2> QED BY <2>2, <2>3, RearrangedQuiet
<1>3. ASSUME NEW p \in Page, Sort(j, p) PROVE UNCHANGED now /\ \A i \in Job : Quieter(i)
  <2>1. Loads(p, "load", None, 0).pc = "list"
    BY LoadsAnew
  <2> QED BY <1>3, <2>1, TurnQuiet DEF Sort, server
<1>4. CASE Issue(j) \/ ReadCached(j) \/ ReadList(j) \/ ReadVoted(j)
  <2>1. PICK b : Turns(j, b) /\ b.pc \in {"solve", "render", "voted"}
    <3>1. job[j] \in PendingJob
      BY <1>4, AtFacts DEF Issue, ReadCached, ReadList, ReadVoted
    <3>2. CASE Issue(j)
      <4>1. [job[j] EXCEPT !.pc = "solve", !.issued = now \div Second].pc = "solve"
        BY <3>1 DEF PendingJob
      <4> QED BY <3>2, <4>1 DEF Issue
    <3>3. CASE ReadCached(j)
      <4>1. PICK v, s : Turns(j, [job[j] EXCEPT !.pc = "render", !.version = v, !.shown = s])
        BY <3>3 DEF ReadCached
      <4>2. [job[j] EXCEPT !.pc = "render", !.version = v, !.shown = s].pc = "render"
        BY <3>1 DEF PendingJob
      <4> QED BY <4>1, <4>2
    <3>4. CASE ReadList(j)
      <4> DEFINE s == {c \in Comment : status[c] = "approved"}
      <4>1. Turns(j, [job[j] EXCEPT !.pc = "voted", !.version = version, !.shown = s])
        BY <3>4 DEF ReadList
      <4> HIDE DEF s
      <4>2. [job[j] EXCEPT !.pc = "voted", !.version = version, !.shown = s].pc = "voted"
        BY <3>1 DEF PendingJob
      <4> QED BY <4>1, <4>2
    <3>5. CASE ReadVoted(j)
      <4> DEFINE s == {c \in job[j].shown : Liked(c, job[j].token)}
      <4>1. Turns(j, [job[j] EXCEPT !.pc = "render", !.voted = s])
        BY <3>5 DEF ReadVoted
      <4> HIDE DEF s
      <4>2. [job[j] EXCEPT !.pc = "render", !.voted = s].pc = "render"
        BY <3>1 DEF PendingJob
      <4> QED BY <4>1, <4>2
    <3> QED BY <1>4, <3>2, <3>3, <3>4, <3>5
  <2>2. request' = request /\ now' = now
    BY <1>4 DEF Issue, ReadCached, ReadList, ReadVoted, server
  <2> QED BY <2>1, <2>2, TurnQuiet
<1>5. CASE Solved(j)
  <2>1. Turns(j, [job[j] EXCEPT !.pc = "wait"]) /\ request' = request /\ now' = now
    BY <1>5 DEF Solved, server
  <2>2. [job[j] EXCEPT !.pc = "wait"].pc = "wait"
    BY <1>5, AtFacts DEF Solved, PendingJob
  <2> QED BY <2>1, <2>2, TurnQuiet
<1>6. CASE LikeAnswered(j) \/ FlagAnswered(j) \/ ReactionAnswered(j)
  BY <1>6, TurnQuiet DEF LikeAnswered, FlagAnswered, ReactionAnswered
<1>7. CASE CommentAnswered(j)
  <2>1. CASE request[j].answer # "ok"
    BY <1>7, <2>1, TurnQuiet DEF CommentAnswered
  <2>2. CASE request[j].answer = "ok"
    <3>1. /\ job[j].page \in Page /\ job[j].op \in Post /\ request[j] \in Handler
          /\ job[j].comment \in Comment \cup {None}
      BY <1>7, SentFacts DEF CommentAnswered, PendingJob, Post
    <3>2. PICK e \in Nat : e = request[j].stored
      BY <3>1 DEF Handler
    <3>3. PICK l : l = Loads(job[j].page, job[j].op, job[j].comment, e)
      OBVIOUS
    <3>4. l \in PendingJob /\ l.pc = "list"
      BY <3>1, <3>3, LoadsTyped
    <3>5. Turns(j, [l EXCEPT !.attached = job[j].attached])
      BY <1>7, <2>2, <3>2, <3>3 DEF CommentAnswered
    <3>6. [l EXCEPT !.attached = job[j].attached].pc = "list"
      BY <3>4 DEF PendingJob
    <3> QED BY <1>7, <3>5, <3>6, TurnQuiet DEF CommentAnswered
  <2> QED BY <2>1, <2>2
<1>8. CASE Render(j)
  BY <1>8, RearrangedQuiet DEF Render, Rearranged, Detached, server
<1>9. CASE JobFails(j)
  BY <1>9, TurnQuiet DEF JobFails, server
<1>10. CASE Unheard(j)
  <2>1. now' = now /\ job' = job /\ job[j] = None /\ Clears(j)
    BY <1>10 DEF Unheard, client
  <2>2. \A i \in Job \ {j} : request'[i] = request[i]
    BY <2>1, TypedFacts DEF Clears
  <2> QED BY <2>1, <2>2 DEF Quieter
<1> QED BY <1>1, <1>2, <1>3, <1>4, <1>5, <1>6, <1>7, <1>8, <1>9, <1>10
     DEF VisitorStep, ClientStep, GateOver

LEMMA SendGate ==
  ASSUME Typed, GateInv, NEW j \in Job, Solved(j) \/ GateOver(j), Send(j)
  PROVE  GateInv'
<1> DEFINE h == NewHandler(job[j].op, job[j].comment,
                  IF job[j].op = "like" THEN page[job[j].page].token ELSE NoToken, job[j].issued)
           b == [job[j] EXCEPT !.pc = "sent"]
<1>1. /\ job[j] # None /\ job[j] \in PendingJob /\ job[j].pc \in {"solve", "wait"}
  BY AtFacts DEF Solved, GateOver
<1>2. h.answer = ""
  BY <1>1, SendFits
<1>3. b.pc = "sent" /\ b.op = job[j].op /\ b.t0 = job[j].t0
  BY <1>1 DEF PendingJob
<1>4. Waits(b.op) => now >= b.t0 + WaitTicks
  <2>1. CASE GateOver(j)
    BY <1>3, <2>1 DEF GateOver, WaitOver
  <2>2. CASE Solved(j) /\ Waits(job[j].op)
    <3>1. job' = [job EXCEPT ![j] = [job[j] EXCEPT !.pc = "wait"]] /\ job' = [job EXCEPT ![j] = b]
      BY <2>2 DEF Solved, Turns, Send
    <3>2. job'[j].pc = "wait" /\ job'[j].pc = "sent"
      BY <1>1, <3>1, TypedFacts DEF PendingJob
    <3> QED BY <3>2
  <2> QED BY <1>3, <2>1, <2>2
<1>5. request' = [request EXCEPT ![j] = h] /\ job' = [job EXCEPT ![j] = b] /\ now' = now
  BY DEF Send, Turns
<1> HIDE DEF h, b
<1>6. ASSUME NEW i \in Job PROVE Gated(job[i], request[i])'
  <2>1. CASE i = j
    BY <1>2, <1>4, <1>5, <2>1, TypedFacts DEF Gated, WaitTicks
  <2>2. CASE i # j
    <3>1. job'[i] = job[i] /\ request'[i] = request[i] /\ Gated(job[i], request[i])
      BY <1>5, <2>2, TypedFacts DEF GateInv
    <3> QED BY <1>5, <3>1 DEF Gated, WaitTicks
  <2> QED BY <2>1, <2>2
<1> QED BY <1>6 DEF GateInv

\* Only the gate answers "too quick".
LEMMA NotTooQuick ==
  ASSUME Typed, NEW j \in Job, HandlerStep(j) \/ ServerFails(j),
         request[j].answer # "tooquick", ~(Admit(j) /\ TooQuick(j))
  PROVE  request'[j].answer # "tooquick"
<1>a. ASSUME NEW a \in Answer \ {"tooquick"}, Answers(j, a), request[j] # None
      PROVE  request'[j].answer # "tooquick"
  <2>1. request[j] \in Handler
    BY <1>a, TypedFacts
  <2> QED BY <1>a, <2>1, TypedFacts DEF Answers, Becomes, Handler
<1>b. ASSUME NEW h, Becomes(j, h), request[j] \in Handler => h.answer \in {request[j].answer, "ok"},
             request[j] # None
      PROVE  request'[j].answer # "tooquick"
  BY <1>b, TypedFacts DEF Becomes
<1>1. CASE LookUp(j)
  <2>1. request[j] \in Handler => [request[j] EXCEPT !.pc = "admit"].answer = request[j].answer
    BY DEF Handler
  <2> QED BY <1>1, <1>a, <1>b, <2>1 DEF LookUp, Serving, Answer
<1>2. CASE Admit(j)
  <2> DEFINE pc == AfterGate[request[j].op]  at == now \div Second  seen == Len(reactions)
  <2>1. Becomes(j, [request[j] EXCEPT !.pc = pc, !.at = at, !.seen = seen]) /\ request[j] # None
    BY <1>2 DEF Admit, Serving
  <2> HIDE DEF pc, at, seen
  <2>2. request[j] \in Handler =>
          [request[j] EXCEPT !.pc = pc, !.at = at, !.seen = seen].answer = request[j].answer
    BY DEF Handler
  <2> QED BY <1>b, <2>1, <2>2
<1>3. CASE Guard(j)
  <2>1. request[j] \in Handler =>
          /\ [request[j] EXCEPT !.pc = "store"].answer = request[j].answer
          /\ [request[j] EXCEPT !.pc = "store", !.gives = minted + 1].answer = request[j].answer
    BY DEF Handler
  <2> QED BY <1>3, <1>a, <1>b, <2>1 DEF Guard, Serving, Answer
<1>4. CASE Interval(j)
  <2>1. request[j] \in Handler => [request[j] EXCEPT !.pc = "store"].answer = request[j].answer
    BY DEF Handler
  <2> QED BY <1>4, <1>a, <1>b, <2>1 DEF Interval, Serving, Answer
<1>5. CASE StoreLike(j) \/ StoreReaction(j)
  <2>1. request[j] \in Handler => [request[j] EXCEPT !.pc = "count"].answer = request[j].answer
    BY DEF Handler
  <2> QED BY <1>5, <1>a, <1>b, <2>1 DEF StoreLike, StoreReaction, Serving, Answer
<1>6. CASE StoreFlag(j) \/ Count(j)
  BY <1>6, <1>a DEF StoreFlag, Count, Serving, Answer
<1>7. ASSUME NEW approved \in BOOLEAN, StoreComment(j, approved)
      PROVE  request'[j].answer # "tooquick"
  <2> DEFINE v == IF approved THEN version + 1 ELSE 0
             h == [request[j] EXCEPT !.pc = "answered", !.answer = "ok", !.stored = v]
  <2>1. Becomes(j, h) /\ request[j] # None
    BY <1>7 DEF StoreComment, Serving
  <2> HIDE DEF v
  <2>2. request[j] \in Handler => h.answer = "ok"
    BY DEF Handler
  <2> HIDE DEF h
  <2> QED BY <1>b, <2>1, <2>2
<1>8. CASE ServerFails(j)
  BY <1>8, <1>a DEF ServerFails, Answer
<1> QED BY <1>1, <1>2, <1>3, <1>4, <1>5, <1>6, <1>7, <1>8 DEF HandlerStep

LEMMA WorkerGate ==
  ASSUME Typed, GateInv, NEW j \in Job, HandlerStep(j) \/ ServerFails(j), job' = job
  PROVE  GateInv'
<1>1. now' = now /\ \A i \in Job \ {j} : request'[i] = request[i]
  BY StepTypes, TablesTyped, TypedFacts DEF Typed, Steps
<1>2. ASSUME NEW i \in Job PROVE Gated(job[i], request[i])'
  <2>1. Gated(job[i], request[i])
    BY DEF GateInv
  <2>2. CASE i # j
    BY <1>1, <2>1, <2>2 DEF Gated, WaitTicks
  <2>3. CASE i = j /\ job[j] # None /\ job[j].pc = "sent" /\ Waits(job[j].op)
    <3>1. /\ job[j] \in PendingJob /\ request[j].issued = job[j].issued
          /\ request[j] \in Handler
      BY <2>3, SentFacts DEF At
    <3>2. ASSUME job[j].issued * Second <= job[j].t0 + Margin
          PROVE  request'[j].answer # "tooquick"
      <4>1. ~TooQuick(j)
        <5>1. PICK i0 \in Nat, t0 \in Nat, n \in Nat :
                i0 = job[j].issued /\ t0 = job[j].t0 /\ n = now
          BY <3>1, TypedFacts DEF PendingJob
        <5>2. i0 * Second <= t0 + Margin /\ n >= t0 + (Gate * Second + Margin)
          BY <2>1, <2>3, <3>2, <5>1 DEF Gated, WaitTicks
        <5>3. (i0 + Gate) * Second <= n
          BY <5>2
        <5>4. i0 + Gate <= n \div Second
          BY <5>3
        <5>5. n \div Second \in Nat
          BY <5>1
        <5> QED BY <3>1, <5>1, <5>4, <5>5 DEF TooQuick
      <4> QED BY <2>1, <2>3, <3>2, <4>1, NotTooQuick DEF Gated
    <3> QED BY <1>1, <2>1, <2>3, <3>2 DEF Gated, WaitTicks
  <2> QED BY <2>2, <2>3 DEF Gated
<1> QED BY <1>2 DEF GateInv

LEMMA GateNext ==
  ASSUME Typed, GateInv, [Next]_vars
  PROVE  GateInv'
<1>1. ASSUME NEW j \in Job, VisitorStep(j) \/ ClientStep(j) \/ JobFails(j) \/ Unheard(j)
      PROVE  GateInv'
  BY <1>1, ClientQuiet, QuieterGate, SendGate, TypedFacts
<1>2. ASSUME NEW j \in Job, ServerStep(j) \/ HandlerFails(j) PROVE GateInv'
  BY <1>2, WorkerGate DEF ServerStep, HandlerFails, client
<1>3. CASE \E p \in Page, c \in Comment : CloseReply(p, c)
  <2>1. now' = now /\ \A i \in Job : Quieter(i)
    BY <1>3, TypedFacts DEF CloseReply, Quieter, Detached, server
  <2> QED BY <2>1, QuieterGate, TypedFacts
<1>4. CASE \/ \E c \in Comment, s \in {"approved", "pending", "gone"} : Moderate(c, s) /\ UNCHANGED client
           \/ Tick \/ UNCHANGED vars
  <2>1. now' \in Nat /\ now <= now' /\ UNCHANGED <<job, request>>
    BY <1>4, TypedFacts DEF Moderate, Tick, client, vars, server
  <2> QED BY <2>1, StillQuiet, QuieterGate
<1> QED BY <1>1, <1>2, <1>3, <1>4 DEF Next

LEMMA GateInit == Init => GateInv
BY DEF Init, EngagementInit, GateInv, Gated

\* A form that waits is never refused for its quickness, whatever fractions of a
\* second the two clocks cut off, if its challenge was signed within the margin.
THEOREM FormsPass == Spec => []FormsPassTheGate
<1>1. Spec => []GateInv
  BY GateInit, GateNext, WidgetTyped, PTL DEF Spec
<1>2. GateInv => FormsPassTheGate
  BY DEF GateInv, Gated, FormsPassTheGate, At
<1> QED BY <1>1, <1>2, PTL

-----------------------------------------------------------------------------
(* The order of the lists.                                                 *)

\* A load knows no later list than v, and one made for this browser has brought
\* one that is no older than what the page knew.
Recent(b, v) ==
  b # None =>
    /\ b.since <= v /\ b.version <= v
    /\ b.token # NoToken /\ b.pc \in {"voted", "render"} => b.version >= b.since

ListInv ==
  /\ \A p \in Page : page[p].version <= version
  /\ \A j \in Job : request[j] # None => request[j].stored <= version
  /\ \A j \in Job : Recent(job[j], version)

\* A page has the list it had, or that of a job; an answer tells what was stored.
PagesRecent == \A p \in Page : page'[p].version <= version'

JobRecent(j) ==
  \/ job'[j] = None \/ Recent(job'[j], version')
  \/ job[j] # None /\ job'[j] \in {job[j], Detached(job[j])}

RequestRecent(j) ==
  request'[j] = request[j] \/ request'[j] = None \/ request'[j].stored <= version'

LEMMA RecentLater ==
  ASSUME NEW b \in PendingJob, NEW v \in Nat, NEW w \in Nat, v <= w, Recent(b, v)
  PROVE  Recent(b, w) /\ Recent(Detached(b), w)
<1>1. b.since \in Nat /\ b.version \in Nat /\ b # None
  BY DEF PendingJob
<1>2. Recent(b, w)
  BY <1>1 DEF Recent
<1>3. Recent(Detached(b), w)
  BY <1>1, <1>2, DetachedFields DEF Recent
<1> QED BY <1>2, <1>3

LEMMA ListKept ==
  ASSUME Typed, ListInv, version' \in Nat, version <= version', PagesRecent,
         \A j \in Job : JobRecent(j) /\ RequestRecent(j)
  PROVE  ListInv'
<1>1. ASSUME NEW j \in Job PROVE Recent(job'[j], version')
  <2>1. CASE job[j] # None /\ job'[j] \in {job[j], Detached(job[j])}
    BY <2>1, RecentLater, TypedFacts DEF ListInv
  <2>2. CASE job'[j] = None \/ Recent(job'[j], version')
    BY <2>2 DEF Recent
  <2> QED BY <2>1, <2>2 DEF JobRecent
<1>2. ASSUME NEW j \in Job, request'[j] # None PROVE request'[j].stored <= version'
  <2>1. CASE request'[j] = request[j]
    <3>1. request[j].stored \in Nat /\ request[j].stored <= version
      BY <1>2, <2>1, TypedFacts DEF Handler, ListInv
    <3> QED BY <2>1, <3>1, TypedFacts
  <2> QED BY <1>2, <2>1 DEF RequestRecent
<1> QED BY <1>1, <1>2 DEF ListInv, PagesRecent, Recent

\* A load that begins knows the list of its page and what it is to show.
LEMMA LoadsRecent ==
  ASSUME Typed, ListInv, NEW p \in Page, NEW op \in Post \cup {"load"},
         NEW c \in Comment \cup {None}, NEW expected \in Nat, expected <= version
  PROVE  Recent(Loads(p, op, c, expected), version)
<1>1. page[p].version \in Nat /\ page[p].version <= version /\ version \in Nat
  BY TypedFacts DEF ListInv, PageView
<1>2. /\ Loads(p, op, c, expected).version = 0 /\ Loads(p, op, c, expected).pc = "list"
      /\ Loads(p, op, c, expected).since =
           (IF expected > page[p].version THEN expected ELSE page[p].version)
  BY DEF Loads
<1> QED BY <1>1, <1>2 DEF Recent

\* A page changes, but not its list.
LEMMA SameList ==
  ASSUME Typed, ListInv, version' = version, \A p \in Page : page'[p].version = page[p].version
  PROVE  PagesRecent
BY DEF PagesRecent, ListInv

LEMMA TurnRecent ==
  ASSUME Typed, NEW j \in Job, NEW b, Turns(j, b), b = None \/ Recent(b, version),
         request' = request \/ Clears(j), version' = version
  PROVE  \A i \in Job : JobRecent(i) /\ RequestRecent(i)
<1>1. job'[j] = b /\ \A i \in Job \ {j} : job'[i] = job[i] /\ request'[i] = request[i]
  BY TypedFacts DEF Turns, Clears
<1>2. request'[j] \in {request[j], None}
  BY TypedFacts DEF Clears
<1> QED BY <1>1, <1>2 DEF JobRecent, RequestRecent

LEMMA RearrangedRecent ==
  ASSUME Typed, NEW j \in Job, NEW b, Rearranged(j, b), b = None \/ Recent(b, version),
         request' = request, version' = version
  PROVE  \A i \in Job : JobRecent(i) /\ RequestRecent(i)
<1>1. ASSUME NEW i \in Job PROVE JobRecent(i) /\ RequestRecent(i)
  <2>1. CASE i = j
    BY <2>1 DEF Rearranged, JobRecent, RequestRecent
  <2>2. CASE i # j
    BY <2>2 DEF Rearranged, JobRecent, RequestRecent
  <2> QED BY <2>1, <2>2
<1> QED BY <1>1

LEMMA VisitorList ==
  ASSUME Typed, ListInv, NEW j \in Job, VisitorStep(j)
  PROVE  ListInv'
<1>0. version \in Nat /\ 0 <= version /\ page \in [Page -> PageView]
      /\ \A p \in Page : page[p] \in PageView
  BY TypedFacts
<1>1. ASSUME NEW p \in Page, NEW op \in Post, NEW c \in Comment \cup {None}, Click(j, p, op, c)
      PROVE  ListInv'
  <2> DEFINE l == Loads(p, op, c, 0)
             b == [l EXCEPT !.pc = "ask", !.t0 = now]
  <2>1. l \in PendingJob /\ Recent(l, version)
    BY <1>0, LoadsAnew, LoadsRecent
  <2>2. Turns(j, b) /\ request' = request /\ version' = version
    BY <1>1 DEF Click, server
  <2>3. page' = [page EXCEPT ![p].disabled = @ \cup {[op |-> op, comment |-> c]}]
    BY <1>1 DEF Click
  <2> HIDE DEF l
  <2>4. Recent(b, version)
    BY <2>1 DEF PendingJob, Recent
  <2> HIDE DEF b
  <2>5. \A q \in Page : page'[q].version = page[q].version
    BY <1>0, <2>3 DEF PageView
  <2> QED BY <1>0, <2>2, <2>4, <2>5, TurnRecent, SameList, ListKept
<1>2. ASSUME NEW p \in Page, Open(j, p) PROVE ListInv'
  <2> DEFINE l == Loads(p, "load", None, 0)
             b == [l EXCEPT !.token = kept, !.since = 0]
  <2>1. l \in PendingJob /\ l.pc = "list" /\ Recent(l, version)
    BY <1>0, LoadsAnew, LoadsRecent
  <2>2. Rearranged(j, b) /\ request' = request /\ version' = version
    BY <1>2 DEF Open, Rearranged, server
  <2> HIDE DEF l
  <2>3. Recent(b, version)
    BY <1>0, <2>1 DEF PendingJob, Recent
  <2> HIDE DEF b
  <2>4. ASSUME NEW q \in Page PROVE page'[q].version <= version
    <3>1. page' = [page EXCEPT ![p] = Fresh(kept)] /\ Fresh(kept).version = 0
      BY <1>2 DEF Open, Fresh
    <3> QED BY <1>0, <3>1 DEF ListInv
  <2>5. PagesRecent
    BY <2>2, <2>4 DEF PagesRecent
  <2> QED BY <1>0, <2>2, <2>3, <2>5, RearrangedRecent, ListKept
<1>3. ASSUME NEW p \in Page, Sort(j, p) PROVE ListInv'
  <2>1. Recent(Loads(p, "load", None, 0), version)
    BY <1>0, LoadsRecent
  <2>2. Turns(j, Loads(p, "load", None, 0)) /\ request' = request /\ version' = version
        /\ page' = page
    BY <1>3 DEF Sort, server
  <2> QED BY <1>0, <2>1, <2>2, TurnRecent, SameList, ListKept
<1> QED BY <1>1, <1>2, <1>3 DEF VisitorStep

\* Before a load begins its job knows no list at all.
LEMMA AskingList ==
  ASSUME Typed, ListInv, NEW j \in Job, Issue(j) \/ Solved(j) \/ GateOver(j)
  PROVE  ListInv'
<1>0. version \in Nat /\ version' = version /\ page' = page
  BY TypedFacts DEF Issue, Solved, GateOver, Send, server, tables
<1>1. job[j] \in PendingJob /\ job[j].pc \notin {"voted", "render"} /\ Recent(job[j], version)
      /\ job[j] # None
  BY AtFacts DEF Issue, Solved, GateOver, ListInv
<1>2. ASSUME NEW b, Turns(j, b), b \in {[job[j] EXCEPT !.pc = "wait"], [job[j] EXCEPT !.pc = "sent"]}
                \/ b = [job[j] EXCEPT !.pc = "solve", !.issued = now \div Second]
      PROVE  \A i \in Job : JobRecent(i)
  <2>1. Recent(b, version)
    BY <1>1, <1>2 DEF PendingJob, Recent
  <2> HIDE DEF Recent
  <2>2. job'[j] = b /\ \A i \in Job \ {j} : job'[i] = job[i]
    BY <1>2, TypedFacts DEF Turns
  <2>3. \A i \in Job \ {j} : JobRecent(i)
    BY <2>2 DEF JobRecent
  <2> QED BY <1>0, <2>1, <2>2, <2>3 DEF JobRecent
<1>3. \A i \in Job : JobRecent(i)
  BY <1>2 DEF Issue, Solved, GateOver, Send
<1>4. \A i \in Job : RequestRecent(i)
  <2>1. CASE request' = request
    BY <2>1 DEF RequestRecent
  <2>2. CASE Send(j)
    <3> DEFINE h == NewHandler(job[j].op, job[j].comment,
                      IF job[j].op = "like" THEN page[job[j].page].token ELSE NoToken,
                      job[j].issued)
    <3>1. request' = [request EXCEPT ![j] = h]
      BY <2>2 DEF Send
    <3>2. h.stored = 0
      BY DEF NewHandler
    <3> HIDE DEF h
    <3>3. request'[j] = h /\ \A i \in Job \ {j} : request'[i] = request[i]
      BY <3>1, TypedFacts
    <3> QED BY <1>0, <3>2, <3>3 DEF RequestRecent
  <2> QED BY <2>1, <2>2 DEF Issue, Solved, GateOver, server
<1> QED BY <1>0, <1>3, <1>4, SameList, ListKept

LEMMA AnsweredList ==
  ASSUME Typed, ListInv, NEW j \in Job,
         LikeAnswered(j) \/ FlagAnswered(j) \/ ReactionAnswered(j) \/ CommentAnswered(j)
  PROVE  ListInv'
<1>0. version \in Nat /\ version' = version /\ page \in [Page -> PageView]
      /\ \A p \in Page : page[p] \in PageView
  BY TypedFacts DEF LikeAnswered, FlagAnswered, ReactionAnswered, CommentAnswered, tables
<1>1. /\ job[j] \in PendingJob /\ job[j].page \in Page /\ request[j] \in Handler
      /\ Clears(j) /\ request[j].stored <= version /\ request[j].stored \in Nat
  <2>1. At(j, "sent") /\ Answered(j) /\ Clears(j)
    BY DEF LikeAnswered, FlagAnswered, ReactionAnswered, CommentAnswered
  <2>2. request[j] # None
    BY <2>1 DEF Answered, Serving
  <2> QED BY <2>1, <2>2, SentFacts DEF ListInv, Handler
<1>2. \A p \in Page : page'[p].version = page[p].version
  <2>1. CASE LikeAnswered(j)
    <3>1. ASSUME NEW p \in Page PROVE page'[p].version = page[p].version
      <4>1. ASSUME NEW t, NEW v, NEW d
            PROVE  [page[p] EXCEPT !.token = t, !.voted = v, !.disabled = d].version = page[p].version
        BY <1>0 DEF PageView
      <4>2. ASSUME NEW x PROVE [page[p] EXCEPT !.behind = x].version = page[p].version
        BY <1>0 DEF PageView
      <4>3. \/ \E t, v, d : page'[p] = [page[p] EXCEPT !.token = t, !.voted = v, !.disabled = d]
            \/ \E x : page'[p] = [page[p] EXCEPT !.behind = x]
        BY <2>1, Zenon DEF LikeAnswered
      <4>4. CASE \E x : page'[p] = [page[p] EXCEPT !.behind = x]
        <5>1. PICK x : page'[p] = [page[p] EXCEPT !.behind = x]
          BY <4>4
        <5> QED BY <4>2, <5>1
      <4>5. CASE \E t, v, d : page'[p] = [page[p] EXCEPT !.token = t, !.voted = v, !.disabled = d]
        <5>1. PICK t, v, d : page'[p] = [page[p] EXCEPT !.token = t, !.voted = v, !.disabled = d]
          BY <4>5
        <5> QED BY <4>1, <5>1
      <4> QED BY <4>3, <4>4, <4>5
    <3> QED BY <3>1
  <2>2. CASE FlagAnswered(j)
    <3>1. \E d, f : page' = [page EXCEPT ![job[j].page].disabled = d, ![job[j].page].flagged = f]
      BY <2>2, Zenon DEF FlagAnswered
    <3>2. PICK d, f : page' = [page EXCEPT ![job[j].page].disabled = d, ![job[j].page].flagged = f]
      BY <3>1
    <3>3. ASSUME NEW p \in Page PROVE page'[p].version = page[p].version
      <4>1. page[p] \in PageView
        BY <1>0
      <4> QED BY <1>0, <1>1, <3>2, <4>1 DEF PageView
    <3> QED BY <3>3
  <2>3. CASE ReactionAnswered(j) \/ CommentAnswered(j)
    <3>1. page' = page \/ \E d : page' = [page EXCEPT ![job[j].page].disabled = d]
      BY <2>3 DEF ReactionAnswered, CommentAnswered
    <3>2. ASSUME NEW d, page' = [page EXCEPT ![job[j].page].disabled = d], NEW p \in Page
          PROVE  page'[p].version = page[p].version
      <4>1. page[p] \in PageView
        BY <1>0
      <4> QED BY <1>0, <1>1, <3>2, <4>1 DEF PageView
    <3> QED BY <3>1, <3>2
  <2> QED BY <2>1, <2>2, <2>3
<1>3. \E b : Turns(j, b) /\ (b = None \/ Recent(b, version))
  <2>1. CASE CommentAnswered(j) /\ request[j].answer = "ok"
    <3>1. PICK l : l = Loads(job[j].page, job[j].op, job[j].comment, request[j].stored)
      OBVIOUS
    <3>2. job[j].op \in Post \cup {"load"} /\ job[j].comment \in Comment \cup {None}
      BY <1>1 DEF PendingJob
    <3>3. l \in PendingJob /\ Recent(l, version)
      BY <1>1, <3>1, <3>2, LoadsTyped, LoadsRecent
    <3>4. Turns(j, [l EXCEPT !.attached = job[j].attached])
      BY <2>1, <3>1 DEF CommentAnswered
    <3>5. Recent([l EXCEPT !.attached = job[j].attached], version)
      BY <3>3 DEF PendingJob, Recent
    <3> QED BY <3>4, <3>5
  <2>2. CASE ~(CommentAnswered(j) /\ request[j].answer = "ok")
    BY <2>2 DEF LikeAnswered, FlagAnswered, ReactionAnswered, CommentAnswered
  <2> QED BY <2>1, <2>2
<1> QED BY <1>0, <1>1, <1>2, <1>3, TurnRecent, SameList, ListKept

\* The list for this browser is read now, and what the page knew came before.
LEMMA ReadingList ==
  ASSUME Typed, ListInv, NEW j \in Job, ReadCached(j) \/ ReadList(j) \/ ReadVoted(j)
  PROVE  ListInv'
<1>0. version \in Nat /\ version' = version /\ page' = page /\ request' = request
  BY TypedFacts DEF ReadCached, ReadList, ReadVoted, server
<1>1. /\ job[j] \in PendingJob /\ job[j] # None /\ Recent(job[j], version)
      /\ job[j].since \in Nat /\ job[j].since <= version
      /\ job[j].version \in Nat /\ job[j].version <= version
  <2>1. job[j] \in PendingJob /\ job[j] # None /\ Recent(job[j], version)
    BY AtFacts DEF ReadCached, ReadList, ReadVoted, ListInv
  <2> QED BY <2>1 DEF PendingJob, Recent
<1>2. \E b : Turns(j, b) /\ Recent(b, version)
  <2>1. CASE ReadCached(j)
    <3>1. PICK v \in 0..version, s \in SUBSET Comment :
            Turns(j, [job[j] EXCEPT !.pc = "render", !.version = v, !.shown = s])
      BY <2>1 DEF ReadCached
    <3>2. PICK b : b = [job[j] EXCEPT !.pc = "render", !.version = v, !.shown = s]
      OBVIOUS
    <3>3. b.since = job[j].since /\ b.version = v /\ b.token = job[j].token
      BY <1>1, <3>2 DEF PendingJob
    <3>4. v <= version
      BY <1>0, <3>1
    <3>5. job[j].token = NoToken
      BY <2>1, Zenon DEF ReadCached, Personal
    <3>6. Recent(b, version)
      BY <1>0, <1>1, <3>3, <3>4, <3>5 DEF Recent
    <3> QED BY <3>1, <3>2, <3>6
  <2>2. CASE ReadList(j)
    <3> DEFINE s == {c \in Comment : status[c] = "approved"}
               b == [job[j] EXCEPT !.pc = "voted", !.version = version, !.shown = s]
    <3>1. Turns(j, b)
      BY <2>2 DEF ReadList
    <3> HIDE DEF s
    <3>2. b.since = job[j].since /\ b.version = version
      BY <1>1 DEF PendingJob
    <3> HIDE DEF b
    <3>3. Recent(b, version)
      BY <1>0, <1>1, <3>2 DEF Recent
    <3> QED BY <3>1, <3>3
  <2>3. CASE ReadVoted(j)
    <3> DEFINE s == {c \in job[j].shown : Liked(c, job[j].token)}
               b == [job[j] EXCEPT !.pc = "render", !.voted = s]
    <3>1. Turns(j, b)
      BY <2>3 DEF ReadVoted
    <3>2. job[j].pc = "voted"
      BY <2>3 DEF ReadVoted, At
    <3> HIDE DEF s
    <3>3. b.since = job[j].since /\ b.version = job[j].version /\ b.token = job[j].token
      BY <1>1 DEF PendingJob
    <3> HIDE DEF b
    <3>4. Recent(b, version)
      BY <1>0, <1>1, <3>2, <3>3 DEF Recent
    <3> QED BY <3>1, <3>4
  <2> QED BY <2>1, <2>2, <2>3
<1> QED BY <1>0, <1>2, TurnRecent, SameList, ListKept

\* What is drawn was read before.
LEMMA RenderList ==
  ASSUME Typed, ListInv, NEW j \in Job, Render(j)
  PROVE  ListInv'
<1>0. version \in Nat /\ version' = version /\ request' = request
      /\ page \in [Page -> PageView] /\ \A p \in Page : page[p] \in PageView
  BY TypedFacts DEF Render, server
<1>1. job[j] \in PendingJob /\ job[j] # None /\ job[j].page \in Page /\ job[j].version <= version
  BY AtFacts DEF Render, ListInv, Recent, PendingJob
<1>2. ASSUME NEW q \in Page PROVE page'[q].version <= version
  <2> DEFINE p == job[j].page
             d == {k \in Enabled(job[j], TRUE) : ~OfList(k)}
             w == [page[p] EXCEPT !.version = job[j].version, !.shown = job[j].shown,
                                  !.voted = job[j].voted, !.flagged = {}, !.disabled = d]
  <2>1. page' = [page EXCEPT ![p] = w]
    BY DEF Render
  <2> HIDE DEF d
  <2>2. w.version = job[j].version
    BY <1>0, <1>1 DEF PageView
  <2> HIDE DEF w
  <2> QED BY <1>0, <1>1, <2>1, <2>2 DEF ListInv
<1>3. PagesRecent
  BY <1>0, <1>2 DEF PagesRecent
<1>4. Rearranged(j, None)
  BY DEF Render, Rearranged, Detached
<1> QED BY <1>0, <1>3, <1>4, RearrangedRecent, ListKept

LEMMA FailedList ==
  ASSUME Typed, ListInv, NEW j \in Job, JobFails(j) \/ Unheard(j)
  PROVE  ListInv'
<1>0. version \in Nat /\ version' = version /\ page \in [Page -> PageView]
      /\ \A p \in Page : page[p] \in PageView
  BY TypedFacts DEF JobFails, Unheard, server, tables
<1>1. \A i \in Job : JobRecent(i) /\ RequestRecent(i)
  <2>1. CASE JobFails(j)
    BY <1>0, <2>1, TurnRecent DEF JobFails, server
  <2>2. CASE Unheard(j)
    <3>1. Turns(j, job[j]) /\ job[j] = None
      BY <2>2, TypedFacts DEF Unheard, Turns, client
    <3> QED BY <1>0, <2>2, <3>1, TurnRecent DEF Unheard
  <2> QED BY <2>1, <2>2
<1>2. page' = page \/ \E d : page' = [page EXCEPT ![job[j].page].disabled = d]
  BY DEF JobFails, Unheard, client
<1>3. \A p \in Page : page'[p].version = page[p].version
  <2>1. job[j] # None => job[j].page \in Page
    BY TypedFacts DEF PendingJob
  <2> QED BY <1>0, <1>2, <2>1 DEF PageView, Unheard, client, JobFails
<1> QED BY <1>0, <1>1, <1>3, SameList, ListKept

\* What the Worker stores changes the list first, and is answered after that.
LEMMA StoredRecent ==
  ASSUME Typed, ListInv, NEW j \in Job, HandlerStep(j) \/ ServerFails(j)
  PROVE  request'[j].stored <= version'
<1>0. /\ request[j] # None /\ request[j] \in Handler
      /\ request[j].stored \in Nat /\ request[j].stored <= version
      /\ version \in Nat /\ version' \in Nat /\ version <= version'
  <2>1. request[j] # None
    BY DEF HandlerStep, ServerFails, Serving, LookUp, Admit, Guard, Interval, StoreLike, StoreFlag,
           StoreReaction, Count, StoreComment
  <2> QED BY <2>1, TypedFacts, TablesTyped DEF Typed, ListInv, Handler
<1>a. ASSUME NEW h, Becomes(j, h), h.stored = request[j].stored
      PROVE  request'[j].stored <= version'
  BY <1>0, <1>a, TypedFacts DEF Becomes
<1>b. ASSUME NEW a, Answers(j, a) PROVE request'[j].stored <= version'
  <2> DEFINE g == IF a = "ok" THEN request[j].gives ELSE NoToken
             h == [request[j] EXCEPT !.pc = "answered", !.answer = a, !.gives = g]
  <2>1. Becomes(j, h)
    BY <1>0, <1>b DEF Answers, Handler
  <2> HIDE DEF g
  <2>2. h.stored = request[j].stored
    BY <1>0 DEF Handler
  <2> HIDE DEF h
  <2> QED BY <2>1, <2>2, <1>a
<1>c. ASSUME NEW pc PROVE [request[j] EXCEPT !.pc = pc].stored = request[j].stored
  BY <1>0 DEF Handler
<1>1. CASE LookUp(j) \/ Interval(j) \/ StoreLike(j) \/ StoreFlag(j) \/ StoreReaction(j)
           \/ Count(j) \/ ServerFails(j)
  BY <1>1, <1>a, <1>b, <1>c
     DEF LookUp, Interval, StoreLike, StoreFlag, StoreReaction, Count, ServerFails
<1>2. CASE Admit(j)
  <2> DEFINE pc == AfterGate[request[j].op]  at == now \div Second  seen == Len(reactions)
             h == [request[j] EXCEPT !.pc = pc, !.at = at, !.seen = seen]
  <2>1. Becomes(j, h) \/ Answers(j, "tooquick")
    BY <1>2 DEF Admit
  <2> HIDE DEF pc, at, seen
  <2>2. h.stored = request[j].stored
    BY <1>0 DEF Handler
  <2> HIDE DEF h
  <2> QED BY <2>1, <2>2, <1>a, <1>b
<1>3. CASE Guard(j)
  <2>1. [request[j] EXCEPT !.pc = "store", !.gives = minted + 1].stored = request[j].stored
    BY <1>0 DEF Handler
  <2> QED BY <1>3, <2>1, <1>a, <1>b, <1>c DEF Guard
<1>4. ASSUME NEW approved \in BOOLEAN, StoreComment(j, approved)
      PROVE  request'[j].stored <= version'
  <2> DEFINE v == IF approved THEN version + 1 ELSE 0
             h == [request[j] EXCEPT !.pc = "answered", !.answer = "ok", !.stored = v]
  <2>1. Becomes(j, h) /\ v <= version'
    BY <1>0, <1>4 DEF StoreComment
  <2> HIDE DEF v
  <2>2. h.stored = v
    BY <1>0 DEF Handler
  <2> HIDE DEF h
  <2>3. request'[j] = h
    BY <2>1, TypedFacts DEF Becomes
  <2> QED BY <2>1, <2>2, <2>3
<1> QED BY <1>1, <1>2, <1>3, <1>4 DEF HandlerStep

LEMMA WorkerList ==
  ASSUME Typed, ListInv, NEW j \in Job, HandlerStep(j) \/ ServerFails(j),
         UNCHANGED <<page, job>>
  PROVE  ListInv'
<1>1. version \in Nat /\ version' \in Nat /\ version <= version'
  BY TypedFacts, TablesTyped DEF Typed
<1>2. \A i \in Job \ {j} : request'[i] = request[i]
  BY StepTypes, TypedFacts DEF Typed, Steps
<1>3. \A i \in Job : RequestRecent(i)
  BY <1>2, StoredRecent DEF RequestRecent
<1>4. \A i \in Job : JobRecent(i)
  BY DEF JobRecent
<1>5. PagesRecent
  <2>1. ASSUME NEW p \in Page PROVE page[p].version <= version'
    <3>1. page[p].version \in Nat /\ page[p].version <= version
      BY TypedFacts DEF PageView, ListInv
    <3> QED BY <1>1, <3>1
  <2> QED BY <2>1 DEF PagesRecent
<1> QED BY <1>1, <1>3, <1>4, <1>5, ListKept

LEMMA ListNext ==
  ASSUME Typed, ListInv, [Next]_vars
  PROVE  ListInv'
<1>1. ASSUME NEW j \in Job, VisitorStep(j) \/ ClientStep(j) \/ JobFails(j) \/ Unheard(j)
      PROVE  ListInv'
  BY <1>1, VisitorList, AskingList, AnsweredList, ReadingList, RenderList, FailedList
     DEF ClientStep
<1>2. ASSUME NEW j \in Job, ServerStep(j) \/ HandlerFails(j) PROVE ListInv'
  BY <1>2, WorkerList DEF ServerStep, HandlerFails, client
<1>3. CASE \/ \E p \in Page, c \in Comment : CloseReply(p, c)
           \/ \E c \in Comment, s \in {"approved", "pending", "gone"} : Moderate(c, s) /\ UNCHANGED client
           \/ Tick \/ UNCHANGED vars
  <2>1. version \in Nat /\ version' \in Nat /\ version <= version' /\ request' = request
        /\ page \in [Page -> PageView] /\ \A p \in Page : page[p] \in PageView
    <3>1. version \in Nat /\ version' \in {version, version + 1} /\ request' = request
      BY <1>3, TypedFacts, Zenon DEF CloseReply, Moderate, Tick, server, client, vars, tables
    <3> QED BY <3>1, TypedFacts
  <2>2. \A i \in Job : JobRecent(i) /\ RequestRecent(i)
    BY <1>3, <2>1, TypedFacts
       DEF CloseReply, Moderate, Tick, client, vars, JobRecent, RequestRecent, Detached
  <2>3. page' = page \/ \E p \in Page : \E d : page' = [page EXCEPT ![p].disabled = d]
    BY <1>3 DEF CloseReply, Tick, client, vars
  <2>4. ASSUME NEW q \in Page PROVE page'[q].version = page[q].version
    <3>1. ASSUME NEW p \in Page, NEW d, page' = [page EXCEPT ![p].disabled = d]
          PROVE  page'[q].version = page[q].version
      BY <2>1, <3>1 DEF PageView
    <3> QED BY <2>3, <3>1
  <2>5. PagesRecent
    <3>1. ASSUME NEW q \in Page PROVE page'[q].version <= version'
      <4>1. page[q].version \in Nat /\ page[q].version <= version
        BY <2>1 DEF PageView, ListInv
      <4> QED BY <2>1, <2>4, <4>1
    <3> QED BY <3>1 DEF PagesRecent
  <2> QED BY <2>1, <2>2, <2>5, ListKept
<1> QED BY <1>1, <1>2, <1>3 DEF Next

LEMMA ListInit == Init => ListInv
<1>1. [Fresh(NoToken) EXCEPT !.shown = Comment].version = 0
  BY DEF Fresh
<1>2. ASSUME Init
      PROVE  /\ version = 0 /\ \A p \in Page : page[p].version = 0
             /\ \A j \in Job : job[j] = None /\ request[j] = None
  BY <1>1, <1>2 DEF Init, EngagementInit
<1> QED BY <1>2 DEF ListInv, Recent

\* A list made for this browser is never older than the one that was on the page
\* when its load began, nor than the comment it was loaded to show; what the
\* caches and the other loads do meanwhile makes no difference.
THEOREM ListsInOrder == Spec => ListNeverGoesBack
<1>1. Spec => []ListInv
  BY ListInit, ListNext, WidgetTyped, PTL DEF Spec
<1>2. ListInv => [\A j \in Job :
         Shows(j) /\ job[j].token # NoToken => job[j].version >= job[j].since]_vars
  BY DEF ListInv, Recent, Shows, At
<1> QED BY <1>1, <1>2, PTL DEF ListNeverGoesBack

-----------------------------------------------------------------------------
(* One browser, one voter.                                                 *)

Liking(h) == h # None /\ h.op = "like"

Row(h) == [comment |-> h.comment, voter |-> VoterOf(h)]

Counted(h) == h.pc = "count" \/ (h.pc = "answered" /\ h.answer = "ok")

\* A page has the kept token, or has missed it.
PageSolo(v) ==
  /\ v.token \in {NoToken, kept}
  /\ v.token = NoToken /\ kept # NoToken => v.behind

\* A like is sent with the kept token, and its answer is waited for.
LikeSolo(j) ==
  Liking(request[j]) =>
    /\ job[j] # None /\ job[j].pc = "sent"
    /\ request[j].token = kept
    /\ Counted(request[j]) => Row(request[j]) \in likes

\* A like is the kept voter's, or that of the like that will bring the token.
RowSolo(l) ==
  /\ kept # NoToken => l.voter = kept
  /\ kept = NoToken => \E j \in Job :
       /\ Liking(request[j]) /\ request[j].pc \in {"count", "answered"}
       /\ request[j].gives = l.voter

\* A list made for this browser has the likes it was told of.
JobSolo(b) ==
  b # None =>
    /\ b.liked \subseteq liked
    /\ b.token # NoToken => b.token = kept
    /\ b.token # NoToken /\ b.pc = "render" => b.liked \cap b.shown \subseteq b.voted

Solo ==
  /\ \A p \in Page : PageSolo(page[p])
  /\ \A j \in Job : LikeSolo(j)
  /\ kept = NoToken => \A i, j \in Job : Liking(request[i]) /\ Liking(request[j]) => i = j
  /\ \A l \in likes : RowSolo(l)
  /\ \A j \in Job : JobSolo(job[j])
  /\ \A c \in liked : kept # NoToken /\ Liked(c, kept)

SoloInv == excuse = {} => Solo

\* Steps that do not concern likes: the pages, jobs and handlers after them.
PageApart(p) ==
  \/ page'[p].token = page[p].token /\ page'[p].behind = page[p].behind
  \/ page'[p].token = kept

HandlerApart(j) ==
  \/ request'[j] = request[j] /\ (Liking(request[j]) => job'[j] \in {job[j], Detached(job[j])})
  \/ ~Liking(request[j]) /\ ~Liking(request'[j])

JobApart(j) ==
  \/ job'[j] = None \/ JobSolo(job'[j])
  \/ job[j] # None /\ job'[j] \in {job[j], Detached(job[j])}

LEMMA DetachedSolo ==
  ASSUME NEW b \in PendingJob, JobSolo(b)
  PROVE  JobSolo(Detached(b))
<1>1. b # None
  OBVIOUS
<1> QED BY <1>1, DetachedFields DEF JobSolo

LEMMA ApartSolo ==
  ASSUME Typed, Solo, UNCHANGED <<kept, likes, liked>>,
         \A p \in Page : PageApart(p), \A j \in Job : HandlerApart(j) /\ JobApart(j)
  PROVE  Solo'
<1>1. ASSUME NEW p \in Page PROVE PageSolo(page[p])'
  BY DEF Solo, PageSolo, PageApart
<1>2. ASSUME NEW j \in Job, Liking(request'[j])
      PROVE  request'[j] = request[j] /\ job'[j] \in {job[j], Detached(job[j])}
  BY <1>2 DEF HandlerApart
<1>3. ASSUME NEW j \in Job PROVE LikeSolo(j)'
  <2>1. CASE ~Liking(request'[j])
    BY <2>1 DEF LikeSolo, Liking
  <2>2. CASE Liking(request'[j])
    <3>1. request'[j] = request[j] /\ LikeSolo(j) /\ Liking(request[j])
          /\ job'[j] \in {job[j], Detached(job[j])}
      BY <1>2, <2>2 DEF Solo
    <3>2. job'[j] # None /\ job'[j].pc = "sent"
      BY <3>1, DetachedFields, TypedFacts DEF LikeSolo
    <3> QED BY <3>1, <3>2 DEF LikeSolo, Counted, Row, VoterOf
  <2> QED BY <2>1, <2>2
<1>4. ASSUME kept' = NoToken, NEW i \in Job, NEW j \in Job,
             Liking(request'[i]), Liking(request'[j])
      PROVE  i = j
  BY <1>2, <1>4 DEF Solo
<1>5. ASSUME NEW l \in likes' PROVE RowSolo(l)'
  <2>1. RowSolo(l) /\ kept' = kept
    BY DEF Solo
  <2>2. ASSUME NEW j \in Job, Liking(request[j]) PROVE request'[j] = request[j]
    BY <2>2 DEF HandlerApart
  <2> QED BY <2>1, <2>2 DEF RowSolo, Liking
<1>6. ASSUME NEW j \in Job PROVE JobSolo(job[j])'
  <2>1. JobSolo(job'[j])
    <3>1. CASE job[j] # None /\ job'[j] \in {job[j], Detached(job[j])}
      BY <3>1, DetachedSolo, TypedFacts DEF Solo
    <3>2. CASE job'[j] = None \/ JobSolo(job'[j])
      BY <3>2 DEF JobSolo
    <3> QED BY <3>1, <3>2 DEF JobApart
  <2> QED BY <2>1 DEF JobSolo
<1>7. \A c \in liked' : kept' # NoToken /\ Liked(c, kept)'
  BY DEF Solo, Liked
<1> QED BY <1>1, <1>3, <1>4, <1>5, <1>6, <1>7 DEF Solo, Liking

\* A like moves on in the Worker, before anything is stored or after.
LEMMA LikeMoves ==
  ASSUME Typed, Solo, UNCHANGED <<kept, likes, liked, page, job>>,
         NEW j \in Job, Liking(request[j]), NEW h, Liking(h),
         request' = [request EXCEPT ![j] = h], h.token = request[j].token,
         request[j].pc \in {"count", "answered"} =>
           h.pc \in {"count", "answered"} /\ h.gives = request[j].gives,
         Counted(h) => Row(h) \in likes
  PROVE  Solo'
<1>1. request'[j] = h /\ \A i \in Job \ {j} : request'[i] = request[i]
  BY TypedFacts
<1>2. \A i \in Job : Liking(request'[i]) <=> Liking(request[i])
  BY <1>1
<1>3. ASSUME NEW i \in Job PROVE LikeSolo(i)'
  <2>1. LikeSolo(i)
    BY DEF Solo
  <2>2. CASE i # j
    BY <1>1, <2>1, <2>2 DEF LikeSolo, Counted, Row, VoterOf, Liking
  <2>3. CASE i = j
    <3>1. Counted(h)' <=> Counted(h)
      BY DEF Counted
    <3>2. job'[j] # None /\ job'[j].pc = "sent" /\ request'[j].token = kept'
      BY <1>1, <2>1, <2>3 DEF LikeSolo
    <3>3. Counted(request'[j]) => Row(request'[j]) \in likes'
      BY <1>1
    <3> QED BY <2>3, <3>2, <3>3 DEF LikeSolo, Counted, Row, VoterOf
  <2> QED BY <2>2, <2>3
<1>4. ASSUME NEW l \in likes PROVE RowSolo(l)'
  <2>1. RowSolo(l) /\ kept' = kept
    BY DEF Solo
  <2>2. ASSUME kept = NoToken
        PROVE  \E i \in Job : /\ Liking(request'[i]) /\ request'[i].pc \in {"count", "answered"}
                              /\ request'[i].gives = l.voter
    <3>1. PICK i \in Job : /\ Liking(request[i]) /\ request[i].pc \in {"count", "answered"}
                           /\ request[i].gives = l.voter
      BY <2>1, <2>2 DEF RowSolo
    <3>2. CASE i = j
      BY <1>1, <1>2, <3>1, <3>2
    <3>3. CASE i # j
      BY <1>1, <3>1, <3>3
    <3> QED BY <3>2, <3>3
  <2> QED BY <2>1, <2>2 DEF RowSolo, Liking
<1>5. ASSUME kept' = NoToken, NEW i \in Job, NEW k \in Job,
             Liking(request'[i]), Liking(request'[k])
      PROVE  i = k
  BY <1>2, <1>5 DEF Solo
<1>6. \A p \in Page : PageSolo(page[p])'
  BY DEF Solo, PageSolo
<1>7. \A i \in Job : JobSolo(job[i])'
  BY DEF Solo, JobSolo
<1>8. \A c \in liked' : kept' # NoToken /\ Liked(c, kept)'
  BY DEF Solo, Liked
<1> QED BY <1>3, <1>4, <1>5, <1>6, <1>7, <1>8 DEF Solo, Liking

\* A like that nobody is waiting to be told of yet: there is no other to be told of.
LEMMA NoneStored ==
  ASSUME Solo, NEW j \in Job, Liking(request[j]), kept = NoToken,
         request[j].pc \notin {"count", "answered"} \/ request[j].gives = NoToken,
         likes \subseteq [comment: Comment, voter: 1..minted], minted \in Nat
  PROVE  likes = {}
<1>1. ASSUME NEW l \in likes PROVE FALSE
  <2>1. RowSolo(l) /\ l.voter \in 1..minted
    BY DEF Solo
  <2>2. PICK i \in Job : /\ Liking(request[i]) /\ request[i].pc \in {"count", "answered"}
                         /\ request[i].gives = l.voter
    BY <2>1 DEF RowSolo
  <2>3. i = j
    BY <2>2 DEF Solo
  <2> QED BY <2>1, <2>2, <2>3 DEF NoToken
<1> QED BY <1>1

LEMMA LikeStores ==
  ASSUME Typed, Solo, UNCHANGED <<kept, liked, page, job>>,
         NEW j \in Job, Liking(request[j]), request[j].pc = "store",
         NEW h, Liking(h), request' = [request EXCEPT ![j] = h],
         h.token = request[j].token, h.gives = request[j].gives,
         h.comment = request[j].comment, h.pc = "count",
         likes' = likes \cup {Row(h)}
  PROVE  Solo'
<1>1. request'[j] = h /\ \A i \in Job \ {j} : request'[i] = request[i]
  BY TypedFacts
<1>2. \A i \in Job : Liking(request'[i]) <=> Liking(request[i])
  BY <1>1
<1>3. ASSUME NEW i \in Job PROVE LikeSolo(i)'
  <2>1. LikeSolo(i)
    BY DEF Solo
  <2>2. CASE i # j
    BY <1>1, <2>1, <2>2 DEF LikeSolo, Counted, Row, VoterOf, Liking
  <2>3. CASE i = j
    <3>1. job'[j] # None /\ job'[j].pc = "sent" /\ request'[j].token = kept'
      BY <1>1, <2>1, <2>3 DEF LikeSolo
    <3>2. Row(request'[j]) \in likes'
      BY <1>1
    <3> QED BY <2>3, <3>1, <3>2 DEF LikeSolo, Counted, Row, VoterOf
  <2> QED BY <2>2, <2>3
<1>4. request[j].token = kept /\ likes \subseteq [comment: Comment, voter: 1..minted]
      /\ minted \in Nat
  BY TypedFacts DEF Solo, LikeSolo, Typed, ServerTyped, EngagementTypeOK
<1>5. ASSUME NEW l \in likes' PROVE RowSolo(l)'
  <2>1. CASE kept # NoToken
    <3>1. l.voter = kept
      <4>1. CASE l \in likes
        BY <2>1, <4>1 DEF Solo, RowSolo
      <4>2. CASE l = Row(h)
        BY <1>4, <2>1, <4>2 DEF Row, VoterOf
      <4> QED BY <4>1, <4>2
    <3> QED BY <2>1, <3>1 DEF RowSolo
  <2>2. CASE kept = NoToken
    <3>1. likes = {}
      BY <1>4, <2>2, NoneStored
    <3>2. l.voter = h.gives
      BY <1>4, <2>2, <3>1 DEF Row, VoterOf
    <3>3. Liking(request'[j]) /\ request'[j].pc = "count" /\ request'[j].gives = l.voter
      BY <1>1, <3>2
    <3> QED BY <2>2, <3>3 DEF RowSolo, Liking
  <2> QED BY <2>1, <2>2
<1>6. ASSUME kept' = NoToken, NEW i \in Job, NEW k \in Job,
             Liking(request'[i]), Liking(request'[k])
      PROVE  i = k
  BY <1>2, <1>6 DEF Solo
<1>7. \A p \in Page : PageSolo(page[p])'
  BY DEF Solo, PageSolo
<1>8. \A i \in Job : JobSolo(job[i])'
  BY DEF Solo, JobSolo
<1>9. \A c \in liked' : kept' # NoToken /\ Liked(c, kept)'
  BY DEF Solo, Liked
<1> QED BY <1>3, <1>5, <1>6, <1>7, <1>8, <1>9 DEF Solo, Liking

LEMMA ExcuseStays ==
  ASSUME Typed, [Next]_vars, excuse' = {}
  PROVE  excuse = {}
<1>1. \/ excuse' = excuse \/ excuse' = excuse \cup {"lost"}
      \/ \E j \in Job : excuse' = excuse \cup Excuses(j)
  <2>1. ASSUME NEW j \in Job, VisitorStep(j)
        PROVE  excuse' = excuse \/ excuse' = excuse \cup {"lost"}
    BY <2>1 DEF VisitorStep, Click, Open, Sort
  <2>2. ASSUME NEW j \in Job, ClientStep(j)
        PROVE  excuse' = excuse \/ excuse' = excuse \cup Excuses(j)
    BY <2>2 DEF ClientStep, Issue, Solved, GateOver, Send, LikeAnswered, FlagAnswered,
                ReactionAnswered, CommentAnswered, ReadCached, ReadList, ReadVoted, Render
  <2>3. ASSUME NEW j \in Job, ServerStep(j) \/ JobFails(j) \/ Unheard(j) \/ HandlerFails(j)
        PROVE  excuse' = excuse \/ excuse' = excuse \cup {"lost"}
    BY <2>3 DEF ServerStep, JobFails, Unheard, HandlerFails, client
  <2>4. CASE \/ \E p \in Page, c \in Comment : CloseReply(p, c)
             \/ \E c \in Comment, s \in {"approved", "pending", "gone"} : Moderate(c, s) /\ UNCHANGED client
             \/ Tick \/ UNCHANGED vars
    BY <2>4 DEF CloseReply, Tick, client, vars
  <2> QED BY <2>1, <2>2, <2>3, <2>4 DEF Next
<1> QED BY <1>1

\* What is not a like stores none.
LEMMA OtherHandlerSolo ==
  ASSUME Typed, Solo, NEW j \in Job, HandlerStep(j) \/ ServerFails(j), ~Liking(request[j]),
         UNCHANGED <<kept, page, job, liked>>
  PROVE  Solo'
<1>1. PICK h \in Handler : Steps(j, h) /\ Kept(request[j], h)
  BY StepTypes DEF Typed
<1>2. request[j] # None
  BY DEF HandlerStep, ServerFails, Serving, LookUp, Admit, Guard, Interval, StoreLike, StoreFlag,
         StoreReaction, Count, StoreComment
<1>3. request'[j] = h /\ \A i \in Job \ {j} : request'[i] = request[i]
  BY <1>1, TypedFacts DEF Steps
<1>4. ~Liking(request'[j])
  BY <1>1, <1>2, <1>3 DEF Liking, Kept
<1>5. likes' = likes
  BY <1>2 DEF HandlerStep, ServerFails, LookUp, Admit, Guard, Interval, StoreLike, StoreFlag,
              StoreReaction, Count, StoreComment, tables, Liking
<1>6. \A i \in Job : HandlerApart(i) /\ JobApart(i)
  BY <1>3, <1>4 DEF HandlerApart, JobApart
<1>7. \A p \in Page : PageApart(p)
  BY DEF PageApart
<1> QED BY <1>5, <1>6, <1>7, ApartSolo

\* A like is found, checked, stored and counted, or fails before it is stored.
LEMMA LikeHandlerSolo ==
  ASSUME Typed, Solo, NEW j \in Job, Liking(request[j]),
         HandlerStep(j) \/ (ServerFails(j) /\ ~Serving(j, "count")),
         UNCHANGED <<kept, page, job, liked>>
  PROVE  Solo'
<1>0. /\ request[j] # None /\ request[j] \in Handler /\ Fit(request[j], minted)
      /\ request[j].op = "like" /\ LikeSolo(j) /\ request[j].token = kept
      /\ minted \in Nat /\ likes \subseteq [comment: Comment, voter: 1..minted]
  BY TypedFacts DEF Liking, Solo, LikeSolo, Typed, ServerTyped, EngagementTypeOK
\* Not yet stored.
<1>a. ASSUME NEW h, Becomes(j, h), h.op = "like", h # None, h.token = request[j].token,
             request[j].pc \notin {"count", "answered"}, ~Counted(h), likes' = likes
      PROVE  Solo'
  BY <1>0, <1>a, LikeMoves DEF Liking, Becomes
<1>b. ASSUME NEW a \in Answer \ {"ok"}, Answers(j, a), likes' = likes,
             request[j].pc \notin {"count", "answered"}
      PROVE  Solo'
  <2> DEFINE g == IF a = "ok" THEN request[j].gives ELSE NoToken
             h == [request[j] EXCEPT !.pc = "answered", !.answer = a, !.gives = g]
  <2>1. Becomes(j, h)
    BY <1>0, <1>b DEF Answers, Handler
  <2>2. g \in Voter \cup {NoToken}
    BY <1>0 DEF Handler
  <2> HIDE DEF g
  <2>3. h \in Handler
    BY <1>0, <2>2 DEF Handler
  <2>4. h.op = "like" /\ h.token = request[j].token /\ h.pc = "answered" /\ h.answer = a
    BY <1>0 DEF Handler
  <2>5. h # None
    BY <2>3
  <2> HIDE DEF h
  <2>6. ~Counted(h)
    BY <1>b, <2>4 DEF Counted
  <2> QED BY <1>a, <1>b, <2>1, <2>4, <2>5, <2>6
<1>c. ASSUME NEW pc \in {"admit", "guard", "store", "count"}
      PROVE  LET h == [request[j] EXCEPT !.pc = pc]
             IN  /\ h \in Handler /\ h.op = "like" /\ h # None /\ h.token = request[j].token
                 /\ h.gives = request[j].gives /\ h.comment = request[j].comment /\ h.pc = pc
  <2>1. [request[j] EXCEPT !.pc = pc] \in Handler
    BY <1>0 DEF Handler
  <2> QED BY <1>0, <2>1 DEF Handler
<1>1. CASE LookUp(j)
  <2>1. request[j].pc = "look" /\ likes' = likes
    BY <1>1 DEF LookUp, Serving, tables
  <2>2. CASE Answers(j, "missing")
    BY <2>1, <2>2, <1>b DEF Answer
  <2>3. CASE Becomes(j, [request[j] EXCEPT !.pc = "admit"])
    <3>1. PICK h : h = [request[j] EXCEPT !.pc = "admit"]
      OBVIOUS
    <3> QED BY <2>1, <2>3, <3>1, <1>a, <1>c DEF Counted
  <2> QED BY <1>1, <2>2, <2>3 DEF LookUp
<1>2. CASE Admit(j)
  <2>1. request[j].pc = "admit" /\ likes' = likes
    BY <1>2 DEF Admit, Serving, tables
  <2>2. CASE Answers(j, "tooquick")
    BY <2>1, <2>2, <1>b DEF Answer
  <2>3. CASE ~TooQuick(j)
    <3> DEFINE at == now \div Second  seen == Len(reactions)
               h == [request[j] EXCEPT !.pc = "guard", !.at = at, !.seen = seen]
    <3>1. AfterGate[request[j].op] = "guard"
      BY <1>0 DEF AfterGate
    <3>2. Becomes(j, h)
      BY <1>2, <2>3, <3>1 DEF Admit
    <3>3. at \in Nat /\ seen \in Nat
      BY TypedFacts, ReactionFacts
    <3> HIDE DEF at, seen
    <3>4. h \in Handler
      BY <1>0, <3>3 DEF Handler
    <3>5. h.op = "like" /\ h.token = request[j].token /\ h.pc = "guard"
      BY <1>0 DEF Handler
    <3>6. h # None
      BY <3>4
    <3> HIDE DEF h
    <3> QED BY <2>1, <3>2, <3>5, <3>6, <1>a DEF Counted
  <2> QED BY <1>2, <2>2, <2>3 DEF Admit
<1>3. CASE Guard(j)
  <2>1. request[j].pc = "guard" /\ likes' = likes
    BY <1>3 DEF Guard, Serving, tables
  <2>2. CASE Answers(j, "again")
    BY <2>1, <2>2, <1>b DEF Answer
  <2>3. CASE Becomes(j, [request[j] EXCEPT !.pc = "store"])
    <3>1. PICK h : h = [request[j] EXCEPT !.pc = "store"]
      OBVIOUS
    <3> QED BY <2>1, <2>3, <3>1, <1>a, <1>c DEF Counted
  <2>4. CASE Becomes(j, [request[j] EXCEPT !.pc = "store", !.gives = minted + 1])
    <3>1. PICK n : n = minted + 1
      OBVIOUS
    <3>2. n \in Voter
      BY <1>0, <3>1 DEF Voter
    <3>3. PICK h : h = [request[j] EXCEPT !.pc = "store", !.gives = n]
      OBVIOUS
    <3>4. h \in Handler
      BY <1>0, <3>2, <3>3 DEF Handler
    <3>5. h.op = "like" /\ h.token = request[j].token /\ h.pc = "store"
      BY <1>0, <3>3 DEF Handler
    <3>6. h # None /\ Becomes(j, h)
      BY <2>4, <3>1, <3>3, <3>4
    <3> QED BY <2>1, <3>5, <3>6, <1>a DEF Counted
  <2> QED BY <1>3, <2>2, <2>3, <2>4 DEF Guard
<1>4. CASE StoreLike(j)
  <2>1. request[j].pc = "store"
    BY <1>4 DEF StoreLike, Serving
  <2>2. CASE Answers(j, "error") /\ likes' = likes
    BY <2>1, <2>2, <1>b DEF Answer
  <2>3. CASE Becomes(j, [request[j] EXCEPT !.pc = "count"]) /\ likes' = likes \cup {Row(request[j])}
    <3>1. PICK h : h = [request[j] EXCEPT !.pc = "count"]
      OBVIOUS
    <3>2. /\ h.op = "like" /\ h # None /\ h.token = request[j].token
          /\ h.gives = request[j].gives /\ h.comment = request[j].comment /\ h.pc = "count"
      BY <3>1, <1>c
    <3>3. Row(h) = Row(request[j])
      BY <3>2 DEF Row, VoterOf
    <3> QED BY <2>1, <2>3, <3>1, <3>2, <3>3, LikeStores DEF Liking, Becomes
  <2> QED BY <1>4, <2>2, <2>3 DEF StoreLike, Row
<1>5. CASE Count(j)
  <2> DEFINE h == [request[j] EXCEPT !.pc = "answered", !.answer = "ok"]
  <2>1. request[j].pc = "count" /\ likes' = likes
    BY <1>5 DEF Count, Serving, tables
  <2>2. h = [request[j] EXCEPT !.pc = "answered", !.answer = "ok", !.gives = request[j].gives]
    BY <1>0 DEF Handler
  <2>3. Becomes(j, h)
    BY <1>5, <2>2 DEF Count, Answers
  <2>4. h \in Handler
    BY <1>0 DEF Handler, Answer
  <2>5. /\ h.op = "like" /\ h.token = request[j].token /\ h.gives = request[j].gives
        /\ h.comment = request[j].comment /\ h.pc = "answered"
    BY <1>0 DEF Handler
  <2>6. h # None
    BY <2>4
  <2> HIDE DEF h
  <2>7. Row(h) = Row(request[j])
    BY <2>5 DEF Row, VoterOf
  <2>8. Row(h) \in likes
    <3>1. Counted(request[j])
      BY <2>1 DEF Counted
    <3>2. Row(request[j]) \in likes
      BY <1>0, <3>1 DEF LikeSolo
    <3> QED BY <2>7, <3>2
  <2> QED BY <2>1, <2>3, <2>5, <2>6, <2>8, LikeMoves DEF Liking, Becomes
<1>6. CASE ServerFails(j) /\ ~Serving(j, "count")
  <2>1. request[j].pc \notin {"count", "answered"} /\ likes' = likes /\ Answers(j, "error")
    BY <1>0, <1>6 DEF ServerFails, Serving, Answered, tables
  <2> QED BY <2>1, <1>b DEF Answer
<1>7. ~(Interval(j) \/ StoreFlag(j) \/ StoreReaction(j) \/ \E approved \in BOOLEAN : StoreComment(j, approved))
  BY <1>0 DEF Interval, StoreFlag, StoreReaction, StoreComment, Serving, Fit
<1> QED BY <1>1, <1>2, <1>3, <1>4, <1>5, <1>6, <1>7 DEF HandlerStep

LEMMA WorkerSolo ==
  ASSUME Typed, Solo, NEW j \in Job, ServerStep(j) \/ HandlerFails(j), excuse' = {}
  PROVE  Solo'
<1>1. /\ HandlerStep(j) \/ (ServerFails(j) /\ ~(Serving(j, "count") /\ request[j].op = "like"))
      /\ UNCHANGED <<kept, page, job, liked>>
  BY DEF ServerStep, HandlerFails, client
<1>2. CASE Liking(request[j])
  <2>1. HandlerStep(j) \/ (ServerFails(j) /\ ~Serving(j, "count"))
    BY <1>1, <1>2 DEF Liking
  <2> QED BY <1>1, <1>2, <2>1, LikeHandlerSolo
<1>3. CASE ~Liking(request[j])
  BY <1>1, <1>3, OtherHandlerSolo
<1> QED BY <1>2, <1>3

\* A like is sent: unless there is an excuse, with the kept token, or alone.
LEMMA SendSolo ==
  ASSUME Typed, Solo, NEW j \in Job, Solved(j) \/ GateOver(j), Send(j), excuse' = {}
  PROVE  Solo'
<1> DEFINE t == IF job[j].op = "like" THEN page[job[j].page].token ELSE NoToken
           h == NewHandler(job[j].op, job[j].comment, t, job[j].issued)
           b == [job[j] EXCEPT !.pc = "sent"]
<1>1. /\ job[j] # None /\ job[j] \in PendingJob /\ job[j].pc \in {"solve", "wait"}
      /\ request[j] = None
  BY AtFacts DEF Solved, GateOver, Link
<1>2. /\ h \in Handler /\ h.op = job[j].op /\ h.token = t /\ h.pc \in {"look", "admit"}
  BY <1>1, SendFits
<1>3. /\ b \in PendingJob /\ b.pc = "sent" /\ b.liked = job[j].liked /\ b.token = job[j].token
  BY <1>1 DEF PendingJob
<1>4. request' = [request EXCEPT ![j] = h] /\ job' = [job EXCEPT ![j] = b]
      /\ UNCHANGED <<kept, likes, liked, page>>
  BY DEF Send, Turns, tables
<1>5. h # None /\ b # None
  BY <1>2, <1>3
<1>6. job[j].page \in Page
  BY <1>1 DEF PendingJob
<1>7. Excuses(j) = {}
  BY DEF Send
<1> HIDE DEF h, b
<1>8. JobSolo(b)
  BY <1>1, <1>3 DEF Solo, JobSolo
<1>9. /\ request'[j] = h /\ job'[j] = b
      /\ \A i \in Job \ {j} : request'[i] = request[i] /\ job'[i] = job[i]
  BY <1>4, TypedFacts
<1>10. CASE job[j].op # "like"
  <2>1. ~Liking(request[j]) /\ ~Liking(request'[j])
    BY <1>1, <1>2, <1>9, <1>10 DEF Liking
  <2>2. \A i \in Job : HandlerApart(i)
    BY <1>9, <2>1 DEF HandlerApart
  <2>3. \A i \in Job : JobApart(i)
    <3>1. JobSolo(job'[j])
      BY <1>8, <1>9
    <3> QED BY <1>9, <3>1 DEF JobApart
  <2>4. \A p \in Page : PageApart(p)
    BY <1>4 DEF PageApart
  <2> QED BY <1>4, <2>2, <2>3, <2>4, ApartSolo
<1>11. CASE job[j].op = "like"
  <2>1. /\ t = kept
        /\ kept = NoToken => \A i \in Job \ {j} : ~Liking(request[i])
    <3>1. PageSolo(page[job[j].page]) /\ t = page[job[j].page].token
      BY <1>6, <1>11 DEF Solo
    <3>2. t = NoToken =>
            ~page[job[j].page].behind /\ \A i \in Job \ {j} : ~Liking(request[i])
      BY <1>7, <1>11, <3>1 DEF Excuses, Liking
    <3> QED BY <3>1, <3>2 DEF PageSolo
  <2> HIDE DEF t
  <2>2. ~Liking(request[j]) /\ ~Counted(h) /\ Liking(h)
    BY <1>1, <1>2, <1>5, <1>11 DEF Liking, Counted
  <2>3. ASSUME NEW i \in Job PROVE LikeSolo(i)'
    <3>1. CASE i # j
      <4>1. LikeSolo(i)
        BY DEF Solo
      <4> QED BY <1>4, <1>9, <3>1, <4>1 DEF LikeSolo, Counted, Row, VoterOf, Liking
    <3>2. CASE i = j
      <4>1. ~Counted(request'[j])
        BY <1>9, <2>2
      <4>2. request'[j].token = kept'
        BY <1>2, <1>4, <1>9, <2>1
      <4> QED BY <1>3, <1>5, <1>9, <3>2, <4>1, <4>2 DEF LikeSolo, Counted
    <3> QED BY <3>1, <3>2
  <2>4. ASSUME kept' = NoToken, NEW i \in Job, NEW k \in Job,
               Liking(request'[i]), Liking(request'[k])
        PROVE  i = k
    BY <1>4, <1>9, <2>1, <2>4
  <2>5. ASSUME NEW l \in likes PROVE RowSolo(l)'
    <3>1. RowSolo(l)
      BY DEF Solo
    <3>2. ASSUME kept = NoToken PROVE FALSE
      <4>1. PICK i \in Job : Liking(request[i])
        BY <3>1, <3>2 DEF RowSolo
      <4> QED BY <2>1, <2>2, <3>2, <4>1
    <3> QED BY <1>4, <3>1, <3>2 DEF RowSolo
  <2>6. ASSUME NEW i \in Job PROVE JobSolo(job[i])'
    <3>1. JobSolo(job'[i])
      BY <1>8, <1>9 DEF Solo
    <3> QED BY <1>4, <3>1 DEF JobSolo
  <2>7. \A p \in Page : PageSolo(page[p])'
    BY <1>4 DEF Solo, PageSolo
  <2>8. \A c \in liked' : kept' # NoToken /\ Liked(c, kept)'
    BY <1>4 DEF Solo, Liked
  <2> QED BY <1>4, <2>3, <2>4, <2>5, <2>6, <2>7, <2>8 DEF Solo, Liking
<1> QED BY <1>10, <1>11

\* The first like brings the token to its page, and the others are behind.
LEMMA LikeAnsweredSolo ==
  ASSUME Typed, Solo, NEW j \in Job, LikeAnswered(j)
  PROVE  Solo'
<1> DEFINE h == request[j]  b == job[j]
<1>1. /\ b # None /\ b \in PendingJob /\ b.page \in Page /\ h \in Handler /\ Fit(h, minted)
      /\ h # None /\ h.op = "like" /\ h.pc = "answered" /\ h.comment = b.comment
      /\ likes \subseteq [comment: Comment, voter: 1..minted] /\ minted \in Nat
  <2>1. At(j, "sent") /\ Answered(j) /\ b.op = "like"
    BY DEF LikeAnswered
  <2>2. h # None /\ h.pc = "answered"
    BY <2>1 DEF Answered, Serving
  <2> QED BY <2>1, <2>2, SentFacts, TypedFacts DEF Typed, ServerTyped, EngagementTypeOK
<1>2. /\ Liking(h) /\ h.token = kept /\ (h.answer = "ok" => Row(h) \in likes)
  <2>1. Liking(h) /\ LikeSolo(j)
    BY <1>1 DEF Liking, Solo
  <2> QED BY <1>1, <2>1 DEF LikeSolo, Counted
<1>3. h.gives # NoToken => kept = NoToken
  BY <1>1, <1>2 DEF Fit
<1>4. /\ likes' = likes /\ kept' = (IF h.gives # NoToken THEN h.gives ELSE kept)
      /\ liked' = (IF h.answer = "ok" THEN liked \cup {b.comment} ELSE liked)
      /\ request' = [request EXCEPT ![j] = None] /\ job' = [job EXCEPT ![j] = None]
  BY DEF LikeAnswered, Turns, Clears, tables
<1>5. /\ request'[j] = None /\ job'[j] = None
      /\ \A i \in Job \ {j} : request'[i] = request[i] /\ job'[i] = job[i]
  BY <1>4, TypedFacts
<1>6. ASSUME NEW p \in Page
      PROVE  /\ page'[p].token = (IF p = b.page /\ h.gives # NoToken THEN h.gives ELSE page[p].token)
             /\ p # b.page /\ h.gives # NoToken => page'[p].behind
             /\ page[p].behind => page'[p].behind
  <2>1. page[p] \in PageView
    BY TypedFacts
  <2>2. CASE p = b.page
    <3>1. PICK t, v, d : /\ page'[p] = [page[p] EXCEPT !.token = t, !.voted = v, !.disabled = d]
                         /\ t = Learns(h.gives, page[p].token)
      BY <2>2, Zenon DEF LikeAnswered
    <3>2. page'[p].token = t /\ page'[p].behind = page[p].behind
      BY <2>1, <3>1 DEF PageView
    <3> QED BY <2>2, <3>1, <3>2 DEF Learns
  <2>3. CASE p # b.page
    <3>1. PICK x : page'[p] = [page[p] EXCEPT !.behind = x] /\ x = (page[p].behind \/ h.gives # NoToken)
      BY <2>3, Zenon DEF LikeAnswered
    <3>2. page'[p].token = page[p].token /\ page'[p].behind = x
      BY <2>1, <3>1 DEF PageView
    <3> QED BY <2>3, <3>1, <3>2
  <2> QED BY <2>2, <2>3
<1> HIDE DEF h, b
<1>7. ASSUME NEW p \in Page PROVE PageSolo(page[p])'
  <2>1. PageSolo(page[p])
    BY DEF Solo
  <2> QED BY <1>3, <1>4, <1>6, <2>1 DEF PageSolo
<1>8. ASSUME kept = NoToken, NEW i \in Job \ {j} PROVE ~Liking(request'[i])
  BY <1>2, <1>5, <1>8 DEF Solo, h
<1>9. ASSUME NEW i \in Job PROVE LikeSolo(i)'
  <2>1. CASE i = j
    BY <1>5, <2>1 DEF LikeSolo, Liking
  <2>2. CASE i # j /\ kept = NoToken
    BY <1>8, <2>2 DEF LikeSolo, Liking
  <2>3. CASE i # j /\ kept # NoToken
    <3>1. LikeSolo(i) /\ kept' = kept
      BY <1>3, <1>4, <2>3 DEF Solo
    <3> QED BY <1>4, <1>5, <2>3, <3>1 DEF LikeSolo, Counted, Row, VoterOf, Liking
  <2> QED BY <2>1, <2>2, <2>3
<1>10. ASSUME kept' = NoToken, NEW i \in Job, NEW k \in Job,
              Liking(request'[i]), Liking(request'[k])
       PROVE  i = k
  BY <1>4, <1>5, <1>10 DEF Solo, Liking
<1>11. ASSUME NEW l \in likes PROVE RowSolo(l)'
  <2>1. RowSolo(l)
    BY DEF Solo
  <2>2. CASE kept # NoToken
    BY <1>3, <1>4, <2>1, <2>2 DEF RowSolo
  <2>3. CASE kept = NoToken /\ h.gives # NoToken
    <3>1. PICK i \in Job : Liking(request[i]) /\ request[i].gives = l.voter
      BY <2>1, <2>3 DEF RowSolo
    <3>2. i = j
      BY <1>2, <2>3, <3>1 DEF Solo, h
    <3>3. l.voter = h.gives
      BY <3>1, <3>2 DEF h
    <3> QED BY <1>4, <2>3, <3>3 DEF RowSolo
  <2>4. CASE kept = NoToken /\ h.gives = NoToken
    <3>1. likes = {}
      BY <1>1, <1>2, <2>4, NoneStored DEF h
    <3> QED BY <3>1
  <2> QED BY <2>2, <2>3, <2>4
<1>12. ASSUME NEW i \in Job PROVE JobSolo(job[i])'
  <2>1. CASE i = j
    BY <1>5, <2>1 DEF JobSolo
  <2>2. CASE i # j
    <3>1. JobSolo(job[i]) /\ job'[i] = job[i] /\ liked \subseteq liked'
      BY <1>4, <1>5, <2>2 DEF Solo
    <3>2. kept # NoToken => kept' = kept
      BY <1>3, <1>4
    <3> QED BY <3>1, <3>2 DEF JobSolo
  <2> QED BY <2>1, <2>2
<1>13. ASSUME NEW c \in liked' PROVE kept' # NoToken /\ Liked(c, kept)'
  <2>1. CASE c \in liked
    <3>1. kept # NoToken /\ Liked(c, kept)
      BY <2>1 DEF Solo
    <3> QED BY <1>3, <1>4, <3>1 DEF Liked
  <2>2. CASE h.answer = "ok" /\ c = b.comment
    <3>1. Row(h) \in likes /\ Row(h).voter = VoterOf(h) /\ Row(h).comment = c
      BY <1>1, <1>2, <2>2 DEF Row
    <3>2. VoterOf(h) # NoToken
      BY <1>1, <3>1 DEF NoToken
    <3>3. kept' = VoterOf(h)
      BY <1>2, <1>3, <1>4, <3>2 DEF VoterOf
    <3> QED BY <1>1, <1>4, <2>2, <3>1, <3>2, <3>3 DEF Liked, Row
  <2> QED BY <1>4, <2>1, <2>2
<1> QED BY <1>4, <1>7, <1>9, <1>10, <1>11, <1>12, <1>13 DEF Solo, Liking

LEMMA TurnSolo ==
  ASSUME Typed, Solo, NEW j \in Job, NEW b, Turns(j, b), b = None \/ JobSolo(b),
         ~Liking(request[j]), request' = request \/ Clears(j),
         UNCHANGED <<kept, likes, liked>>, \A p \in Page : PageApart(p)
  PROVE  Solo'
<1>1. job'[j] = b /\ \A i \in Job \ {j} : job'[i] = job[i] /\ request'[i] = request[i]
  BY TypedFacts DEF Turns, Clears
<1>2. request'[j] \in {request[j], None}
  BY TypedFacts DEF Clears
<1>3. \A i \in Job : HandlerApart(i)
  BY <1>1, <1>2 DEF HandlerApart, Liking
<1>4. \A i \in Job : JobApart(i)
  BY <1>1 DEF JobApart
<1> QED BY <1>3, <1>4, ApartSolo

\* Only the buttons of a page change.
LEMMA ButtonsApart ==
  ASSUME Typed, NEW p \in Page, NEW d, page' = [page EXCEPT ![p].disabled = d]
  PROVE  \A q \in Page : PageApart(q)
<1>1. ASSUME NEW q \in Page PROVE PageApart(q)
  <2>1. page[q] \in PageView /\ page \in [Page -> PageView]
    BY TypedFacts
  <2>2. page'[q].token = page[q].token /\ page'[q].behind = page[q].behind
    BY <2>1 DEF PageView
  <2> QED BY <2>2 DEF PageApart
<1> QED BY <1>1

LEMMA LoadsSolo ==
  ASSUME Typed, Solo, NEW p \in Page, NEW op \in Post \cup {"load"},
         NEW c \in Comment \cup {None}, NEW expected \in Nat
  PROVE  JobSolo(Loads(p, op, c, expected))
<1>1. PageSolo(page[p])
  BY DEF Solo
<1>2. PICK l : l = Loads(p, op, c, expected)
  OBVIOUS
<1>3. l.liked = liked /\ l.token = page[p].token /\ l.pc = "list"
  BY <1>2, LoadsTyped
<1> QED BY <1>1, <1>2, <1>3 DEF JobSolo, PageSolo

LEMMA VisitorSolo ==
  ASSUME Typed, Solo, NEW j \in Job, VisitorStep(j), excuse' = {}
  PROVE  Solo'
<1>0. request[j] = None /\ 0 \in Nat
  BY DEF VisitorStep, Click, Open, Sort, Acts
<1>1. ASSUME NEW p \in Page, NEW op \in Post, NEW c \in Comment \cup {None}, Click(j, p, op, c)
      PROVE  Solo'
  <2> DEFINE l == Loads(p, op, c, 0)
             b == [l EXCEPT !.pc = "ask", !.t0 = now]
  <2>1. l \in PendingJob /\ JobSolo(l)
    BY <1>0, LoadsAnew, LoadsSolo
  <2>2. Turns(j, b) /\ request' = request /\ UNCHANGED <<kept, likes, liked>>
    BY <1>1 DEF Click, server, tables
  <2>3. \E d : page' = [page EXCEPT ![p].disabled = d]
    BY <1>1, Zenon DEF Click
  <2>4. \A q \in Page : PageApart(q)
    BY <2>3, ButtonsApart
  <2> HIDE DEF l
  <2>5. b.liked = l.liked /\ b.token = l.token /\ b.pc = "ask" /\ l # None
    BY <2>1 DEF PendingJob
  <2> HIDE DEF b
  <2>6. JobSolo(b)
    BY <2>1, <2>5 DEF JobSolo
  <2> QED BY <1>0, <2>2, <2>4, <2>6, TurnSolo DEF Liking
<1>2. ASSUME NEW p \in Page, Open(j, p) PROVE Solo'
  <2> DEFINE l == Loads(p, "load", None, 0)
             b == [l EXCEPT !.token = kept, !.since = 0]
  <2>1. l \in PendingJob /\ l.pc = "list" /\ l.liked = liked
    BY <1>0, LoadsAnew
  <2>2. /\ job' = [i \in Job |-> IF i = j THEN b
                                 ELSE IF job[i] # None /\ job[i].page = p THEN None ELSE job[i]]
        /\ request' = request /\ UNCHANGED <<kept, likes, liked>>
        /\ page' = [page EXCEPT ![p] = Fresh(kept)]
        /\ ~\E i \in Job : At(i, "sent") /\ job[i].page = p /\ job[i].op = "like"
    BY <1>2 DEF Open, server, tables
  <2> HIDE DEF l
  <2>3. b.liked = liked /\ b.token = kept /\ b.pc = "list"
    BY <2>1 DEF PendingJob
  <2> HIDE DEF b
  <2>4. JobSolo(b)
    BY <2>3 DEF JobSolo
  <2>5. ASSUME NEW q \in Page PROVE PageApart(q)
    <3>1. Fresh(kept).token = kept
      BY DEF Fresh
    <3> QED BY <2>2, <3>1, TypedFacts DEF PageApart
  <2>6. ASSUME NEW i \in Job PROVE HandlerApart(i) /\ JobApart(i)
    <3>1. CASE i = j
      BY <1>0, <2>2, <2>4, <3>1 DEF HandlerApart, JobApart, Liking
    <3>2. CASE i # j
      <4>1. JobApart(i) /\ request'[i] = request[i]
        BY <2>2, <3>2 DEF JobApart
      <4>2. ASSUME Liking(request[i]) PROVE job'[i] = job[i]
        <5>1. At(i, "sent") /\ job[i].op = "like"
          <6>1. At(i, "sent")
            BY <4>2 DEF Solo, LikeSolo, At
          <6> QED BY <4>2, <6>1, SentFacts DEF Liking
        <5> QED BY <2>2, <3>2, <5>1
      <4> QED BY <4>1, <4>2 DEF HandlerApart
    <3> QED BY <3>1, <3>2
  <2> QED BY <2>2, <2>5, <2>6, ApartSolo
<1>3. ASSUME NEW p \in Page, Sort(j, p) PROVE Solo'
  <2>1. JobSolo(Loads(p, "load", None, 0))
    BY <1>0, LoadsSolo
  <2>2. /\ Turns(j, Loads(p, "load", None, 0)) /\ request' = request
        /\ UNCHANGED <<kept, likes, liked, page>>
    BY <1>3 DEF Sort, server, tables
  <2> QED BY <1>0, <2>1, <2>2, TurnSolo DEF Liking, PageApart
<1> QED BY <1>1, <1>2, <1>3 DEF VisitorStep

LEMMA AskingSolo ==
  ASSUME Typed, Solo, NEW j \in Job, Issue(j) \/ Solved(j) \/ GateOver(j), excuse' = {}
  PROVE  Solo'
<1>1. /\ job[j] \in PendingJob /\ job[j] # None /\ request[j] = None
      /\ JobSolo(job[j])
  BY AtFacts DEF Issue, Solved, GateOver, Link, Solo
<1>2. CASE Send(j) /\ ~Issue(j)
  BY <1>2, SendSolo
<1>3. CASE ~Send(j) \/ Issue(j)
  <2>1. \E b : /\ Turns(j, b)
               /\ \/ b = [job[j] EXCEPT !.pc = "wait"]
                  \/ b = [job[j] EXCEPT !.pc = "solve", !.issued = now \div Second]
    BY <1>3 DEF Issue, Solved, GateOver
  <2>2. UNCHANGED <<kept, likes, liked, page, request>>
    BY <1>3 DEF Issue, Solved, GateOver, server, tables
  <2>3. PICK b : /\ Turns(j, b)
                 /\ \/ b = [job[j] EXCEPT !.pc = "wait"]
                    \/ b = [job[j] EXCEPT !.pc = "solve", !.issued = now \div Second]
    BY <2>1
  <2>4. b.liked = job[j].liked /\ b.token = job[j].token /\ b.pc # "render"
    BY <1>1, <2>3 DEF PendingJob
  <2>5. JobSolo(b)
    BY <1>1, <2>4 DEF JobSolo
  <2> QED BY <1>1, <2>2, <2>3, <2>5, TurnSolo DEF Liking, PageApart
<1> QED BY <1>2, <1>3

LEMMA OtherAnsweredSolo ==
  ASSUME Typed, Solo, NEW j \in Job,
         FlagAnswered(j) \/ ReactionAnswered(j) \/ CommentAnswered(j)
  PROVE  Solo'
<1>1. /\ job[j] \in PendingJob /\ job[j].page \in Page /\ request[j] \in Handler
      /\ request[j].op = job[j].op /\ job[j].op # "like" /\ Clears(j)
      /\ UNCHANGED <<kept, likes, liked>>
  BY SentFacts DEF FlagAnswered, ReactionAnswered, CommentAnswered, tables
<1>2. ~Liking(request[j])
  BY <1>1 DEF Liking
<1>3. \A p \in Page : PageApart(p)
  <2>1. CASE FlagAnswered(j)
    <3>1. \E d, f : page' = [page EXCEPT ![job[j].page].disabled = d, ![job[j].page].flagged = f]
      BY <2>1, Zenon DEF FlagAnswered
    <3>2. PICK d, f : page' = [page EXCEPT ![job[j].page].disabled = d, ![job[j].page].flagged = f]
      BY <3>1
    <3>3. ASSUME NEW p \in Page PROVE PageApart(p)
      <4>1. page[p] \in PageView /\ page \in [Page -> PageView]
        BY TypedFacts
      <4>2. page'[p].token = page[p].token /\ page'[p].behind = page[p].behind
        BY <1>1, <3>2, <4>1 DEF PageView
      <4> QED BY <4>2 DEF PageApart
    <3> QED BY <3>3
  <2>2. CASE ReactionAnswered(j)
    <3>1. \E d : page' = [page EXCEPT ![job[j].page].disabled = d]
      BY <2>2, Zenon DEF ReactionAnswered
    <3> QED BY <1>1, <3>1, ButtonsApart
  <2>3. CASE CommentAnswered(j)
    <3>1. page' = page \/ \E d : page' = [page EXCEPT ![job[j].page].disabled = d]
      BY <2>3, Zenon DEF CommentAnswered
    <3>2. CASE page' = page
      BY <3>2 DEF PageApart
    <3> QED BY <1>1, <3>1, <3>2, ButtonsApart
  <2> QED BY <2>1, <2>2, <2>3
<1>4. \E b : Turns(j, b) /\ (b = None \/ JobSolo(b))
  <2>1. CASE CommentAnswered(j) /\ request[j].answer = "ok"
    <3>1. PICK l : l = Loads(job[j].page, job[j].op, job[j].comment, request[j].stored)
      OBVIOUS
    <3>2. job[j].op \in Post \cup {"load"} /\ job[j].comment \in Comment \cup {None}
          /\ request[j].stored \in Nat
      BY <1>1 DEF PendingJob, Handler
    <3>3. l \in PendingJob /\ JobSolo(l)
      BY <1>1, <3>1, <3>2, LoadsTyped, LoadsSolo
    <3>4. Turns(j, [l EXCEPT !.attached = job[j].attached])
      BY <2>1, <3>1 DEF CommentAnswered
    <3>5. PICK b : b = [l EXCEPT !.attached = job[j].attached]
      OBVIOUS
    <3>6. /\ b.liked = l.liked /\ b.token = l.token /\ b.pc = l.pc /\ b.shown = l.shown
          /\ b.voted = l.voted /\ l # None
      BY <3>3, <3>5 DEF PendingJob
    <3>7. JobSolo(b)
      BY <3>3, <3>6 DEF JobSolo
    <3> QED BY <3>4, <3>5, <3>7
  <2>2. CASE ~(CommentAnswered(j) /\ request[j].answer = "ok")
    BY <2>2 DEF FlagAnswered, ReactionAnswered, CommentAnswered
  <2> QED BY <2>1, <2>2
<1> QED BY <1>1, <1>2, <1>3, <1>4, TurnSolo

\* The likes are read after the load began, and none is ever taken back.
LEMMA ReadingSolo ==
  ASSUME Typed, Solo, NEW j \in Job, ReadCached(j) \/ ReadList(j) \/ ReadVoted(j)
  PROVE  Solo'
<1>1. /\ job[j] \in PendingJob /\ job[j] # None /\ request[j] = None /\ JobSolo(job[j])
      /\ UNCHANGED <<kept, likes, liked, page, request>>
  <2>1. job[j] \in PendingJob /\ job[j] # None /\ request[j] = None /\ JobSolo(job[j])
    <3>1. At(j, "list") \/ At(j, "voted")
      BY DEF ReadCached, ReadList, ReadVoted
    <3>2. job[j] \in PendingJob /\ job[j] # None /\ request[j] = None
      BY <3>1, AtFacts DEF Link, At
    <3> QED BY <3>2 DEF Solo
  <2>2. UNCHANGED <<kept, likes, liked, page, request>>
    BY DEF ReadCached, ReadList, ReadVoted, server, tables
  <2> QED BY <2>1, <2>2
<1>2. \E b : Turns(j, b) /\ JobSolo(b)
  <2>1. CASE ReadCached(j)
    <3>1. PICK v \in 0..version, s \in SUBSET Comment :
            Turns(j, [job[j] EXCEPT !.pc = "render", !.version = v, !.shown = s])
      BY <2>1 DEF ReadCached
    <3>2. PICK b : b = [job[j] EXCEPT !.pc = "render", !.version = v, !.shown = s]
      OBVIOUS
    <3>3. b.liked = job[j].liked /\ b.token = job[j].token
      BY <1>1, <3>2 DEF PendingJob
    <3>4. job[j].token = NoToken
      BY <2>1, Zenon DEF ReadCached, Personal
    <3>5. JobSolo(b)
      BY <1>1, <3>3, <3>4 DEF JobSolo
    <3> QED BY <3>1, <3>2, <3>5
  <2>2. CASE ReadList(j)
    <3> DEFINE s == {c \in Comment : status[c] = "approved"}
               b == [job[j] EXCEPT !.pc = "voted", !.version = version, !.shown = s]
    <3>1. Turns(j, b)
      BY <2>2 DEF ReadList
    <3> HIDE DEF s
    <3>2. b.liked = job[j].liked /\ b.token = job[j].token /\ b.pc = "voted"
      BY <1>1 DEF PendingJob
    <3> HIDE DEF b
    <3>3. JobSolo(b)
      BY <1>1, <3>2 DEF JobSolo
    <3> QED BY <3>1, <3>3
  <2>3. CASE ReadVoted(j)
    <3> DEFINE s == {c \in job[j].shown : Liked(c, job[j].token)}
               b == [job[j] EXCEPT !.pc = "render", !.voted = s]
    <3>1. Turns(j, b)
      BY <2>3 DEF ReadVoted
    <3>2. job[j].token # NoToken => job[j].liked \cap job[j].shown \subseteq s
      BY <1>1 DEF JobSolo, Solo
    <3> HIDE DEF s
    <3>3. /\ b.liked = job[j].liked /\ b.token = job[j].token /\ b.shown = job[j].shown
          /\ b.voted = s
      BY <1>1 DEF PendingJob
    <3> HIDE DEF b
    <3>4. JobSolo(b)
      BY <1>1, <3>2, <3>3 DEF JobSolo
    <3> QED BY <3>1, <3>4
  <2> QED BY <2>1, <2>2, <2>3
<1>3. \A p \in Page : PageApart(p)
  BY <1>1 DEF PageApart
<1> QED BY <1>1, <1>2, <1>3, TurnSolo DEF Liking

LEMMA RenderSolo ==
  ASSUME Typed, Solo, NEW j \in Job, Render(j)
  PROVE  Solo'
<1>1. /\ job[j] \in PendingJob /\ job[j].page \in Page /\ request[j] = None
      /\ UNCHANGED <<kept, likes, liked, request>>
  BY AtFacts DEF Render, Link, server, tables, PendingJob
<1>2. ASSUME NEW q \in Page PROVE PageApart(q)
  <2> DEFINE p == job[j].page
             d == {k \in Enabled(job[j], TRUE) : ~OfList(k)}
             w == [page[p] EXCEPT !.version = job[j].version, !.shown = job[j].shown,
                                  !.voted = job[j].voted, !.flagged = {}, !.disabled = d]
  <2>1. page' = [page EXCEPT ![p] = w]
    BY DEF Render
  <2> HIDE DEF d
  <2>2. page[p] \in PageView /\ page \in [Page -> PageView]
    BY <1>1, TypedFacts
  <2>3. w.token = page[p].token /\ w.behind = page[p].behind
    BY <2>2 DEF PageView
  <2> HIDE DEF w
  <2> QED BY <1>1, <2>1, <2>2, <2>3 DEF PageApart
<1>3. ASSUME NEW i \in Job PROVE HandlerApart(i) /\ JobApart(i)
  <2>1. job' = [k \in Job |->
                  IF k = j THEN None
                  ELSE IF job[k] # None /\ job[k].page = job[j].page /\ OfList(ControlOf(job[k]))
                       THEN [job[k] EXCEPT !.attached = FALSE] ELSE job[k]]
    BY DEF Render
  <2>2. i # j => job'[i] = job[i] \/ (job[i] # None /\ job'[i] = Detached(job[i]))
    BY <2>1 DEF Detached
  <2>3. i = j => job'[i] = None
    BY <2>1
  <2> QED BY <1>1, <2>2, <2>3 DEF HandlerApart, JobApart, Liking
<1> QED BY <1>1, <1>2, <1>3, ApartSolo

LEMMA FailedSolo ==
  ASSUME Typed, Solo, NEW j \in Job, JobFails(j) \/ Unheard(j), excuse' = {}
  PROVE  Solo'
<1>1. CASE JobFails(j)
  <2>1. job[j] # None /\ job[j] \in PendingJob /\ job[j].page \in Page
    BY <1>1, TypedFacts DEF JobFails, PendingJob
  <2>2. ~(job[j].pc = "sent" /\ job[j].op = "like")
    BY <1>1 DEF JobFails
  <2>3. ~Liking(request[j])
    <3>1. ASSUME Liking(request[j]) PROVE FALSE
      <4>1. At(j, "sent")
        BY <3>1 DEF Solo, LikeSolo, At
      <4> QED BY <2>2, <3>1, <4>1, SentFacts DEF Liking, At
    <3> QED BY <3>1
  <2>4. Turns(j, None) /\ request' = request /\ UNCHANGED <<kept, likes, liked>>
    BY <1>1 DEF JobFails, server, tables
  <2>5. \E d : page' = [page EXCEPT ![job[j].page].disabled = d]
    BY <1>1, Zenon DEF JobFails
  <2>6. \A p \in Page : PageApart(p)
    BY <2>1, <2>5, ButtonsApart
  <2> QED BY <2>3, <2>4, <2>6, TurnSolo
<1>2. CASE Unheard(j)
  <2>1. job[j] = None /\ Turns(j, None) /\ Clears(j) /\ UNCHANGED <<kept, likes, liked, page>>
    BY <1>2, TypedFacts DEF Unheard, Turns, client, tables
  <2>2. ~Liking(request[j])
    BY <2>1 DEF Solo, LikeSolo
  <2> QED BY <2>1, <2>2, TurnSolo DEF PageApart
<1> QED BY <1>1, <1>2

LEMMA SoloNext ==
  ASSUME Typed, SoloInv, [Next]_vars
  PROVE  SoloInv'
<1> SUFFICES ASSUME excuse' = {} PROVE Solo'
  BY DEF SoloInv, Solo
<1>1. Solo
  BY ExcuseStays DEF SoloInv
<1>2. ASSUME NEW j \in Job, VisitorStep(j) PROVE Solo'
  BY <1>1, <1>2, VisitorSolo
<1>3. ASSUME NEW j \in Job, ClientStep(j) PROVE Solo'
  BY <1>1, <1>3, AskingSolo, LikeAnsweredSolo, OtherAnsweredSolo, ReadingSolo, RenderSolo
     DEF ClientStep
<1>4. ASSUME NEW j \in Job, ServerStep(j) \/ HandlerFails(j) PROVE Solo'
  BY <1>1, <1>4, WorkerSolo
<1>5. ASSUME NEW j \in Job, JobFails(j) \/ Unheard(j) PROVE Solo'
  BY <1>1, <1>5, FailedSolo
<1>6. CASE \/ \E p \in Page, c \in Comment : CloseReply(p, c)
           \/ \E c \in Comment, s \in {"approved", "pending", "gone"} : Moderate(c, s) /\ UNCHANGED client
           \/ Tick \/ UNCHANGED vars
  <2>1. UNCHANGED <<kept, likes, liked, request>>
    BY <1>6 DEF CloseReply, Moderate, Tick, server, tables, client, vars
  <2>2. \A i \in Job : job'[i] = job[i] \/ (job[i] # None /\ job'[i] = Detached(job[i]))
    BY <1>6, TypedFacts DEF CloseReply, Tick, client, vars, Detached
  <2>3. \A i \in Job : HandlerApart(i) /\ JobApart(i)
    BY <2>1, <2>2 DEF HandlerApart, JobApart
  <2>4. \A q \in Page : PageApart(q)
    <3>1. page' = page \/ \E p \in Page : \E d : page' = [page EXCEPT ![p].disabled = d]
      BY <1>6 DEF CloseReply, Tick, client, vars
    <3>2. CASE page' = page
      BY <3>2 DEF PageApart
    <3> QED BY <3>1, <3>2, ButtonsApart
  <2> QED BY <1>1, <2>1, <2>3, <2>4, ApartSolo
<1> QED BY <1>2, <1>3, <1>4, <1>5, <1>6 DEF Next

LEMMA SoloInit == Init => SoloInv
<1> SUFFICES ASSUME Init PROVE Solo
  BY DEF SoloInv
<1>1. [Fresh(NoToken) EXCEPT !.shown = Comment].token = NoToken
  BY DEF Fresh
<1>2. /\ kept = NoToken /\ likes = {} /\ liked = {} /\ \A p \in Page : page[p].token = NoToken
      /\ \A j \in Job : job[j] = None /\ request[j] = None
  BY <1>1 DEF Init, EngagementInit
<1> QED BY <1>2 DEF Solo, PageSolo, LikeSolo, JobSolo, Liking

LEMMA SoloAlways == Spec => []SoloInv
BY SoloInit, SoloNext, WidgetTyped, PTL DEF Spec

\* All likes of a browser without an excuse are one voter's.
LEMMA SameVoter ==
  ASSUME Solo, NEW k \in likes, NEW l \in likes
  PROVE  k.voter = l.voter
<1>1. RowSolo(k) /\ RowSolo(l)
  BY DEF Solo
<1>2. CASE kept # NoToken
  BY <1>1, <1>2 DEF RowSolo
<1>3. CASE kept = NoToken
  <2>1. PICK i \in Job : Liking(request[i]) /\ request[i].gives = k.voter
    BY <1>1, <1>3 DEF RowSolo
  <2>2. PICK j \in Job : Liking(request[j]) /\ request[j].gives = l.voter
    BY <1>1, <1>3 DEF RowSolo
  <2>3. i = j
    BY <1>3, <2>1, <2>2 DEF Solo
  <2> QED BY <2>1, <2>2, <2>3
<1> QED BY <1>2, <1>3

\* A browser whose token was not lost with an answer, and that never posted a like
\* without one twice at a time or from a page that had missed it, likes each
\* comment at most once, however its pages, handlers and loads overlap.
THEOREM OneLikeEach == Spec => []TwiceLikedIsExcused
<1>1. Typed /\ SoloInv => TwiceLikedIsExcused
  <2> SUFFICES ASSUME Typed, SoloInv, excuse = {}, NEW c \in Comment
               PROVE  Cardinality({l \in likes : l.comment = c}) <= 1
    BY DEF TwiceLikedIsExcused
  <2> DEFINE rows == {l \in likes : l.comment = c}
  <2>1. Solo /\ likes \subseteq [comment: Comment, voter: 1..minted]
    BY DEF SoloInv, Typed, ServerTyped, EngagementTypeOK
  <2>2. ASSUME NEW k \in rows, NEW l \in rows PROVE k = l
    <3>1. k.voter = l.voter /\ k.comment = l.comment
      BY <2>1, SameVoter
    <3>2. k \in [comment: Comment, voter: 1..minted] /\ l \in [comment: Comment, voter: 1..minted]
      BY <2>1
    <3> QED BY <3>1, <3>2
  <2>3. CASE rows = {}
    BY <2>3, FS_EmptySet
  <2>4. CASE rows # {}
    <3>1. PICK l \in rows : rows = {l}
      BY <2>2, <2>4
    <3> QED BY <3>1, FS_Singleton
  <2> QED BY <2>3, <2>4
<1> QED BY <1>1, SoloAlways, WidgetTyped, PTL

\* And every list that was made for it shows the likes it was told of.
THEOREM LikesShown == Spec => LikeRemembered
<1>1. Typed /\ SoloInv => [\A j \in Job :
         Shows(j) /\ job[j].token # NoToken /\ excuse = {}
         => job[j].liked \cap job[j].shown \subseteq job[j].voted]_vars
  BY DEF SoloInv, Solo, JobSolo, Shows, At
<1> QED BY <1>1, SoloAlways, WidgetTyped, PTL DEF LikeRemembered

-----------------------------------------------------------------------------
(* Buttons and the jobs that will enable them.                             *)

\* Job b will enable k on page p.
Holds(b, p, k) ==
  b # None /\ b.page = p /\ b.attached /\ b.op # "load" /\ ControlOf(b) = k

Busy(p, k) ==
  /\ k \in page[p].disabled <=> \E j \in Job : Holds(job[j], p, k)
  /\ \A i, j \in Job : Holds(job[i], p, k) /\ Holds(job[j], p, k) => i = j

BusyInv == \A p \in Page : \A k \in Control : Busy(p, k)

LEMMA HeldControl ==
  ASSUME NEW b \in PendingJob
  PROVE  /\ b.op # "load" => ControlOf(b) \in Control
         /\ \A p, k : ~Holds(Detached(b), p, k)
<1>1. b.op # "load" => b.op \in Post
  BY DEF PendingJob
<1>2. b.comment \in Comment \cup {None}
  BY DEF PendingJob
<1>3. b.op # "load" => ControlOf(b) \in Control
  BY <1>1, <1>2 DEF ControlOf, Control
<1> QED BY <1>3, DetachedFields DEF Holds

\* No job takes or leaves a button.
LEMMA SameBusy ==
  ASSUME Typed, BusyInv, \A p \in Page : page'[p].disabled = page[p].disabled,
         \A j \in Job, p \in Page, k \in Control : Holds(job'[j], p, k) <=> Holds(job[j], p, k)
  PROVE  BusyInv'
<1>1. ASSUME NEW p \in Page, NEW k \in Control PROVE Busy(p, k)'
  <2>1. Busy(p, k)
    BY DEF BusyInv
  <2>2. \A j \in Job : Holds(job'[j], p, k) <=> Holds(job[j], p, k)
    OBVIOUS
  <2>3. /\ k \in page'[p].disabled <=> \E j \in Job : Holds(job'[j], p, k)
        /\ \A i, j \in Job : Holds(job'[i], p, k) /\ Holds(job'[j], p, k) => i = j
    BY <2>1, <2>2 DEF Busy
  <2> QED BY <2>3 DEF Busy, Holds, ControlOf
<1> QED BY <1>1 DEF BusyInv

\* A job goes on, or begins or ends without a button.
LEMMA TurnBusy ==
  ASSUME Typed, BusyInv, \A p \in Page : page'[p].disabled = page[p].disabled,
         NEW j \in Job, NEW b, Turns(j, b),
         \A p \in Page, k \in Control : Holds(b, p, k) <=> Holds(job[j], p, k)
  PROVE  BusyInv'
<1>1. job'[j] = b /\ \A i \in Job \ {j} : job'[i] = job[i]
  BY TypedFacts DEF Turns
<1>2. ASSUME NEW i \in Job, NEW p \in Page, NEW k \in Control
      PROVE  Holds(job'[i], p, k) <=> Holds(job[i], p, k)
  BY <1>1
<1> QED BY <1>2, SameBusy

\* A job ends and enables its button, if it has one.
LEMMA DoneBusy ==
  ASSUME Typed, BusyInv, NEW j \in Job, job[j] # None, Turns(j, None), NEW ok,
         \A p \in Page : page'[p].disabled =
           (IF p = job[j].page THEN Enabled(job[j], ok) ELSE page[p].disabled)
  PROVE  BusyInv'
<1>1. job'[j] = None /\ \A i \in Job \ {j} : job'[i] = job[i]
  BY TypedFacts DEF Turns
<1>2. job[j] \in PendingJob /\ job[j].page \in Page
  BY TypedFacts DEF PendingJob
<1>3. ASSUME NEW p \in Page, NEW k \in Control PROVE Busy(p, k)'
  <2>1. Busy(p, k)
    BY DEF BusyInv
  <2>2. \A i \in Job : Holds(job'[i], p, k) <=> i # j /\ Holds(job[i], p, k)
    BY <1>1 DEF Holds
  <2>3. k \in page'[p].disabled <=> k \in page[p].disabled /\ ~Holds(job[j], p, k)
    <3>1. CASE p # job[j].page
      BY <3>1 DEF Holds
    <3>2. CASE p = job[j].page /\ ~job[j].attached
      BY <3>2 DEF Holds, Enabled
    <3>3. CASE p = job[j].page /\ job[j].attached /\ job[j].op # "load"
      BY <3>3 DEF Holds, Enabled
    <3>4. CASE p = job[j].page /\ job[j].op = "load"
      <4>1. ControlOf(job[j]) # k
        BY <3>4 DEF ControlOf, Control, Post
      <4> QED BY <3>4, <4>1 DEF Holds, Enabled
    <3> QED BY <3>1, <3>2, <3>3, <3>4
  <2>4. /\ k \in page'[p].disabled <=> \E i \in Job : Holds(job'[i], p, k)
        /\ \A i, l \in Job : Holds(job'[i], p, k) /\ Holds(job'[l], p, k) => i = l
    BY <2>1, <2>2, <2>3 DEF Busy
  <2> QED BY <2>4 DEF Busy, Holds, ControlOf
<1> QED BY <1>3 DEF BusyInv

\* A free button is taken.
LEMMA ClickBusy ==
  ASSUME Typed, BusyInv, NEW j \in Job, NEW p \in Page, NEW op \in Post,
         NEW c \in Comment \cup {None}, Click(j, p, op, c)
  PROVE  BusyInv'
<1> DEFINE l == Loads(p, op, c, 0)
           b == [l EXCEPT !.pc = "ask", !.t0 = now]
           taken == [op |-> op, comment |-> c]
<1>1. l \in PendingJob /\ l.op = op /\ l.comment = c /\ l.page = p /\ l.attached
  BY LoadsAnew
<1>2. Turns(j, b) /\ job[j] = None /\ taken \notin page[p].disabled
  BY DEF Click, Acts, Offered
<1>3. page' = [page EXCEPT ![p].disabled = @ \cup {taken}]
  BY DEF Click
<1> HIDE DEF l
<1>4. /\ b \in PendingJob /\ b.op = op /\ b.comment = c /\ b.page = p /\ b.attached
  BY <1>1, TypedFacts DEF PendingJob
<1>5. b # None
  BY <1>4
<1> HIDE DEF b
<1>6. job'[j] = b /\ \A i \in Job \ {j} : job'[i] = job[i]
  BY <1>2, TypedFacts DEF Turns
<1>7. \A q \in Page : page'[q].disabled =
        (IF q = p THEN page[p].disabled \cup {taken} ELSE page[q].disabled)
  BY <1>3, TypedFacts DEF PageView
<1>8. ASSUME NEW q \in Page, NEW k \in Control PROVE Busy(q, k)'
  <2>1. Busy(q, k) /\ Busy(p, taken)
    BY DEF BusyInv, Control
  <2>2. Holds(b, q, k) <=> q = p /\ k = taken
    <3>1. ControlOf(b) = taken /\ b.op # "load"
      BY <1>4 DEF ControlOf, Post
    <3> QED BY <1>4, <1>5, <3>1 DEF Holds
  <2>3. ~Holds(job[j], q, k)
    BY <1>2 DEF Holds
  <2>4. \A i \in Job : Holds(job'[i], q, k) <=>
           IF i = j THEN q = p /\ k = taken ELSE Holds(job[i], q, k)
    BY <1>6, <2>2
  <2>5. /\ k \in page'[q].disabled <=> \E i \in Job : Holds(job'[i], q, k)
        /\ \A i, m \in Job : Holds(job'[i], q, k) /\ Holds(job'[m], q, k) => i = m
    <3>1. CASE q = p /\ k = taken
      <4>1. \A i \in Job : ~Holds(job[i], q, k)
        BY <1>2, <2>1, <3>1 DEF Busy
      <4> QED BY <1>7, <2>4, <3>1, <4>1
    <3>2. CASE ~(q = p /\ k = taken)
      <4>1. k \in page'[q].disabled <=> k \in page[q].disabled
        BY <1>7, <3>2
      <4>2. \A i \in Job : Holds(job'[i], q, k) <=> Holds(job[i], q, k)
        BY <2>3, <2>4, <3>2
      <4> QED BY <2>1, <4>1, <4>2 DEF Busy
    <3> QED BY <3>1, <3>2
  <2> QED BY <2>5 DEF Busy, Holds, ControlOf
<1> QED BY <1>8 DEF BusyInv

\* The page begins anew with no button taken.
LEMMA OpenBusy ==
  ASSUME Typed, BusyInv, NEW j \in Job, NEW p \in Page, Open(j, p)
  PROVE  BusyInv'
<1> DEFINE l == Loads(p, "load", None, 0)
           b == [l EXCEPT !.token = kept, !.since = 0]
<1>1. l \in PendingJob /\ l.op = "load"
  BY LoadsAnew
<1>2. /\ job' = [i \in Job |-> IF i = j THEN b
                               ELSE IF job[i] # None /\ job[i].page = p THEN None ELSE job[i]]
      /\ page' = [page EXCEPT ![p] = Fresh(kept)] /\ job[j] = None
  BY DEF Open, Acts
<1> HIDE DEF l
<1>3. b.op = "load"
  BY <1>1 DEF PendingJob
<1> HIDE DEF b
<1>4. \A q \in Page : page'[q].disabled = (IF q = p THEN {} ELSE page[q].disabled)
  BY <1>2, TypedFacts DEF Fresh
<1>5. ASSUME NEW q \in Page, NEW k \in Control PROVE Busy(q, k)'
  <2>1. Busy(q, k)
    BY DEF BusyInv
  <2>2. \A i \in Job : Holds(job'[i], q, k) <=> q # p /\ Holds(job[i], q, k)
    <3>1. ASSUME NEW i \in Job PROVE Holds(job'[i], q, k) <=> q # p /\ Holds(job[i], q, k)
      <4>1. CASE i = j
        BY <1>2, <1>3, <4>1 DEF Holds
      <4>2. CASE i # j
        BY <1>2, <4>2 DEF Holds
      <4> QED BY <4>1, <4>2
    <3> QED BY <3>1
  <2>3. /\ k \in page'[q].disabled <=> \E i \in Job : Holds(job'[i], q, k)
        /\ \A i, m \in Job : Holds(job'[i], q, k) /\ Holds(job'[m], q, k) => i = m
    BY <1>4, <2>1, <2>2 DEF Busy
  <2> QED BY <2>3 DEF Busy, Holds, ControlOf
<1> QED BY <1>5 DEF BusyInv

LEMMA SortBusy ==
  ASSUME Typed, BusyInv, NEW j \in Job, NEW p \in Page, Sort(j, p)
  PROVE  BusyInv'
<1>1. PICK l : l = Loads(p, "load", None, 0)
  OBVIOUS
<1>2. l.op = "load" /\ Turns(j, l) /\ page' = page /\ job[j] = None
  BY <1>1, LoadsAnew DEF Sort, Acts
<1>3. \A q \in Page, k \in Control : Holds(l, q, k) <=> Holds(job[j], q, k)
  BY <1>2 DEF Holds
<1> QED BY <1>2, <1>3, TurnBusy

\* Jobs lose the buttons that go from the page.
LEMMA LostBusy ==
  ASSUME Typed, BusyInv, NEW p \in Page, NEW Gone,
         \A q \in Page : page'[q].disabled =
           (IF q = p THEN page[q].disabled \ Gone ELSE page[q].disabled),
         \A i \in Job : job'[i] =
           (IF job[i] # None /\ job[i].page = p /\ ControlOf(job[i]) \in Gone
            THEN Detached(job[i]) ELSE job[i])
  PROVE  BusyInv'
<1>1. ASSUME NEW q \in Page, NEW k \in Control PROVE Busy(q, k)'
  <2>1. Busy(q, k)
    BY DEF BusyInv
  <2>2. ASSUME NEW i \in Job
        PROVE  Holds(job'[i], q, k) <=> ~(q = p /\ k \in Gone) /\ Holds(job[i], q, k)
    <3>1. CASE job[i] # None /\ job[i].page = p /\ ControlOf(job[i]) \in Gone
      <4>1. ~Holds(job'[i], q, k)
        BY <3>1, HeldControl, TypedFacts
      <4>2. Holds(job[i], q, k) => q = p /\ k \in Gone
        BY <3>1 DEF Holds
      <4> QED BY <4>1, <4>2
    <3>2. CASE ~(job[i] # None /\ job[i].page = p /\ ControlOf(job[i]) \in Gone)
      <4>1. job'[i] = job[i]
        BY <3>2
      <4>2. Holds(job[i], q, k) => ~(q = p /\ k \in Gone)
        BY <3>2 DEF Holds
      <4> QED BY <4>1, <4>2
    <3> QED BY <3>1, <3>2
  <2>3. k \in page'[q].disabled <=> k \in page[q].disabled /\ ~(q = p /\ k \in Gone)
    OBVIOUS
  <2>4. /\ k \in page'[q].disabled <=> \E i \in Job : Holds(job'[i], q, k)
        /\ \A i, m \in Job : Holds(job'[i], q, k) /\ Holds(job'[m], q, k) => i = m
    BY <2>1, <2>2, <2>3 DEF Busy
  <2> QED BY <2>4 DEF Busy, Holds, ControlOf
<1> QED BY <1>1 DEF BusyInv

LEMMA CloseReplyBusy ==
  ASSUME Typed, BusyInv, NEW p \in Page, NEW c \in Comment, CloseReply(p, c)
  PROVE  BusyInv'
<1> DEFINE r == [op |-> "reply", comment |-> c]
<1>1. /\ page' = [page EXCEPT ![p].disabled = @ \ {r}]
      /\ job' = [i \in Job |-> IF job[i] # None /\ job[i].page = p /\ ControlOf(job[i]) = r
                               THEN [job[i] EXCEPT !.attached = FALSE] ELSE job[i]]
  BY DEF CloseReply
<1> HIDE DEF r
<1>2. \A q \in Page : page'[q].disabled =
        (IF q = p THEN page[q].disabled \ {r} ELSE page[q].disabled)
  BY <1>1, TypedFacts DEF PageView
<1>3. ASSUME NEW i \in Job
      PROVE  job'[i] = (IF job[i] # None /\ job[i].page = p /\ ControlOf(job[i]) \in {r}
                        THEN Detached(job[i]) ELSE job[i])
  BY <1>1 DEF Detached
<1> QED BY <1>2, <1>3, LostBusy

\* Between the click and the answer a job keeps its button.
LEMMA SameHolds ==
  ASSUME NEW b, NEW o, b # None, o # None, b.page = o.page, b.attached = o.attached,
         b.op = o.op, b.comment = o.comment
  PROVE  \A p \in Page, k \in Control : Holds(b, p, k) <=> Holds(o, p, k)
BY DEF Holds, ControlOf

LEMMA AskingBusy ==
  ASSUME Typed, BusyInv, NEW j \in Job, Issue(j) \/ Solved(j) \/ GateOver(j)
  PROVE  BusyInv'
<1>1. job[j] \in PendingJob /\ job[j] # None /\ page' = page
  BY AtFacts DEF Issue, Solved, GateOver, Send
<1>2. PICK b : /\ Turns(j, b)
               /\ \/ b = [job[j] EXCEPT !.pc = "wait"] \/ b = [job[j] EXCEPT !.pc = "sent"]
                  \/ b = [job[j] EXCEPT !.pc = "solve", !.issued = now \div Second]
  BY DEF Issue, Solved, GateOver, Send
<1>3. now \div Second \in Nat
  BY TypedFacts
<1>4. b \in PendingJob
  <2>1. CASE b \in {[job[j] EXCEPT !.pc = "wait"], [job[j] EXCEPT !.pc = "sent"]}
    BY <1>1, <2>1 DEF PendingJob
  <2>2. CASE b = [job[j] EXCEPT !.pc = "solve", !.issued = now \div Second]
    <3>1. PICK t \in Nat : t = now \div Second
      BY <1>3
    <3>2. b = [job[j] EXCEPT !.pc = "solve", !.issued = t]
      BY <2>2, <3>1
    <3> QED BY <1>1, <3>1, <3>2 DEF PendingJob
  <2> QED BY <1>2, <2>1, <2>2
<1>5. /\ b.page = job[j].page /\ b.attached = job[j].attached
      /\ b.op = job[j].op /\ b.comment = job[j].comment
  BY <1>1, <1>2, ZenonT(40) DEF PendingJob
<1>6. b # None
  BY <1>4
<1>7. \A p \in Page, k \in Control : Holds(b, p, k) <=> Holds(job[j], p, k)
  BY <1>1, <1>5, <1>6, SameHolds
<1> QED BY <1>1, <1>2, <1>7, TurnBusy

LEMMA ReadingBusy ==
  ASSUME Typed, BusyInv, NEW j \in Job, ReadCached(j) \/ ReadList(j) \/ ReadVoted(j)
  PROVE  BusyInv'
<1>1. job[j] \in PendingJob /\ job[j] # None /\ page' = page /\ version \in Nat
  <2>1. At(j, "list") \/ At(j, "voted")
    BY DEF ReadCached, ReadList, ReadVoted
  <2>2. page' = page
    BY DEF ReadCached, ReadList, ReadVoted
  <2> QED BY <2>1, <2>2, AtFacts, TypedFacts
<1>2. \E b \in PendingJob :
        /\ Turns(j, b)
        /\ b.page = job[j].page /\ b.attached = job[j].attached
        /\ b.op = job[j].op /\ b.comment = job[j].comment
  <2>1. CASE ReadCached(j)
    <3>1. PICK v \in 0..version, s \in SUBSET Comment :
            Turns(j, [job[j] EXCEPT !.pc = "render", !.version = v, !.shown = s])
      BY <2>1 DEF ReadCached
    <3>2. PICK b : b = [job[j] EXCEPT !.pc = "render", !.version = v, !.shown = s]
      OBVIOUS
    <3>3. v \in Nat
      BY <1>1, <3>1
    <3>4. b \in PendingJob
      BY <1>1, <3>1, <3>2, <3>3 DEF PendingJob
    <3>5. /\ b.page = job[j].page /\ b.attached = job[j].attached
          /\ b.op = job[j].op /\ b.comment = job[j].comment
      BY <1>1, <3>2 DEF PendingJob
    <3> QED BY <3>1, <3>2, <3>4, <3>5
  <2>2. CASE ReadList(j)
    <3> DEFINE s == {c \in Comment : status[c] = "approved"}
               b == [job[j] EXCEPT !.pc = "voted", !.version = version, !.shown = s]
    <3>1. Turns(j, b)
      BY <2>2 DEF ReadList
    <3>2. s \in SUBSET Comment
      OBVIOUS
    <3> HIDE DEF s
    <3>3. b \in PendingJob
      BY <1>1, <3>2 DEF PendingJob
    <3>4. /\ b.page = job[j].page /\ b.attached = job[j].attached
          /\ b.op = job[j].op /\ b.comment = job[j].comment
      BY <1>1 DEF PendingJob
    <3> HIDE DEF b
    <3> QED BY <3>1, <3>3, <3>4
  <2>3. CASE ReadVoted(j)
    <3> DEFINE s == {c \in job[j].shown : Liked(c, job[j].token)}
               b == [job[j] EXCEPT !.pc = "render", !.voted = s]
    <3>1. Turns(j, b)
      BY <2>3 DEF ReadVoted
    <3>2. s \in SUBSET Comment
      BY <1>1 DEF PendingJob
    <3> HIDE DEF s
    <3>3. b \in PendingJob
      BY <1>1, <3>2 DEF PendingJob
    <3>4. /\ b.page = job[j].page /\ b.attached = job[j].attached
          /\ b.op = job[j].op /\ b.comment = job[j].comment
      BY <1>1 DEF PendingJob
    <3> HIDE DEF b
    <3> QED BY <3>1, <3>3, <3>4
  <2> QED BY <2>1, <2>2, <2>3
<1>3. PICK b \in PendingJob :
        /\ Turns(j, b)
        /\ b.page = job[j].page /\ b.attached = job[j].attached
        /\ b.op = job[j].op /\ b.comment = job[j].comment
  BY <1>2
<1>4. b # None
  BY <1>3
<1>5. \A p \in Page, k \in Control : Holds(b, p, k) <=> Holds(job[j], p, k)
  BY <1>1, <1>3, <1>4, SameHolds
<1> QED BY <1>1, <1>3, <1>5, TurnBusy

\* An answer enables the button, whatever it says, but for a comment that was
\* stored: its form is held until the list is drawn.
LEMMA AnsweredBusy ==
  ASSUME Typed, BusyInv, NEW j \in Job,
         LikeAnswered(j) \/ FlagAnswered(j) \/ ReactionAnswered(j) \/ CommentAnswered(j)
  PROVE  BusyInv'
<1>1. /\ job[j] # None /\ job[j] \in PendingJob /\ job[j].page \in Page /\ request[j] \in Handler
      /\ page \in [Page -> PageView] /\ \A p \in Page : page[p] \in PageView
  BY SentFacts, TypedFacts DEF LikeAnswered, FlagAnswered, ReactionAnswered, CommentAnswered
<1>2. CASE CommentAnswered(j) /\ request[j].answer = "ok"
  <2>1. PICK l : l = Loads(job[j].page, job[j].op, job[j].comment, request[j].stored)
    OBVIOUS
  <2>2. job[j].op \in Post \cup {"load"} /\ job[j].comment \in Comment \cup {None}
        /\ request[j].stored \in Nat
    BY <1>1 DEF PendingJob, Handler
  <2>3. /\ l \in PendingJob /\ l.op = job[j].op /\ l.comment = job[j].comment
        /\ l.page = job[j].page
    BY <1>1, <2>1, <2>2, LoadsTyped
  <2>4. Turns(j, [l EXCEPT !.attached = job[j].attached]) /\ page' = page
    BY <1>2, <2>1 DEF CommentAnswered
  <2>5. PICK b : b = [l EXCEPT !.attached = job[j].attached]
    OBVIOUS
  <2>6. /\ b \in PendingJob /\ b.op = job[j].op /\ b.comment = job[j].comment
        /\ b.page = job[j].page /\ b.attached = job[j].attached
    BY <1>1, <2>3, <2>5 DEF PendingJob
  <2>7. b # None
    BY <2>6
  <2>8. \A p \in Page, k \in Control : Holds(b, p, k) <=> Holds(job[j], p, k)
    BY <1>1, <2>6, <2>7, SameHolds
  <2> QED BY <2>4, <2>5, <2>8, TurnBusy
<1>3. CASE ~(CommentAnswered(j) /\ request[j].answer = "ok")
  <2>1. PICK ok : \A p \in Page : page'[p].disabled =
          (IF p = job[j].page THEN Enabled(job[j], ok) ELSE page[p].disabled)
    <3>1. CASE LikeAnswered(j)
      <4>1. ASSUME NEW p \in Page
            PROVE  page'[p].disabled = (IF p = job[j].page THEN Enabled(job[j], request[j].answer = "ok")
                                                           ELSE page[p].disabled)
        <5>1. CASE p = job[j].page
          <6>1. \E t, v, d : /\ page'[p] = [page[p] EXCEPT !.token = t, !.voted = v, !.disabled = d]
                             /\ d = Enabled(job[j], request[j].answer = "ok")
            BY <3>1, <5>1, Zenon DEF LikeAnswered
          <6>2. PICK t, v, d : /\ page'[p] = [page[p] EXCEPT !.token = t, !.voted = v, !.disabled = d]
                               /\ d = Enabled(job[j], request[j].answer = "ok")
            BY <6>1
          <6>3. page'[p].disabled = d
            BY <1>1, <6>2 DEF PageView
          <6> QED BY <5>1, <6>2, <6>3
        <5>2. CASE p # job[j].page
          <6>1. \E x : page'[p] = [page[p] EXCEPT !.behind = x]
            BY <3>1, <5>2, Zenon DEF LikeAnswered
          <6>2. PICK x : page'[p] = [page[p] EXCEPT !.behind = x]
            BY <6>1
          <6> QED BY <1>1, <5>2, <6>2 DEF PageView
        <5> QED BY <5>1, <5>2
      <4> QED BY <4>1
    <3>2. CASE FlagAnswered(j)
      <4>1. \E d, f : /\ page' = [page EXCEPT ![job[j].page].disabled = d, ![job[j].page].flagged = f]
                      /\ d = Enabled(job[j], request[j].answer = "ok")
        BY <3>2, Zenon DEF FlagAnswered
      <4>2. PICK d, f : /\ page' = [page EXCEPT ![job[j].page].disabled = d, ![job[j].page].flagged = f]
                        /\ d = Enabled(job[j], request[j].answer = "ok")
        BY <4>1
      <4>3. ASSUME NEW p \in Page
            PROVE  page'[p].disabled = (IF p = job[j].page THEN d ELSE page[p].disabled)
        <5>1. page[p] \in PageView
          BY <1>1
        <5> QED BY <1>1, <4>2, <5>1 DEF PageView
      <4> QED BY <4>2, <4>3, ZenonT(40)
    <3>3. CASE ReactionAnswered(j) \/ CommentAnswered(j)
      <4>1. \E d, ok : page' = [page EXCEPT ![job[j].page].disabled = d] /\ d = Enabled(job[j], ok)
        BY <1>3, <3>3, Zenon DEF ReactionAnswered, CommentAnswered
      <4>2. PICK d, ok : page' = [page EXCEPT ![job[j].page].disabled = d] /\ d = Enabled(job[j], ok)
        BY <4>1
      <4>3. ASSUME NEW p \in Page
            PROVE  page'[p].disabled = (IF p = job[j].page THEN d ELSE page[p].disabled)
        <5>1. page[p] \in PageView
          BY <1>1
        <5> QED BY <1>1, <4>2, <5>1 DEF PageView
      <4> QED BY <4>2, <4>3
    <3> QED BY <3>1, <3>2, <3>3
  <2>2. Turns(j, None)
    BY <1>3 DEF LikeAnswered, FlagAnswered, ReactionAnswered, CommentAnswered
  <2> QED BY <1>1, <2>1, <2>2, DoneBusy
<1> QED BY <1>2, <1>3

\* The list is drawn: its buttons go, with the jobs' hold on them, and the form
\* of the job is enabled.
LEMMA RenderBusy ==
  ASSUME Typed, BusyInv, NEW j \in Job, Render(j)
  PROVE  BusyInv'
<1> DEFINE p == job[j].page
           d == {k \in Enabled(job[j], TRUE) : ~OfList(k)}
           w == [page[p] EXCEPT !.version = job[j].version, !.shown = job[j].shown,
                                !.voted = job[j].voted, !.flagged = {}, !.disabled = d]
<1>1. /\ job[j] # None /\ job[j] \in PendingJob /\ p \in Page
      /\ page \in [Page -> PageView] /\ \A q \in Page : page[q] \in PageView
  BY AtFacts, TypedFacts DEF Render
<1>2. /\ page' = [page EXCEPT ![p] = w]
      /\ job' = [i \in Job |->
                  IF i = j THEN None
                  ELSE IF job[i] # None /\ job[i].page = p /\ OfList(ControlOf(job[i]))
                       THEN [job[i] EXCEPT !.attached = FALSE] ELSE job[i]]
  BY DEF Render
<1>3. w.disabled = d
  <2> HIDE DEF d
  <2> QED BY <1>1 DEF PageView
<1> HIDE DEF w
<1>4. \A q \in Page : page'[q].disabled = (IF q = p THEN d ELSE page[q].disabled)
  BY <1>1, <1>2, <1>3
<1>5. ASSUME NEW q \in Page, NEW k \in Control PROVE Busy(q, k)'
  <2>1. Busy(q, k)
    BY DEF BusyInv
  <2>2. ASSUME NEW i \in Job
        PROVE  Holds(job'[i], q, k) <=> i # j /\ ~(q = p /\ OfList(k)) /\ Holds(job[i], q, k)
    <3>1. CASE i = j
      BY <1>2, <3>1 DEF Holds
    <3>2. CASE i # j /\ job[i] # None /\ job[i].page = p /\ OfList(ControlOf(job[i]))
      <4>1. job'[i] = Detached(job[i])
        BY <1>2, <3>2 DEF Detached
      <4>2. ~Holds(job'[i], q, k)
        BY <3>2, <4>1, HeldControl, TypedFacts
      <4>3. Holds(job[i], q, k) => q = p /\ OfList(k)
        BY <3>2 DEF Holds
      <4> QED BY <4>2, <4>3
    <3>3. CASE i # j /\ ~(job[i] # None /\ job[i].page = p /\ OfList(ControlOf(job[i])))
      <4>1. job'[i] = job[i]
        BY <1>2, <3>3
      <4>2. Holds(job[i], q, k) => ~(q = p /\ OfList(k))
        BY <3>3 DEF Holds
      <4> QED BY <3>3, <4>1, <4>2
    <3> QED BY <3>1, <3>2, <3>3
  <2>3. k \in page'[q].disabled <=>
          k \in page[q].disabled /\ ~Holds(job[j], q, k) /\ ~(q = p /\ OfList(k))
    <3>1. CASE q # p
      BY <1>4, <3>1 DEF Holds
    <3>2. CASE q = p
      <4>1. k \in Enabled(job[j], TRUE) <=> k \in page[p].disabled /\ ~Holds(job[j], p, k)
        <5>1. CASE ~job[j].attached
          BY <5>1 DEF Holds, Enabled
        <5>2. CASE job[j].attached /\ job[j].op # "load"
          BY <1>1, <5>2 DEF Holds, Enabled
        <5>3. CASE job[j].op = "load"
          <6>1. ControlOf(job[j]) # k
            BY <5>3 DEF ControlOf, Control, Post
          <6> QED BY <5>3, <6>1 DEF Holds, Enabled
        <5> QED BY <5>1, <5>2, <5>3
      <4> QED BY <1>4, <3>2, <4>1
    <3> QED BY <3>1, <3>2
  <2>4. /\ k \in page'[q].disabled <=> \E i \in Job : Holds(job'[i], q, k)
        /\ \A i, m \in Job : Holds(job'[i], q, k) /\ Holds(job'[m], q, k) => i = m
    BY <2>1, <2>2, <2>3 DEF Busy
  <2> QED BY <2>4 DEF Busy, Holds, ControlOf
<1> QED BY <1>5 DEF BusyInv

LEMMA JobFailsBusy ==
  ASSUME Typed, BusyInv, NEW j \in Job, JobFails(j)
  PROVE  BusyInv'
<1>1. job[j] # None /\ job[j].page \in Page /\ Turns(j, None)
      /\ page' = [page EXCEPT ![job[j].page].disabled = Enabled(job[j], FALSE)]
  BY TypedFacts DEF JobFails, PendingJob
<1>2. PICK d : d = Enabled(job[j], FALSE)
  OBVIOUS
<1>3. ASSUME NEW p \in Page
      PROVE  page'[p].disabled = (IF p = job[j].page THEN d ELSE page[p].disabled)
  <2>1. page[p] \in PageView /\ page \in [Page -> PageView]
    BY TypedFacts
  <2> QED BY <1>1, <1>2, <2>1 DEF PageView
<1> QED BY <1>1, <1>2, <1>3, DoneBusy

LEMMA BusyNext ==
  ASSUME Typed, BusyInv, [Next]_vars
  PROVE  BusyInv'
<1>1. ASSUME NEW j \in Job, VisitorStep(j) PROVE BusyInv'
  BY <1>1, ClickBusy, OpenBusy, SortBusy DEF VisitorStep
<1>2. ASSUME NEW j \in Job, ClientStep(j) PROVE BusyInv'
  BY <1>2, AskingBusy, AnsweredBusy, ReadingBusy, RenderBusy DEF ClientStep
<1>3. ASSUME NEW j \in Job, JobFails(j) PROVE BusyInv'
  BY <1>3, JobFailsBusy
<1>4. ASSUME NEW p \in Page, NEW c \in Comment, CloseReply(p, c) PROVE BusyInv'
  BY <1>4, CloseReplyBusy
<1>5. CASE UNCHANGED <<page, job>>
  BY <1>5, SameBusy
<1>6. \/ \E j \in Job : VisitorStep(j) \/ ClientStep(j) \/ JobFails(j)
      \/ \E p \in Page, c \in Comment : CloseReply(p, c)
      \/ UNCHANGED <<page, job>>
  BY DEF Next, ServerStep, Unheard, HandlerFails, Tick, client, vars
<1> QED BY <1>1, <1>2, <1>3, <1>4, <1>5, <1>6

LEMMA BusyInit == Init => BusyInv
<1> SUFFICES ASSUME Init PROVE BusyInv
  OBVIOUS
<1>1. [Fresh(NoToken) EXCEPT !.shown = Comment].disabled = {}
  BY DEF Fresh
<1>2. (\A p \in Page : page[p].disabled = {}) /\ \A j \in Job : job[j] = None
  BY <1>1 DEF Init
<1> QED BY <1>2 DEF BusyInv, Busy, Holds

\* A button or form is disabled exactly while one job is under way that will
\* enable it, when the browser has finitely many jobs.
THEOREM BusyIsPending ==
  ASSUME IsFiniteSet(Job)
  PROVE  Spec => []BusyMeansPending
<1>1. Spec => []BusyInv
  BY BusyInit, BusyNext, WidgetTyped, PTL DEF Spec
<1>2. Typed /\ BusyInv => BusyMeansPending
  <2> SUFFICES ASSUME Typed, BusyInv, NEW p \in Page
               PROVE  LET attached == {j \in Job : job[j] # None /\ job[j].page = p
                                                   /\ job[j].attached /\ job[j].op # "load"}
                      IN  /\ page[p].disabled = {ControlOf(job[j]) : j \in attached}
                          /\ Cardinality(attached) = Cardinality(page[p].disabled)
    BY DEF BusyMeansPending
  <2> DEFINE attached == {j \in Job : job[j] # None /\ job[j].page = p
                                      /\ job[j].attached /\ job[j].op # "load"}
             f == [j \in attached |-> ControlOf(job[j])]
  <2>1. \A k \in Control : Busy(p, k)
    BY DEF BusyInv
  <2>2. page[p].disabled \subseteq Control
    BY TypedFacts DEF PageView
  <2>3. \A j \in attached : ControlOf(job[j]) \in Control /\ Holds(job[j], p, ControlOf(job[j]))
    BY HeldControl, TypedFacts DEF Holds
  <2>4. \A j \in Job, k \in Control : Holds(job[j], p, k) => j \in attached /\ ControlOf(job[j]) = k
    BY DEF Holds
  <2>5. page[p].disabled = {ControlOf(job[j]) : j \in attached}
    <3> HIDE DEF attached
    <3>1. ASSUME NEW k \in page[p].disabled PROVE k \in {ControlOf(job[j]) : j \in attached}
      <4>1. PICK j \in Job : Holds(job[j], p, k)
        BY <2>1, <2>2 DEF Busy
      <4> QED BY <2>2, <2>4, <4>1
    <3>2. ASSUME NEW j \in attached PROVE ControlOf(job[j]) \in page[p].disabled
      <4>1. j \in Job
        BY DEF attached
      <4> QED BY <2>1, <2>3, <4>1 DEF Busy
    <3> QED BY <3>1, <3>2
  <2>6. f \in Bijection(attached, page[p].disabled)
    <3>1. attached \subseteq Job
      OBVIOUS
    <3> HIDE DEF attached
    <3>2. f \in [attached -> page[p].disabled]
      BY <2>5
    <3>3. ASSUME NEW i \in attached, NEW j \in attached, f[i] = f[j] PROVE i = j
      <4>1. f[i] = ControlOf(job[i]) /\ f[j] = ControlOf(job[j])
        OBVIOUS
      <4> HIDE DEF f
      <4> QED BY <2>1, <2>3, <3>1, <3>3, <4>1 DEF Busy
    <3>4. \A k \in page[p].disabled : \E j \in attached : f[j] = k
      BY <2>5
    <3> HIDE DEF f
    <3> QED BY <3>2, <3>3, <3>4 DEF Bijection, Injection, Surjection, IsInjective
  <2>7. IsFiniteSet(attached)
    BY FS_Subset
  <2>8. Cardinality(attached) = Cardinality(page[p].disabled)
    <3> HIDE DEF attached, f
    <3> QED BY <2>6, <2>7, FS_Bijection DEF ExistsBijection
  <2> QED BY <2>5, <2>8
<1> QED BY <1>1, <1>2, WidgetTyped, PTL

=============================================================================
