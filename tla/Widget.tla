------------------------------- MODULE Widget -------------------------------
(***************************************************************************)
(* The comments widget: the pages that one browser has open on an article, *)
(* against the handlers of Engagement.                                     *)
(*                                                                         *)
(* A click asks for a challenge, solves it in a worker, waits if its form  *)
(* waits, posts, and takes the answer; the list is loaded when a page is   *)
(* opened, sorted, or has posted.  The browser keeps one anonymous voter   *)
(* token for all pages; each page reads it once and then goes by its own.  *)
(***************************************************************************)
EXTENDS Engagement

CONSTANTS
  Page,
  Margin,     \* the ticks that waitForGate adds to the gate
  Plans       \* bounds of the model: what the visitor may do in one behaviour

Ops == {"like", "flag", "post", "reply", "react", "open", "sort"}

\* Which actions, how many of them, how far the clock runs.
Plan == [ops: SUBSET Ops, clicks: Nat, time: Nat]

VARIABLES
  plan,    \* the bounds of this behaviour; never changes
  kept,    \* localStorage: the voter token
  page,    \* page -> what it shows and knows
  job,     \* job -> what the page is waiting for, or None
  clicks,  \* how often the visitor did something
  liked,   \* history: the comments whose like was answered "ok"
  excuse   \* history: why this browser may be several voters

client == <<plan, kept, page, job, clicks, liked, excuse>>
vars == <<server, client>>

Token == Voter \cup {NoToken}
Reason == {"lost", "overlap", "behind"}

\* A button or form; those of the list go when the list is drawn again.
Control == [op: Post, comment: Comment \cup {None}]
OfList(k) == k.comment # None

PageView ==
  [token: Token, version: Nat, shown: SUBSET Comment, voted: SUBSET Comment,
   flagged: SUBSET Comment,
   disabled: SUBSET Control,
   behind: BOOLEAN]   \* history: another page has stored a token since

\* since and liked are history: what the page knew when the load began.
PendingJob ==
  [op: Post \cup {"load"}, page: Page, comment: Comment \cup {None},
   pc: {"ask", "solve", "wait", "sent", "list", "voted", "render"},
   t0: Nat, issued: Nat,
   attached: BOOLEAN,   \* its button is still on the page
   token: Token, version: Nat, shown: SUBSET Comment, voted: SUBSET Comment,
   since: Nat, liked: SUBSET Comment]

ASSUME WidgetAssumption ==
  Margin \in Nat /\ Plans \subseteq Plan /\ None \notin PendingJob

WidgetTypeOK ==
  /\ EngagementTypeOK
  /\ plan \in Plans
  /\ kept \in Token
  /\ page \in [Page -> PageView]
  /\ job \in [Job -> PendingJob \cup {None}]
  /\ clicks \in 0..plan.clicks
  /\ liked \in SUBSET Comment
  /\ excuse \in SUBSET Reason

\* A page that is loading its list.
Fresh(t) == [token |-> t, version |-> 0, shown |-> {}, voted |-> {}, flagged |-> {},
             disabled |-> {}, behind |-> FALSE]

Init ==
  /\ EngagementInit
  /\ plan \in Plans
  /\ kept = NoToken
  /\ page = [p \in Page |-> [Fresh(NoToken) EXCEPT !.shown = Comment]]
  /\ job = [j \in Job |-> None]
  /\ clicks = 0
  /\ liked = {}
  /\ excuse = {}

-----------------------------------------------------------------------------
(* Clicks.                                                                 *)

At(j, pc) == job[j] # None /\ job[j].pc = pc
Turns(j, b) == job' = [job EXCEPT ![j] = b]

ControlOf(b) == [op |-> b.op, comment |-> b.comment]

Loads(p, op, c, expected) ==
  [op |-> op, page |-> p, comment |-> c, pc |-> "list", t0 |-> 0, issued |-> 0,
   attached |-> TRUE, token |-> page[p].token, version |-> 0, shown |-> {}, voted |-> {},
   since |-> IF expected > page[p].version THEN expected ELSE page[p].version,
   liked |-> liked]

\* The visitor's next action, in a free slot.
Acts(j, op) ==
  /\ op \in plan.ops /\ clicks < plan.clicks
  /\ job[j] = None /\ request[j] = None
  /\ clicks' = clicks + 1

WaitTicks == Gate * Second + Margin

\* like, flag, reply: the buttons of a comment; post, react: those of the page.
Offered(p, op, c) ==
  /\ IF op \in {"like", "flag", "reply"} THEN c \in page[p].shown ELSE c = None
  /\ [op |-> op, comment |-> c] \notin page[p].disabled
  /\ op = "like" => c \notin page[p].voted
  /\ op = "flag" => c \notin page[p].flagged

Click(j, p, op, c) ==
  /\ Acts(j, op)
  /\ Offered(p, op, c)
  /\ page' = [page EXCEPT ![p].disabled = @ \cup {[op |-> op, comment |-> c]}]
  /\ Turns(j, [Loads(p, op, c, 0) EXCEPT !.pc = "ask", !.t0 = now])
  /\ UNCHANGED <<server, plan, kept, liked, excuse>>

\* The page is opened, or opened anew; what was under way in it is lost.
Open(j, p) ==
  /\ Acts(j, "open")
  /\ page' = [page EXCEPT ![p] = Fresh(kept)]
  /\ job' = [i \in Job |->
               IF i = j THEN [Loads(p, "load", None, 0) EXCEPT !.token = kept, !.since = 0]
               ELSE IF job[i] # None /\ job[i].page = p THEN None ELSE job[i]]
  /\ excuse' = IF \E i \in Job : At(i, "sent") /\ job[i].page = p /\ job[i].op = "like"
               THEN excuse \cup {"lost"} ELSE excuse
  /\ UNCHANGED <<server, plan, kept, liked>>

\* Another order of the list is chosen.
Sort(j, p) ==
  /\ Acts(j, "sort")
  /\ Turns(j, Loads(p, "load", None, 0))
  /\ UNCHANGED <<server, plan, kept, page, liked, excuse>>

\* Closing a reply form forgets that it is busy.
CloseReply(p, c) ==
  LET k == [op |-> "reply", comment |-> c] IN
  /\ k \in page[p].disabled
  /\ page' = [page EXCEPT ![p].disabled = @ \ {k}]
  /\ job' = [i \in Job |-> IF job[i] # None /\ job[i].page = p /\ ControlOf(job[i]) = k
                           THEN [job[i] EXCEPT !.attached = FALSE] ELSE job[i]]
  /\ UNCHANGED <<server, plan, kept, clicks, liked, excuse>>

-----------------------------------------------------------------------------
(* Challenge, work, wait, post.                                            *)

\* The Worker signs the challenge, some time after it was asked to.
Issue(j) ==
  /\ At(j, "ask")
  /\ Turns(j, [job[j] EXCEPT !.pc = "solve", !.issued = now \div Second])
  /\ UNCHANGED <<server, plan, kept, page, clicks, liked, excuse>>

Waits(op) == op \in {"post", "react"}

\* Faulty variant: without the margin.
WaitExact(b) == now >= b.t0 + Gate * Second

WaitOver(b) == now >= b.t0 + WaitTicks

\* A browser is two voters once it posts two likes without a token.
Excuses(j) ==
  IF job[j].op # "like" \/ page[job[j].page].token # NoToken THEN {}
  ELSE (IF page[job[j].page].behind THEN {"behind"} ELSE {})
       \cup (IF \E i \in Job \ {j} : request[i] # None /\ request[i].op = "like"
             THEN {"overlap"} ELSE {})

\* The token is the one the page knows when it posts.
Send(j) ==
  LET b == job[j] IN
  /\ request' = [request EXCEPT ![j] =
       NewHandler(b.op, b.comment, IF b.op = "like" THEN page[b.page].token ELSE NoToken,
                  b.issued)]
  /\ Turns(j, [b EXCEPT !.pc = "sent"])
  /\ excuse' = excuse \cup Excuses(j)
  /\ UNCHANGED <<now, tables, minted, plan, kept, page, clicks, liked>>

Solved(j) ==
  /\ At(j, "solve")
  /\ IF Waits(job[j].op)
     THEN Turns(j, [job[j] EXCEPT !.pc = "wait"]) /\ UNCHANGED <<server, plan, kept, page, clicks, liked, excuse>>
     ELSE Send(j)

GateOver(j) ==
  /\ At(j, "wait") /\ WaitOver(job[j])
  /\ Send(j)

-----------------------------------------------------------------------------
(* Answers.                                                                *)

\* Faulty variant: enabled again only when all went well.
EnabledIfOk(b, ok) ==
  IF ok /\ b.attached THEN page[b.page].disabled \ {ControlOf(b)} ELSE page[b.page].disabled

\* finally: whatever happened, the button or form is enabled again.
Enabled(b, ok) ==
  IF b.attached THEN page[b.page].disabled \ {ControlOf(b)} ELSE page[b.page].disabled

Clears(j) == request' = [request EXCEPT ![j] = None]

\* Faulty variant: the token is for the next visit only.
LearnsLater(t, old) == old

Learns(t, old) == IF t = NoToken THEN old ELSE t

\* A like that was stored, or that was found stored, is shown; a token is kept.
LikeAnswered(j) ==
  LET b == job[j]  h == request[j]  shows == h.answer \in {"ok", "again"} /\ b.attached IN
  /\ At(j, "sent") /\ Answered(j) /\ b.op = "like"
  /\ page' = [p \in Page |->
       IF p = b.page
       THEN [page[p] EXCEPT !.token = Learns(h.gives, @),
                            !.voted = IF shows THEN @ \cup {b.comment} ELSE @,
                            !.disabled = Enabled(b, h.answer = "ok")]
       ELSE [page[p] EXCEPT !.behind = @ \/ h.gives # NoToken]]
  /\ kept' = IF h.gives # NoToken THEN h.gives ELSE kept
  /\ liked' = IF h.answer = "ok" THEN liked \cup {b.comment} ELSE liked
  /\ Turns(j, None) /\ Clears(j)
  /\ UNCHANGED <<now, tables, minted, plan, clicks, excuse>>

FlagAnswered(j) ==
  LET b == job[j]  ok == request[j].answer = "ok" IN
  /\ At(j, "sent") /\ Answered(j) /\ b.op = "flag"
  /\ page' = [page EXCEPT ![b.page].disabled = Enabled(b, ok),
                          ![b.page].flagged = IF ok /\ b.attached THEN @ \cup {b.comment} ELSE @]
  /\ Turns(j, None) /\ Clears(j)
  /\ UNCHANGED <<now, tables, minted, plan, kept, clicks, liked, excuse>>

ReactionAnswered(j) ==
  LET b == job[j] IN
  /\ At(j, "sent") /\ Answered(j) /\ b.op = "react"
  /\ page' = [page EXCEPT ![b.page].disabled = Enabled(b, request[j].answer = "ok")]
  /\ Turns(j, None) /\ Clears(j)
  /\ UNCHANGED <<now, tables, minted, plan, kept, clicks, liked, excuse>>

\* A stored comment loads the list; the form stays busy meanwhile.
CommentAnswered(j) ==
  LET b == job[j]  ok == request[j].answer = "ok" IN
  /\ At(j, "sent") /\ Answered(j) /\ b.op \in {"post", "reply"}
  /\ IF ok
     THEN /\ Turns(j, [Loads(b.page, b.op, b.comment, request[j].stored) EXCEPT
                         !.attached = b.attached])
          /\ UNCHANGED page
     ELSE /\ Turns(j, None)
          /\ page' = [page EXCEPT ![b.page].disabled = Enabled(b, ok)]
  /\ Clears(j)
  /\ UNCHANGED <<now, tables, minted, plan, kept, clicks, liked, excuse>>

-----------------------------------------------------------------------------
(* Loading the list.                                                       *)

\* Faulty variant: what was made for one token is kept for everyone.
PersonalNever(b) == FALSE

\* With a token the list is made for this browser and never cached.
Personal(b) == b.token # NoToken

\* Without one it may come from any cache, as PublicList says.
ReadCached(j) ==
  /\ At(j, "list") /\ ~Personal(job[j])
  /\ \E v \in 0..version, s \in SUBSET Comment :
       Turns(j, [job[j] EXCEPT !.pc = "render", !.version = v, !.shown = s])
  /\ UNCHANGED <<server, plan, kept, page, clicks, liked, excuse>>

ReadList(j) ==
  /\ At(j, "list") /\ Personal(job[j])
  /\ Turns(j, [job[j] EXCEPT !.pc = "voted", !.version = version,
                             !.shown = {c \in Comment : status[c] = "approved"}])
  /\ UNCHANGED <<server, plan, kept, page, clicks, liked, excuse>>

\* A query of its own: what this voter has liked.
ReadVoted(j) ==
  /\ At(j, "voted")
  /\ Turns(j, [job[j] EXCEPT !.pc = "render",
                             !.voted = {c \in job[j].shown : Liked(c, job[j].token)}])
  /\ UNCHANGED <<server, plan, kept, page, clicks, liked, excuse>>

\* The list is drawn anew: its old buttons are gone, for those who wait too.
Render(j) ==
  LET b == job[j]  p == b.page IN
  /\ At(j, "render")
  /\ page' = [page EXCEPT ![p] =
       [@ EXCEPT !.version = b.version, !.shown = b.shown, !.voted = b.voted, !.flagged = {},
                 !.disabled = {k \in Enabled(b, TRUE) : ~OfList(k)}]]
  /\ job' = [i \in Job |->
       IF i = j THEN None
       ELSE IF job[i] # None /\ job[i].page = p /\ OfList(ControlOf(job[i]))
            THEN [job[i] EXCEPT !.attached = FALSE] ELSE job[i]]
  /\ UNCHANGED <<server, plan, kept, clicks, liked, excuse>>

-----------------------------------------------------------------------------
(* Failures.                                                               *)

\* A fetch is rejected or the worker fails; a handler at work goes on.
JobFails(j) ==
  LET b == job[j] IN
  /\ job[j] # None
  /\ Turns(j, None)
  /\ page' = [page EXCEPT ![b.page].disabled = Enabled(b, FALSE)]
  /\ excuse' = IF b.pc = "sent" /\ b.op = "like" THEN excuse \cup {"lost"} ELSE excuse
  /\ UNCHANGED <<server, plan, kept, clicks, liked>>

\* Nobody waits for the answer any more.
Unheard(j) ==
  /\ Answered(j) /\ job[j] = None
  /\ Clears(j)
  /\ UNCHANGED <<now, tables, minted, client>>

\* The count of a stored like fails: its token is lost with the answer.
HandlerFails(j) ==
  /\ ServerFails(j)
  /\ excuse' = IF Serving(j, "count") /\ request[j].op = "like"
               THEN excuse \cup {"lost"} ELSE excuse
  /\ UNCHANGED <<plan, kept, page, job, clicks, liked>>

-----------------------------------------------------------------------------

ClientStep(j) ==
  \/ Issue(j) \/ Solved(j) \/ GateOver(j)
  \/ LikeAnswered(j) \/ FlagAnswered(j) \/ ReactionAnswered(j) \/ CommentAnswered(j)
  \/ ReadCached(j) \/ ReadList(j) \/ ReadVoted(j) \/ Render(j)

ServerStep(j) == HandlerStep(j) /\ UNCHANGED client

Tick ==
  /\ now < plan.time
  /\ now' = now + 1
  /\ UNCHANGED <<tables, minted, request, client>>

VisitorStep(j) ==
  \/ \E p \in Page, op \in Post, c \in Comment \cup {None} : Click(j, p, op, c)
  \/ \E p \in Page : Open(j, p) \/ Sort(j, p)

Next ==
  \/ \E j \in Job : VisitorStep(j) \/ ClientStep(j) \/ ServerStep(j)
                    \/ JobFails(j) \/ Unheard(j) \/ HandlerFails(j)
  \/ \E p \in Page, c \in Comment : CloseReply(p, c)
  \/ \E c \in Comment, s \in {"approved", "pending", "gone"} :
       Moderate(c, s) /\ UNCHANGED client
  \/ Tick

Spec == Init /\ [][Next]_vars

-----------------------------------------------------------------------------
(* Properties.                                                             *)

\* comments.ts, "a returning browser can like each comment once": unless its
\* token was lost with an answer, or it liked without one twice at a time or
\* in two pages.
TwiceLikedIsExcused ==
  excuse = {} => \A c \in Comment : Cardinality({l \in likes : l.comment = c}) <= 1

\* What the load has brought is now on the page.
Shows(j) ==
  LET b == job[j]  view == page'[b.page] IN
  /\ At(j, "render") /\ job'[j] = None
  /\ view.version = b.version /\ view.shown = b.shown /\ view.voted = b.voted

\* Then every list made for this browser shows the likes it was told of.
LikeRemembered ==
  [][\A j \in Job :
       Shows(j) /\ job[j].token # NoToken /\ excuse = {}
       => job[j].liked \cap job[j].shown \subseteq job[j].voted]_vars

\* widget.js, loadComments: such a list is never older than the one on the page
\* when the load began, nor than the comment the load was to show; an older
\* one may come last only from a load that began earlier.
ListNeverGoesBack ==
  [][\A j \in Job :
       Shows(j) /\ job[j].token # NoToken => job[j].version >= job[j].since]_vars

\* widget.js, waitForGate: "so real users never 429".  True of the forms that
\* wait, when the challenge is signed within the margin of asking for it.
FormsPassTheGate ==
  \A j \in Job :
    At(j, "sent") /\ Answered(j) /\ Waits(job[j].op)
    /\ job[j].issued * Second <= job[j].t0 + Margin
    => request[j].answer # "tooquick"

\* A button or form is disabled exactly as long as one job is under way that
\* will enable it: none is stuck, and none can be used twice at a time.
BusyMeansPending ==
  \A p \in Page :
    LET attached == {j \in Job : job[j] # None /\ job[j].page = p /\ job[j].attached
                                 /\ job[j].op # "load"}
    IN /\ page[p].disabled = {ControlOf(job[j]) : j \in attached}
       /\ Cardinality(attached) = Cardinality(page[p].disabled)

=============================================================================
