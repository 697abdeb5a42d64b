------------------------------- MODULE Console -------------------------------
(***************************************************************************)
(* The admin console: what its tabs show of the tables, and the writes     *)
(* that the owner makes from what they show.                               *)
(*                                                                         *)
(* A tab loads its views one by one and renders each answer as it comes; a *)
(* write that is answered "ok" loads the views it is thought to change.    *)
(* Blocked terms are a list like the others, and the three toggles of a    *)
(* poll are one; searching, paging and the list of pages are left out.     *)
(***************************************************************************)
EXTENDS AdminSession

CONSTANTS
  Comment, Poll,
  Value,     \* what the lists may hold
  Slot,      \* loads of one view under way in one tab at one time
  MaxId,     \* bound of the model: ids of list entries
  Plans      \* bounds of the model: what the owner may do in one behaviour

Kind == {"queue", "published"}
View == Kind \cup {"polls", "lists", "settings"}
PollOp == {"patchpoll", "deletepoll", "createpoll"}
WriteOp == {"moderate", "bulk", "pin", "reply", "add", "remove", "save", "reset"} \cup PollOp
Ops == WriteOp \cup {"open", "login", "signout", "github", "consent", "tick", "edit", "look",
                     "visitor"}

\* Which actions, how many of them, how far the clock runs, which views are
\* followed, and whether the consoles are open and up to date at first.
Plan == [ops: SUBSET Ops, acts: Nat, time: Nat, views: SUBSET View, opened: BOOLEAN]

VARIABLES
  plan,      \* the bounds of this behaviour; never changes
  db,        \* the tables
  shows,     \* tab -> what each view shows; "settings" is the form as it stands
  selected,  \* tab -> state[kind].selected
  loads,     \* tab -> view -> slot -> the load under way, or None
  stale,     \* history: tab -> the views excused from matching the tables
  ghosts     \* history: tab -> the comments that left their list while ticked

views == <<shows, selected, loads, stale, ghosts>>
console == <<plan, db, views>>
vars == <<session, console>>

\* A form field may hold what the Worker refuses; only the options may be blank.
Form == [difficulty: {"default", "other", "bad"},
         reactions: {"default", "other", "blank", "bad"}]
Entry == [id: 0..MaxId, value: Value]
Card == [comment: Comment, pinned: BOOLEAN]

Tables ==
  [comment: [Comment -> {"none", "pending", "approved", "gone"}], pinned: SUBSET Comment,
   poll: [Poll -> {"none", "open", "closed", "gone"}],
   entries: SUBSET Entry, lastId: 0..MaxId,
   settings: [difficulty: {"default", "other"}, reactions: {"default", "other", "blank"}]]

Content(v) ==
  CASE v \in Kind -> SUBSET Card
    [] v = "polls" -> SUBSET [poll: Poll, open: BOOLEAN]
    [] v = "lists" -> SUBSET Entry
    [] v = "settings" -> Form

\* clean is history: the tables still are as they were when it was served.
Load(v) == [key: Key \cup {None}, served: BOOLEAN, content: Content(v) \cup {None},
            clean: BOOLEAN]

Verb == {"approve", "unapprove", "delete", "pin", "unpin", "open", "closed"}

\* may is history: the comments the owner could see that it would touch; clean,
\* that nobody else has written settings since it began to.
WriteCall ==
  [op: WriteOp, tab: Tab, pc: {"sent", "writing", "answered"}, heard: BOOLEAN, ok: BOOLEAN,
   key: Key \cup {None}, csrf: Key \cup {None}, kind: Kind \cup {None},
   ids: SUBSET Comment, may: SUBSET Comment, verb: Verb \cup {None},
   poll: Poll \cup {None}, entry: Entry \cup {None}, form: Form \cup {None}, clean: BOOLEAN]

ASSUME ConsoleAssumption ==
  /\ MaxId \in Nat \ {0}
  /\ Plans \subseteq Plan
  /\ None \notin WriteCall /\ \A v \in View : None \notin Load(v)

\* A page just loaded: empty lists, and the empty form of admin.html.
Blank ==
  [v \in View |-> IF v = "settings" THEN [difficulty |-> "bad", reactions |-> "blank"] ELSE {}]
NoneSelected == [k \in Kind |-> {}]
NoLoads == [v \in View |-> [i \in Slot |-> None]]

\* What the GET handlers answer: for a blank setting its default, although the
\* Worker goes by the blank.
Cards(d, status) ==
  {[comment |-> c, pinned |-> c \in d.pinned] : c \in {x \in Comment : d.comment[x] = status}}
StatusOf(k) == IF k = "queue" THEN "pending" ELSE "approved"
Read(d, v) ==
  CASE v \in Kind -> Cards(d, StatusOf(v))
    [] v = "polls" -> {[poll |-> p, open |-> d.poll[p] = "open"] :
                         p \in {x \in Poll : d.poll[x] \in {"open", "closed"}}}
    [] v = "lists" -> d.entries
    [] v = "settings" -> [d.settings EXCEPT !.reactions = IF @ = "blank" THEN "default" ELSE @]

ConsoleTypeOK ==
  /\ SessionTypeOK(SignCall \cup WriteCall)
  /\ plan \in Plans
  /\ db \in Tables
  /\ shows = [t \in Tab |-> [v \in View |-> shows[t][v]]]
  /\ selected \in [Tab -> [Kind -> SUBSET Comment]]
  /\ loads = [t \in Tab |-> [v \in View |-> [i \in Slot |-> loads[t][v][i]]]]
  /\ \A t \in Tab, v \in View :
       /\ shows[t][v] \in Content(v)
       /\ \A i \in Slot : loads[t][v][i] \in Load(v) \cup {None}
  /\ stale \in [Tab -> SUBSET View]
  /\ ghosts \in [Tab -> SUBSET Comment]
  \* what a list is known by
  /\ \A e, f \in db.entries : (e.id = f.id \/ e.value = f.value) => e = f

\* One entry; one comment may be waiting, where the queue is followed.
TablesInit ==
  \E waiting \in SUBSET Comment, e \in Value :
    /\ Cardinality(waiting) <= Cardinality(plan.views \cap {"queue"})
    /\ db = [comment |-> [c \in Comment |-> IF c \in waiting THEN "pending" ELSE "none"],
          pinned |-> {}, poll |-> [p \in Poll |-> "none"],
          entries |-> {[id |-> 1, value |-> e]}, lastId |-> 1,
          settings |-> [difficulty |-> "default", reactions |-> "default"]]

Init ==
  /\ plan \in Plans
  /\ TablesInit
  /\ IF plan.opened
     THEN \E k \in Key :
       /\ SessionOpened(k)
       /\ shows = [t \in Tab |-> [v \in View |-> IF v \in plan.views THEN Read(db, v) ELSE Blank[v]]]
       /\ stale = [t \in Tab |-> View \ plan.views]
     ELSE /\ SessionInit
          /\ shows = [t \in Tab |-> Blank]
          /\ stale = [t \in Tab |-> View]
  /\ selected = [t \in Tab |-> NoneSelected]
  /\ loads = [t \in Tab |-> NoLoads]
  /\ ghosts = [t \in Tab |-> {}]

-----------------------------------------------------------------------------
(* Loading a view.                                                         *)

NewLoad == [key |-> SessionCookie, served |-> FALSE, content |-> None, clean |-> FALSE]

Loading(t, vs) ==
  \E slot \in [vs \cap plan.views -> Slot] :
    /\ \A v \in DOMAIN slot : loads[t][v][slot[v]] = None
    /\ loads' = [loads EXCEPT ![t] =
         [v \in View |-> IF v \in DOMAIN slot THEN [@[v] EXCEPT ![slot[v]] = NewLoad]
                        ELSE @[v]]]

\* Its query; each load is a query of its own.
Serve(t, v, i) ==
  LET l == loads[t][v][i] IN
  /\ l # None /\ ~l.served /\ Verified(l.key)
  /\ loads' = [loads EXCEPT ![t][v][i] =
       [l EXCEPT !.served = TRUE, !.content = Read(db, v), !.clean = TRUE]]
  /\ UNCHANGED <<session, plan, db, shows, selected, stale, ghosts>>

\* Whichever answer comes last is shown, whenever it was served.
Render(t, v, i) ==
  LET l == loads[t][v][i] IN
  /\ l # None /\ l.served
  /\ shows' = [shows EXCEPT ![t][v] = l.content]
  /\ loads' = [loads EXCEPT ![t][v][i] = None]
  /\ stale' = [stale EXCEPT ![t] = IF l.clean THEN @ \ {v} ELSE @ \cup {v}]
  /\ ghosts' = IF l.clean \/ v \notin Kind THEN ghosts
               ELSE [ghosts EXCEPT ![t] = @ \cup selected[t][v]]
  /\ UNCHANGED <<session, plan, db, selected>>

\* Refused, or lost: a status line, and the view stays as it is.
LoadFails(t, v, i) ==
  /\ loads[t][v][i] # None
  /\ loads' = [loads EXCEPT ![t][v][i] = None]
  /\ stale' = [stale EXCEPT ![t] = @ \cup {v}]
  /\ UNCHANGED <<session, plan, db, shows, selected, ghosts>>

-----------------------------------------------------------------------------
(* The session and its console.                                            *)

May(op) == op \in plan.ops /\ acts < plan.acts

\* The page is left, and what it held with it.
Leaves(t) ==
  /\ shows' = [shows EXCEPT ![t] = Blank]
  /\ selected' = [selected EXCEPT ![t] = NoneSelected]
  /\ loads' = [loads EXCEPT ![t] = NoLoads]
  /\ stale' = [stale EXCEPT ![t] = View]
  /\ ghosts' = [ghosts EXCEPT ![t] = {}]
  /\ UNCHANGED <<plan, db>>

ShowApp(t) == Loading(t, Kind) /\ UNCHANGED <<plan, db, shows, selected, stale, ghosts>>

OwnerSigns(t, j) ==
  \/ May("open") /\ Open(t, j) /\ Leaves(t)
  \/ Reload(t, j) /\ Leaves(t)
  \/ May("login") /\ Login(t, j) /\ UNCHANGED console
  \/ May("signout") /\ SignOut(t, j) /\ UNCHANGED console
  \/ May("github") /\ GithubStart(t, j) /\ Leaves(t)
  \/ \E st \in State : May("consent") /\ Consent(t, j, st) /\ Leaves(t)

SessionStep(j) ==
  \/ SignStep(j) /\ UNCHANGED console
  \/ /\ Restored(j) \/ LoggedIn(j)
     /\ IF call[j].ok THEN ShowApp(call[j].tab) ELSE UNCHANGED console
  \/ Returned(j) /\ Leaves(call[j].tab)

-----------------------------------------------------------------------------
(* The owner, in a console.                                                *)

\* Another view is opened.
Look(t, v) ==
  /\ May("look") /\ page[t].view = "app" /\ v \in plan.views
  /\ Acts /\ Loading(t, {v})
  /\ UNCHANGED <<now, signed, browser, started, call, history, plan, db, shows, selected,
                 stale, ghosts>>

Listed(t, k) == {card.comment : card \in shows[t][k]}

Tick(t, k, c) ==
  /\ May("tick") /\ page[t].view = "app" /\ c \in Listed(t, k)
  /\ Acts
  /\ selected' = [selected EXCEPT ![t][k] = IF c \in @ THEN @ \ {c} ELSE @ \cup {c}]
  /\ ghosts' = IF db.comment[c] = StatusOf(k) THEN ghosts
               ELSE [ghosts EXCEPT ![t] = @ \cup {c}]
  /\ UNCHANGED <<now, signed, browser, started, call, history, plan, db, shows, loads,
                 stale>>

\* One field of the form.
Edit(t, f, x) ==
  /\ May("edit") /\ page[t].view = "app" /\ "settings" \in plan.views
  /\ [shows[t]["settings"] EXCEPT ![f] = x] \in Form
  /\ Acts
  /\ shows' = [shows EXCEPT ![t]["settings"][f] = x]
  /\ stale' = [stale EXCEPT ![t] = @ \cup {"settings"}]
  /\ UNCHANGED <<now, signed, browser, started, call, history, plan, db, selected, loads,
                 ghosts>>

Write(t, op) ==
  [op |-> op, tab |-> t, pc |-> "sent", heard |-> TRUE, ok |-> FALSE,
   key |-> SessionCookie, csrf |-> page[t].csrf, kind |-> None, ids |-> {}, may |-> {},
   verb |-> None, poll |-> None, entry |-> None, form |-> None, clean |-> TRUE]

Clicks(t, j, w) ==
  /\ May(w.op) /\ page[t].view = "app" /\ ~Busy(j)
  /\ Acts
  /\ call' = [call EXCEPT ![j] = w]
  /\ UNCHANGED <<now, signed, browser, started, history, console>>

\* The two buttons of a card, and those of its list.
VerbsOf(k) == IF k = "queue" THEN {"approve", "delete"} ELSE {"unapprove", "delete"}

ClickModerate(t, j, k, c, verb) ==
  /\ c \in Listed(t, k) /\ verb \in VerbsOf(k)
  /\ Clicks(t, j, [Write(t, "moderate") EXCEPT !.kind = k, !.ids = {c}, !.may = {c},
                                               !.verb = verb])

\* Bulk writes of this tab that are not answered yet.
UnderWay(t) == UNION {call[i].ids : i \in {x \in OfTab(t) : call[x].op = "bulk"}}

\* The ids selected, whether or not their cards are still in the list.
ClickBulk(t, j, k, verb) ==
  /\ selected[t][k] # {} /\ verb \in VerbsOf(k)
  /\ Clicks(t, j, [Write(t, "bulk") EXCEPT
       !.kind = k, !.ids = selected[t][k], !.verb = verb,
       !.may = (selected[t][k] \cap Listed(t, k)) \cup ghosts[t] \cup UnderWay(t)])

\* The opposite of what the card says, not of what the table says.
ClickPin(t, j, k, card) ==
  /\ card \in shows[t][k]
  /\ Clicks(t, j, [Write(t, "pin") EXCEPT
       !.kind = k, !.ids = {card.comment}, !.may = {card.comment},
       !.verb = IF card.pinned THEN "unpin" ELSE "pin"])

ClickReply(t, j, k, c) ==
  /\ c \in Listed(t, k)
  /\ Clicks(t, j, [Write(t, "reply") EXCEPT !.kind = k, !.ids = {c}, !.may = {c}])

ClickPoll(t, j, card) ==
  /\ card \in shows[t]["polls"]
  /\ \/ Clicks(t, j, [Write(t, "patchpoll") EXCEPT
          !.poll = card.poll, !.verb = IF card.open THEN "closed" ELSE "open"])
     \/ Clicks(t, j, [Write(t, "deletepoll") EXCEPT !.poll = card.poll])

ClickCreatePoll(t, j) == Clicks(t, j, Write(t, "createpoll"))

\* The field of a list, or the ban link of a card.
ClickAdd(t, j, x) ==
  Clicks(t, j, [Write(t, "add") EXCEPT !.entry = [id |-> 0, value |-> x]])

ClickRemove(t, j, e) ==
  /\ e \in shows[t]["lists"]
  /\ Clicks(t, j, [Write(t, "remove") EXCEPT !.entry = e])

Defaults == [difficulty |-> "default", reactions |-> "default"]

ClickSave(t, j) == Clicks(t, j, [Write(t, "save") EXCEPT !.form = shows[t]["settings"]])
ClickReset(t, j) == Clicks(t, j, [Write(t, "reset") EXCEPT !.form = Defaults])

Click(t, j) ==
  \/ \E k \in Kind, c \in Comment :
       \/ \E verb \in Verb : ClickModerate(t, j, k, c, verb)
       \/ ClickReply(t, j, k, c)
  \/ \E k \in Kind, verb \in Verb : ClickBulk(t, j, k, verb)
  \/ \E k \in Kind, card \in Card : ClickPin(t, j, k, card)
  \/ \E card \in shows[t]["polls"] : ClickPoll(t, j, card)
  \/ ClickCreatePoll(t, j)
  \/ \E x \in Value : ClickAdd(t, j, x)
  \/ \E e \in shows[t]["lists"] : ClickRemove(t, j, e)
  \/ ClickSave(t, j)
  \/ ClickReset(t, j)

-----------------------------------------------------------------------------
(* The Worker.                                                             *)

Asked(j, ops) == At(j, "sent") /\ call[j].op \in ops

\* requireAdmin, requireCsrf.
Authorized(w) == Verified(w.key) /\ w.csrf = w.key

Refuse(j) ==
  /\ Asked(j, WriteOp) /\ ~Authorized(call[j])
  /\ Answers(j, call[j])
  /\ UNCHANGED <<now, signed, browser, started, acts, history, console>>

Changed(d) == {v \in View : IF v = "settings" THEN d.settings # db.settings
                               ELSE Read(d, v) # Read(db, v)}
Moved(d) == {c \in Comment : d.comment[c] # db.comment[c]}

\* The tables become d; history of it.  own are the views that tab t will load
\* again because of it, bulk whether it clears its selection then.
Become(d, t, own, bulk) ==
  /\ db' = d
  /\ loads' = [u \in Tab |-> [v \in View |-> [i \in Slot |->
       IF loads[u][v][i] # None /\ v \in Changed(d)
       THEN [loads[u][v][i] EXCEPT !.clean = FALSE] ELSE loads[u][v][i]]]]
  /\ stale' = [u \in Tab |-> stale[u] \cup (IF u = t THEN Changed(d) \ own ELSE Changed(d))]
  /\ ghosts' = [u \in Tab |->
       IF u = t /\ bulk THEN ghosts[u]
       ELSE ghosts[u] \cup (Moved(d) \cap UNION {selected[u][k] : k \in Kind})]
  /\ UNCHANGED <<plan, shows, selected>>

\* A pin or a reply promises nothing of the list it was not clicked in.
Promised(w) ==
  IF ~w.heard THEN {} ELSE IF w.op \in {"pin", "reply"} THEN {w.kind} ELSE View

Succeeds(j, d) ==
  /\ Become(d, call[j].tab, Promised(call[j]), call[j].op = "bulk" /\ call[j].heard)
  /\ Answers(j, [call[j] EXCEPT !.ok = TRUE])

\* 404, or 409.
Denies(j) == Answers(j, call[j]) /\ UNCHANGED console

Stored(c) == db.comment[c] \in {"pending", "approved"}
StatusFor(verb) ==
  IF verb = "approve" THEN "approved" ELSE IF verb = "unapprove" THEN "pending" ELSE "gone"

HandleComments(j) ==
  LET w == call[j]  hit == {c \in w.ids : Stored(c)} IN
  /\ Asked(j, {"moderate", "bulk", "pin"}) /\ Authorized(w)
  /\ IF hit = {} /\ w.op # "bulk" THEN Denies(j)
     ELSE IF w.op = "pin"
     THEN Succeeds(j, [db EXCEPT !.pinned = IF w.verb = "pin" THEN @ \cup hit ELSE @ \ hit])
     ELSE Succeeds(j, [db EXCEPT !.comment =
            [c \in Comment |-> IF c \in hit THEN StatusFor(w.verb) ELSE @[c]]])
  /\ UNCHANGED <<now, signed, browser, started, acts, history>>

\* The reply is a comment, published at once.
HandleReply(j, new) ==
  /\ Asked(j, {"reply"}) /\ Authorized(call[j])
  /\ IF \E c \in call[j].ids : Stored(c)
     THEN db.comment[new] = "none" /\ Succeeds(j, [db EXCEPT !.comment[new] = "approved"])
     ELSE Denies(j)
  /\ UNCHANGED <<now, signed, browser, started, acts, history>>

HandlePolls(j) ==
  LET w == call[j] IN
  /\ Asked(j, PollOp) /\ Authorized(w)
  /\ IF w.op = "createpoll"
     THEN \E p \in Poll : db.poll[p] = "none" /\ Succeeds(j, [db EXCEPT !.poll[p] = "open"])
     ELSE IF db.poll[w.poll] = "gone" THEN Denies(j)
     ELSE Succeeds(j, [db EXCEPT !.poll[w.poll] =
            IF w.op = "patchpoll" THEN w.verb ELSE "gone"])
  /\ UNCHANGED <<now, signed, browser, started, acts, history>>

\* Faulty variant: INTEGER PRIMARY KEY without AUTOINCREMENT.
NextIdFree(d) == CHOOSE i \in 1..(MaxId + 1) :
  /\ \A e \in d.entries : e.id < i
  /\ \A h \in 1..(MaxId + 1) : (\A e \in d.entries : e.id < h) => i <= h

\* AUTOINCREMENT: an id is never given out again.
NextId(d) == d.lastId + 1

\* Faulty variant: no UNIQUE(kind, value).
KnownNever(x) == FALSE

Known(x) == \E e \in db.entries : e.value = x

HandleLists(j) ==
  LET w == call[j] IN
  /\ Asked(j, {"add", "remove"}) /\ Authorized(w)
  /\ IF w.op = "add"
     THEN IF Known(w.entry.value) THEN Denies(j)
          ELSE /\ NextId(db) <= MaxId
               /\ Succeeds(j, [db EXCEPT
                    !.entries = @ \cup {[id |-> NextId(db), value |-> w.entry.value]},
                    !.lastId = NextId(db)])
     ELSE IF \E e \in db.entries : e.id = w.entry.id
     THEN Succeeds(j, [db EXCEPT !.entries = {e \in @ : e.id # w.entry.id}])
     ELSE Denies(j)
  /\ UNCHANGED <<now, signed, browser, started, acts, history>>

\* PUT writes one setting after another, each when it has been found good.
PutField(j, f, last) ==
  LET w == call[j]  d == [db EXCEPT !.settings[f] = w.form[f]] IN
  IF w.form[f] = "bad" THEN Answers(j, w) /\ UNCHANGED console
  ELSE /\ Become(d, w.tab, Promised(w), FALSE)
       /\ call' = [i \in Call |->
            IF i = j THEN [w EXCEPT !.pc = IF last THEN "answered" ELSE "writing", !.ok = last]
            ELSE IF Busy(i) /\ call[i].op \in {"save", "reset"}
            THEN [call[i] EXCEPT !.clean = FALSE] ELSE call[i]]

HandlePut(j) ==
  /\ \/ Asked(j, {"save", "reset"}) /\ Authorized(call[j]) /\ PutField(j, "difficulty", FALSE)
     \/ At(j, "writing") /\ PutField(j, "reactions", TRUE)
  /\ UNCHANGED <<now, signed, browser, started, acts, history>>

-----------------------------------------------------------------------------
(* The answers, at the page.                                               *)

\* Faulty variant: a comment is moved, and only the list it left is loaded.
ReloadsOwnList(w) ==
  CASE w.op \in {"moderate", "bulk", "pin", "reply"} -> {w.kind}
    [] w.op \in PollOp -> {"polls"}
    [] w.op \in {"add", "remove"} -> {"lists"}
    [] w.op = "reset" -> {"settings"}
    [] w.op = "save" -> {}

Reloads(w) ==
  CASE w.op \in {"moderate", "bulk"} -> {"queue", "published", "lists"}
    [] w.op \in {"pin", "reply"} -> {w.kind}
    [] w.op \in PollOp -> {"polls"}
    [] w.op \in {"add", "remove"} -> {"lists"}
    [] w.op = "reset" -> {"settings"}
    [] w.op = "save" -> {}

\* Faulty variant: what was done in bulk stays selected.
KeptSelection(w) == selected[w.tab]

SelectionAfter(w) ==
  IF w.op = "bulk" THEN [selected[w.tab] EXCEPT ![w.kind] = {}] ELSE selected[w.tab]

\* A save is known to be in the tables if nobody has written or typed since.
Saved(w) == w.op = "save" /\ w.clean /\ shows[w.tab]["settings"] = w.form

WriteDone(j) ==
  LET w == call[j] IN
  /\ At(j, "answered") /\ w.op \in WriteOp /\ w.heard /\ w.ok
  /\ Loading(w.tab, Reloads(w))
  /\ selected' = [selected EXCEPT ![w.tab] = SelectionAfter(w)]
  /\ stale' = [stale EXCEPT ![w.tab] = IF Saved(w) THEN @ \ {"settings"}
                                       ELSE IF w.op = "save" THEN @ \cup {"settings"} ELSE @]
  /\ Finished(j)
  /\ UNCHANGED <<now, signed, browser, started, acts, history, plan, db, shows, ghosts>>

\* A status line.  What a save has stored before it was refused stays stored.
WriteRefused(j) ==
  LET w == call[j] IN
  /\ At(j, "answered") /\ w.op \in WriteOp /\ w.heard /\ ~w.ok
  /\ stale' = [stale EXCEPT ![w.tab] = IF w.op \in {"save", "reset"} THEN @ \cup {"settings"} ELSE @]
  /\ Finished(j)
  /\ UNCHANGED <<now, signed, browser, started, acts, history, plan, db, shows, selected,
                 loads, ghosts>>

\* The request or its answer is lost, or the Worker fails between two writes.
WriteLost(j) ==
  LET w == call[j] IN
  /\ Busy(j) /\ w.op \in WriteOp
  /\ stale' = IF w.heard THEN [stale EXCEPT ![w.tab] = View] ELSE stale
  /\ ghosts' = IF w.heard /\ w.op = "bulk"
               THEN [ghosts EXCEPT ![w.tab] = @ \cup w.ids] ELSE ghosts
  /\ Finished(j)
  /\ UNCHANGED <<now, signed, browser, started, acts, history, plan, db, shows, selected,
                 loads>>

-----------------------------------------------------------------------------

\* A comment of a visitor, held for moderation.
Visitor(c) ==
  /\ May("visitor") /\ db.comment[c] = "none"
  /\ Acts /\ Become([db EXCEPT !.comment[c] = "pending"], None, {}, FALSE)
  /\ UNCHANGED <<now, signed, browser, started, call, history>>

TimePasses ==
  /\ now < plan.time
  /\ SessionTick
  /\ UNCHANGED console

WorkerStep(j) ==
  \/ Refuse(j) \/ HandleComments(j) \/ HandlePolls(j) \/ HandleLists(j) \/ HandlePut(j)
  \/ \E new \in Comment : HandleReply(j, new)

LoadStep(t, v, i) == Serve(t, v, i) \/ Render(t, v, i) \/ LoadFails(t, v, i)

Next ==
  \/ \E j \in Call : SessionStep(j) \/ WorkerStep(j)
                     \/ WriteDone(j) \/ WriteRefused(j) \/ WriteLost(j)
  \/ \E t \in Tab, j \in Call : OwnerSigns(t, j) \/ Click(t, j)
  \/ \E t \in Tab, v \in View : Look(t, v) \/ \E i \in Slot : LoadStep(t, v, i)
  \/ \E t \in Tab, k \in Kind, c \in Comment : Tick(t, k, c)
  \/ \E t \in Tab, f \in {"difficulty", "reactions"}, x \in {"default", "other", "blank", "bad"} :
       Edit(t, f, x)
  \/ \E c \in Comment : Visitor(c)
  \/ TimePasses

Spec == Init /\ [][Next]_vars

-----------------------------------------------------------------------------
(* Properties.                                                             *)

Quiet(t) == OfTab(t) = {} /\ \A v \in View, i \in Slot : loads[t][v][i] = None

Matches(t, v) ==
  IF v = "settings" THEN shows[t]["settings"] = db.settings ELSE shows[t][v] = Read(db, v)

\* The empty list of reactions turns them off for the Worker, and GET settings
\* answers with the default list.
OffShownAsDefault(t) ==
  /\ db.settings.reactions = "blank"
  /\ shows[t]["settings"] = [db.settings EXCEPT !.reactions = "default"]

\* A console at rest shows the tables as they are, unless someone else has
\* written since the view was read, an answer was lost or came out of order, a
\* pin or a reply touched the other list, a form was edited and not saved, or a
\* save was refused, which may have stored its first fields (admin-config.ts).
\* One disagreement is left: reactions that an empty list has turned off are
\* shown as the default list by the next load, and a later save turns them on.
ViewsMatch ==
  \A t \in Tab : Quiet(t) =>
    \A v \in plan.views \ stale[t] :
      Matches(t, v) \/ (v = "settings" /\ OffShownAsDefault(t))

\* A write removes or moves only what the owner could see that it would: the
\* entry whose x was clicked, the comments ticked in the list; except that a
\* comment which left its list while ticked stays selected, unseen.
HitsWhatWasShown ==
  [][\A j \in Call :
       Asked(j, WriteOp) /\ call'[j] # None /\ call'[j].pc = "answered"
       => /\ {c \in Comment : Stored(c) /\ db'.comment[c] # db.comment[c]} \subseteq call[j].may
          /\ db.entries \ db'.entries \subseteq {call[j].entry}]_vars

=============================================================================
