------------------------------ MODULE Comments ------------------------------
(***************************************************************************)
(* The comments table, the visitors who write to it and the site owner who *)
(* moderates it.                                                           *)
(*                                                                         *)
(* A submission reads the settings, the lists, the blocked terms and the   *)
(* parent in four separate queries and then stores the row; an admin       *)
(* operation looks the comments up, changes them, and drops the cached     *)
(* lists of their articles.  All of these interleave, and any handler may  *)
(* stop between two queries.  What a submission must prove about its       *)
(* challenge is in AntiReplay; here that is a refusal (Abandon).           *)
(***************************************************************************)
EXTENDS Naturals, FiniteSets

CONSTANTS
  Id,          \* comment ids (fresh random UUIDs: never used twice)
  Article,     \* article paths
  Nick,        \* non-empty normalized nicknames
  Term,        \* terms a body may contain and the owner may block
  Request,     \* handlers that may run at one time
  None,        \* no row, no parent, no nickname, no request
  MaxChanges   \* bound of the model: configuration changes in a behaviour

Mode == {"open", "allowlist"}
Status == {"pending", "approved"}
Edit == {"approve", "unapprove", "pin", "unpin"}

\* moderation_mode, moderation_lists and blocked_terms.
Config == [mode: Mode, allow: SUBSET Nick, block: SUBSET Nick, terms: SUBSET Term]

Row == [article: Article, status: Status, parent: Id \cup {None}, pinned: BOOLEAN]

Submission ==
  [op: {"submit"}, pc: {"settings", "lists", "terms", "parent", "store"},
   article: Article, nick: Nick \cup {None}, said: SUBSET Term,
   parent: Id \cup {None},
   mode: Mode,           \* as read; "open" before that
   status: Status,       \* as decided; "pending" before that
   seen: SUBSET Config]  \* history: the configurations in force meanwhile

Moderation ==
  [op: {"bulk", "single"}, ids: SUBSET Id, edits: (SUBSET Edit) \cup {{"delete"}},
   paths: SUBSET Article]

OwnerReply == [op: {"reply"}, parent: Id, article: Article]

\* A handler that has changed the table and still has lists to drop.
Purging == [op: {"purge"}, paths: SUBSET Article]

ASSUME CommentsAssumption ==
  /\ MaxChanges \in Nat
  /\ None \notin Id \cup Nick \cup Row
  /\ None \notin Submission \cup Moderation \cup OwnerReply \cup Purging

VARIABLES
  config,    \* the moderation configuration in the database
  changes,   \* how often it has changed
  comments,  \* the table: id -> row, or None
  minted,    \* every id ever given to a row
  handler    \* request -> what it is doing, or None

commentVars == <<config, changes, comments, minted, handler>>

TypeOK ==
  /\ config \in Config
  /\ changes \in Nat
  /\ comments \in [Id -> Row \cup {None}]
  /\ minted \in SUBSET Id
  /\ handler \in [Request -> Submission \cup Moderation \cup OwnerReply
                               \cup Purging \cup {None}]

Exists(i) == comments[i] # None
Is(r, op) == handler[r] # None /\ handler[r].op = op
At(r, pc) == Is(r, "submit") /\ handler[r].pc = pc

Init ==
  /\ config \in Config
  /\ changes = 0
  /\ comments = [i \in Id |-> None]
  /\ minted = {}
  /\ handler = [r \in Request |-> None]

-----------------------------------------------------------------------------
(* Configuration.                                                          *)

Newer(c) ==
  /\ changes < MaxChanges
  /\ config' = c
  /\ config' # config
  /\ changes' = changes + 1
  /\ handler' = [r \in Request |->
       IF Is(r, "submit") THEN [handler[r] EXCEPT !.seen = @ \cup {c}] ELSE handler[r]]
  /\ UNCHANGED <<comments, minted>>

PutMode(m) == Newer([config EXCEPT !.mode = m])

AddList(n) == Newer([config EXCEPT !.allow = @ \cup {n}])
           \/ Newer([config EXCEPT !.block = @ \cup {n}])

DeleteList(n) == Newer([config EXCEPT !.allow = @ \ {n}])
              \/ Newer([config EXCEPT !.block = @ \ {n}])

AddTerm(t) == Newer([config EXCEPT !.terms = @ \cup {t}])

DeleteTerm(t) == Newer([config EXCEPT !.terms = @ \ {t}])

-----------------------------------------------------------------------------
(* Submitting a comment.                                                   *)

Proceed(r, h) ==
  /\ handler' = [handler EXCEPT ![r] = h]
  /\ UNCHANGED <<config, changes, comments, minted>>

\* A request with a valid challenge and proof of work reaches the database.
Submit(r, a, n, said, p) ==
  /\ handler[r] = None
  /\ Proceed(r, [op |-> "submit", pc |-> "settings", article |-> a, nick |-> n,
                 said |-> said, parent |-> p, mode |-> "open", status |-> "pending",
                 seen |-> {config}])

ReadSettings(r) ==
  /\ At(r, "settings")
  /\ Proceed(r, [handler[r] EXCEPT !.pc = "lists", !.mode = config.mode])

\* Faulty variant: the allowlist is looked up before the blocklist.
AllowFirst(n, c) ==
  IF n \in c.allow THEN "allowlisted"
  ELSE IF n \in c.block THEN "blocked" ELSE "regular"

\* decide(): the blocklist wins; an empty nickname is on no list.
Decide(n, c) ==
  IF n \in c.block THEN "blocked"
  ELSE IF n \in c.allow THEN "allowlisted" ELSE "regular"

ReadLists(r) ==
  LET verdict == Decide(handler[r].nick, config) IN
  /\ At(r, "lists")
  /\ verdict # "blocked"
  /\ Proceed(r, [handler[r] EXCEPT !.pc = "terms",
                   !.status = IF verdict = "allowlisted" THEN "approved" ELSE "pending"])

ReadTerms(r) ==
  /\ At(r, "terms")
  /\ handler[r].said \cap config.terms = {}
  /\ handler[r].mode = "allowlist" => handler[r].status = "approved"
  /\ Proceed(r, [handler[r] EXCEPT
                   !.pc = IF handler[r].parent = None THEN "store" ELSE "parent"])

\* Faulty variant: the parent's article is not compared.
AnyParent(p, a) == Exists(p) /\ comments[p].status = "approved"

GoodParent(p, a) ==
  Exists(p) /\ comments[p].status = "approved" /\ comments[p].article = a

CheckParent(r) ==
  /\ At(r, "parent")
  /\ GoodParent(handler[r].parent, handler[r].article)
  /\ Proceed(r, [handler[r] EXCEPT !.pc = "store"])

\* A handler goes on to drop these lists, or is done.
OwesPurge(r, paths) ==
  handler' = [handler EXCEPT ![r] =
                IF paths = {} THEN None ELSE [op |-> "purge", paths |-> paths]]

Insert(r, row, paths) ==
  /\ \E i \in Id \ minted :
       /\ comments' = [comments EXCEPT ![i] = row]
       /\ minted' = minted \cup {i}
  /\ OwesPurge(r, paths)
  /\ UNCHANGED <<config, changes>>

\* The batch stores the row.  A pending one needs no purge.
Store(r) ==
  LET h == handler[r] IN
  /\ At(r, "store")
  /\ Insert(r, [article |-> h.article, status |-> h.status, parent |-> h.parent,
                pinned |-> FALSE],
            IF h.status = "approved" THEN {h.article} ELSE {})

-----------------------------------------------------------------------------
(* Moderating.                                                             *)

\* The lookup of the articles whose lists the operation will change.
Select(r, op, ids, edits) ==
  /\ handler[r] = None
  /\ Proceed(r, [op |-> op, ids |-> ids, edits |-> edits,
                 paths |-> {comments[i].article : i \in {j \in ids : Exists(j)}}])

\* Several comments, one edit.  An id may be gone by now.
Bulk(r, ids) ==
  \E e \in {"approve", "unapprove", "delete"} : Select(r, "bulk", ids, {e})

\* One comment, its status and its pin; 404 if it is gone.
Patch(r, i) ==
  /\ Exists(i)
  /\ \E edits \in (SUBSET Edit) \ {{}} :
       /\ ~({"approve", "unapprove"} \subseteq edits)
       /\ ~({"pin", "unpin"} \subseteq edits)
       /\ Select(r, "single", {i}, edits)

Delete(r, i) == Exists(i) /\ Select(r, "single", {i}, {"delete"})

\* Faulty variant: the word of the request is stored instead of the status.
EditedVerbatim(row, edits) ==
  [row EXCEPT
     !.status = CASE "approve" \in edits -> "approved"
                  [] "unapprove" \in edits -> "unapprove"
                  [] OTHER -> @,
     !.pinned = ("pin" \in edits \/ @) /\ "unpin" \notin edits]

Edited(row, edits) ==
  [row EXCEPT
     !.status = CASE "approve" \in edits -> "approved"
                  [] "unapprove" \in edits -> "pending"
                  [] OTHER -> @,
     !.pinned = ("pin" \in edits \/ @) /\ "unpin" \notin edits]

\* Faulty variant: a patch of the pin alone is taken not to change the list.
PathsOfStatusEdits(h) == IF h.edits \subseteq {"pin", "unpin"} THEN {} ELSE h.paths

PathsToPurge(h) == h.paths

\* DELETE or UPDATE of the rows that are still there, then the purges.  A
\* patch or delete of one comment that went meanwhile changes nothing (404).
Write(r) ==
  LET h == handler[r]
      left == {i \in h.ids : Exists(i)}
  IN
  /\ Is(r, "bulk") \/ Is(r, "single")
  /\ comments' = [i \in Id |->
       IF i \notin left THEN comments[i]
       ELSE IF "delete" \in h.edits THEN None ELSE Edited(comments[i], h.edits)]
  /\ OwesPurge(r, IF h.op = "single" /\ left = {} THEN {} ELSE PathsToPurge(h))
  /\ UNCHANGED <<config, changes, minted>>

\* The owner answers any existing comment, pending ones included.
Reply(r, i) ==
  /\ handler[r] = None
  /\ Exists(i)
  /\ Proceed(r, [op |-> "reply", parent |-> i, article |-> comments[i].article])

StoreReply(r) ==
  LET h == handler[r] IN
  /\ Is(r, "reply")
  /\ Insert(r, [article |-> h.article, status |-> "approved", parent |-> h.parent,
                pinned |-> FALSE],
            {h.article})

\* One iteration of the purge loop; PublicList says what it does to the cache.
PurgeNext(r, a) ==
  /\ Is(r, "purge")
  /\ a \in handler[r].paths
  /\ OwesPurge(r, handler[r].paths \ {a})
  /\ UNCHANGED <<config, changes, comments, minted>>

\* Refused by a check, refused by D1, or the isolate died.
Abandon(r) == handler[r] # None /\ Proceed(r, None)

-----------------------------------------------------------------------------

Visitor(r) ==
  \/ \E a \in Article, n \in Nick \cup {None}, said \in SUBSET Term,
        p \in minted \cup {None} : Submit(r, a, n, said, p)
  \/ ReadSettings(r) \/ ReadLists(r) \/ ReadTerms(r) \/ CheckParent(r) \/ Store(r)

Owner(r) ==
  \/ \E ids \in (SUBSET minted) \ {{}} : Bulk(r, ids)
  \/ \E i \in minted : Patch(r, i) \/ Delete(r, i) \/ Reply(r, i)
  \/ Write(r) \/ StoreReply(r)

Reconfigure ==
  \/ \E m \in Mode : PutMode(m)
  \/ \E n \in Nick : AddList(n) \/ DeleteList(n)
  \/ \E t \in Term : AddTerm(t) \/ DeleteTerm(t)

Handle(r) == Visitor(r) \/ Owner(r)

Next ==
  \/ \E r \in Request :
       Handle(r) \/ Abandon(r) \/ \E a \in Article : PurgeNext(r, a)
  \/ Reconfigure

Spec == Init /\ [][Next]_commentVars

-----------------------------------------------------------------------------
(* The public list and the properties.                                     *)

\* handleListComments: approved, and the parent (if any) approved or gone.
Listed(i) ==
  /\ Exists(i) /\ comments[i].status = "approved"
  /\ LET p == comments[i].parent IN
       p # None /\ Exists(p) => comments[p].status = "approved"

\* What the anonymous list of an article tells its readers; the pins decide
\* its order.
PublicList(a) ==
  {[id |-> i, pinned |-> comments[i].pinned] :
     i \in {j \in Id : Listed(j) /\ comments[j].article = a}}

\* A reply and its parent are on one article for as long as both exist, so
\* no operation on a comment can change the list of an article it is not on.
OneArticlePerThread ==
  \A i \in Id : Exists(i) =>
    LET p == comments[i].parent IN
      p # None /\ Exists(p) => comments[p].article = comments[i].article

\* No step changes an article's public list without leaving its handler a
\* purge of that article to do.
ListChangeOwesPurge ==
  [][\A a \in Article : PublicList(a)' # PublicList(a) =>
       \E r \in Request : /\ ~Is(r, "purge")
                          /\ Is(r, "purge")' /\ a \in handler'[r].paths]_commentVars

\* However the configuration moves under a submission, what is stored was
\* justified while the request was running: an auto-approved author was on the
\* allowlist and not blocked at some moment, a queued one was on neither list
\* at a moment and the mode was open at a moment, and at some moment no term
\* of the body was blocked.
StoredWasJustified ==
  [][\A r \in Request : At(r, "store") /\ minted' # minted /\ handler'[r] # handler[r] =>
       LET h == handler[r] IN
       /\ \E c \in h.seen :
            IF h.status = "approved" THEN h.nick \in c.allow \ c.block
                                     ELSE h.nick \notin c.allow \cup c.block
       /\ h.status = "pending" => \E c \in h.seen : c.mode = "open"
       /\ \E c \in h.seen : h.said \cap c.terms = {}]_commentVars

\* nested.test.ts: when a comment is unapproved "the thread must hide", that
\* is the replies below it, and theirs.
Parents(S) == {comments[i].parent : i \in {j \in S : Exists(j)}} \ {None}

Ancestors(i) == Parents({i}) \cup Parents(Parents({i}))

ThreadHides ==
  [][\A i, j \in Id :
       /\ Listed(i) /\ Exists(i)' /\ comments'[i].status = "pending"
       /\ i \in Ancestors(j)'
       => ~Listed(j)']_commentVars

=============================================================================
