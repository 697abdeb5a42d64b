--------------------------- MODULE CommentsProofs ---------------------------
(***************************************************************************)
(* Proofs about Comments, for any number of comments, articles, handlers   *)
(* and configuration changes.                                              *)
(***************************************************************************)
EXTENDS Comments, TLAPS

USE CommentsAssumption

-----------------------------------------------------------------------------
(* Which kind of record a handler holds follows from its op.               *)

Handler == Submission \cup Moderation \cup OwnerReply \cup Purging

LEMMA HandlerOps ==
  ASSUME TypeOK, NEW r \in Request, handler[r] # None
  PROVE  /\ handler[r] \in Handler
         /\ handler[r].op = "submit" => handler[r] \in Submission
         /\ handler[r].op \in {"bulk", "single"} => handler[r] \in Moderation
         /\ handler[r].op = "reply" => handler[r] \in OwnerReply
         /\ handler[r].op = "purge" => handler[r] \in Purging
BY DEF TypeOK, Handler, Submission, Moderation, OwnerReply, Purging

\* An edit changes neither the article nor the parent of a row.
LEMMA EditedRow ==
  ASSUME NEW row \in Row, NEW edits
  PROVE  /\ Edited(row, edits) \in Row
         /\ Edited(row, edits).article = row.article
         /\ Edited(row, edits).parent = row.parent
<1>1. row.pinned \in BOOLEAN /\ row.status \in Status
  BY DEF Row
<1>2. (("pin" \in edits \/ row.pinned) /\ "unpin" \notin edits) \in BOOLEAN
  BY Zenon
<1>3. (CASE "approve" \in edits -> "approved"
         [] "unapprove" \in edits -> "pending"
         [] OTHER -> row.status) \in Status
  BY <1>1 DEF Status
<1> QED BY <1>2, <1>3 DEF Edited, Row

-----------------------------------------------------------------------------
(* Type correctness.                                                       *)

LEMMA InitType == Init => TypeOK
BY DEF Init, TypeOK

LEMMA ProceedType ==
  ASSUME TypeOK, NEW r \in Request, NEW h \in Handler \cup {None}, Proceed(r, h)
  PROVE  TypeOK'
BY DEF TypeOK, Proceed, Handler

LEMMA OwesPurgeType ==
  ASSUME TypeOK, NEW r \in Request, NEW paths \in SUBSET Article, OwesPurge(r, paths)
  PROVE  handler' \in [Request -> Handler \cup {None}]
<1>1. [op |-> "purge", paths |-> paths] \in Handler
  BY DEF Handler, Purging
<1> QED BY <1>1 DEF OwesPurge, TypeOK, Handler

LEMMA NewerType ==
  ASSUME TypeOK, NEW c \in Config, Newer(c)
  PROVE  TypeOK'
<1>1. ASSUME NEW r \in Request
      PROVE  (IF Is(r, "submit") THEN [handler[r] EXCEPT !.seen = @ \cup {c}]
              ELSE handler[r]) \in Handler \cup {None}
  <2>1. CASE Is(r, "submit")
    <3>1. handler[r] \in Submission
      BY <2>1, HandlerOps DEF Is
    <3>2. [handler[r] EXCEPT !.seen = @ \cup {c}] \in Submission
      BY <3>1 DEF Submission
    <3> QED BY <2>1, <3>2 DEF Handler
  <2>2. CASE ~Is(r, "submit")
    BY <2>2 DEF TypeOK, Handler
  <2> QED BY <2>1, <2>2
<1>2. handler' \in [Request -> Handler \cup {None}]
  BY <1>1 DEF Newer
<1> QED BY <1>2 DEF Newer, TypeOK, Handler

LEMMA InsertType ==
  ASSUME TypeOK, NEW r \in Request, NEW row \in Row, NEW paths \in SUBSET Article,
         Insert(r, row, paths)
  PROVE  TypeOK'
<1>1. handler' \in [Request -> Handler \cup {None}]
  BY OwesPurgeType DEF Insert
<1> QED BY <1>1 DEF Insert, TypeOK, Handler

LEMMA ConfigType ==
  ASSUME TypeOK, Reconfigure
  PROVE  TypeOK'
<1> USE DEF TypeOK, Config, PutMode, AddList, DeleteList, AddTerm, DeleteTerm
<1>1. ASSUME NEW m \in Mode, PutMode(m) PROVE TypeOK'
  <2>1. [config EXCEPT !.mode = m] \in Config
    OBVIOUS
  <2> QED BY <1>1, <2>1, NewerType
<1>2. ASSUME NEW n \in Nick, AddList(n) \/ DeleteList(n) PROVE TypeOK'
  <2>1. /\ [config EXCEPT !.allow = @ \cup {n}] \in Config
        /\ [config EXCEPT !.block = @ \cup {n}] \in Config
        /\ [config EXCEPT !.allow = @ \ {n}] \in Config
        /\ [config EXCEPT !.block = @ \ {n}] \in Config
    OBVIOUS
  <2> QED BY <1>2, <2>1, NewerType
<1>3. ASSUME NEW t \in Term, AddTerm(t) \/ DeleteTerm(t) PROVE TypeOK'
  <2>1. /\ [config EXCEPT !.terms = @ \cup {t}] \in Config
        /\ [config EXCEPT !.terms = @ \ {t}] \in Config
    OBVIOUS
  <2> QED BY <1>3, <2>1, NewerType
<1> QED BY <1>1, <1>2, <1>3 DEF Reconfigure

LEMMA VisitorType ==
  ASSUME TypeOK, NEW r \in Request, Visitor(r)
  PROVE  TypeOK'
<1>1. ASSUME NEW a \in Article, NEW n \in Nick \cup {None}, NEW said \in SUBSET Term,
             NEW p \in minted \cup {None}, Submit(r, a, n, said, p)
      PROVE  TypeOK'
  <2>1. [op |-> "submit", pc |-> "settings", article |-> a, nick |-> n, said |-> said,
         parent |-> p, mode |-> "open", status |-> "pending", seen |-> {config}]
          \in Handler \cup {None}
    BY DEF Handler, Submission, Mode, Status, TypeOK
  <2> QED BY <1>1, <2>1, ProceedType DEF Submit
<1>2. ASSUME Is(r, "submit") PROVE handler[r] \in Submission
  BY <1>2, HandlerOps DEF Is
<1>3. CASE ReadSettings(r)
  <2>1. [handler[r] EXCEPT !.pc = "lists", !.mode = config.mode] \in Submission
    BY <1>2, <1>3 DEF ReadSettings, At, Submission, TypeOK, Config
  <2> QED BY <1>3, <2>1, ProceedType DEF ReadSettings, Handler
<1>4. CASE ReadLists(r)
  <2> DEFINE s == IF Decide(handler[r].nick, config) = "allowlisted"
                  THEN "approved" ELSE "pending"
  <2>1. s \in Status
    BY DEF Status
  <2>2. [handler[r] EXCEPT !.pc = "terms", !.status = s] \in Submission
    BY <1>2, <1>4, <2>1 DEF ReadLists, At, Submission
  <2> QED BY <1>4, <2>2, ProceedType DEF ReadLists, Handler
<1>5. CASE ReadTerms(r)
  <2> DEFINE pc == IF handler[r].parent = None THEN "store" ELSE "parent"
  <2>1. [handler[r] EXCEPT !.pc = pc] \in Submission
    BY <1>2, <1>5 DEF ReadTerms, At, Submission
  <2> QED BY <1>5, <2>1, ProceedType DEF ReadTerms, Handler
<1>6. CASE CheckParent(r)
  <2>1. [handler[r] EXCEPT !.pc = "store"] \in Submission
    BY <1>2, <1>6 DEF CheckParent, At, Submission
  <2> QED BY <1>6, <2>1, ProceedType DEF CheckParent, Handler
<1>7. CASE Store(r)
  <2> DEFINE h == handler[r]
             row == [article |-> h.article, status |-> h.status, parent |-> h.parent,
                     pinned |-> FALSE]
             paths == IF h.status = "approved" THEN {h.article} ELSE {}
  <2>1. h \in Submission
    BY <1>2, <1>7 DEF Store, At
  <2>2. row \in Row /\ paths \in SUBSET Article
    BY <2>1 DEF Submission, Row
  <2>3. Insert(r, row, paths)
    BY <1>7 DEF Store
  <2> HIDE DEF row, paths
  <2> QED BY <2>2, <2>3, InsertType
<1> QED BY <1>1, <1>3, <1>4, <1>5, <1>6, <1>7 DEF Visitor

LEMMA SelectType ==
  ASSUME TypeOK, NEW r \in Request, NEW op \in {"bulk", "single"}, NEW ids \in SUBSET Id,
         NEW edits \in (SUBSET Edit) \cup {{"delete"}}, Select(r, op, ids, edits)
  PROVE  TypeOK'
<1> DEFINE paths == {comments[i].article : i \in {j \in ids : Exists(j)}}
<1>1. paths \in SUBSET Article
  BY DEF TypeOK, Row, Exists
<1>2. [op |-> op, ids |-> ids, edits |-> edits, paths |-> paths] \in Handler
  BY <1>1 DEF Handler, Moderation
<1> QED BY <1>2, ProceedType DEF Select

LEMMA WriteType ==
  ASSUME TypeOK, NEW r \in Request, Write(r)
  PROVE  TypeOK'
<1> DEFINE h == handler[r]
           left == {i \in h.ids : Exists(i)}
           paths == IF h.op = "single" /\ left = {} THEN {} ELSE PathsToPurge(h)
<1>1. h \in Moderation
  BY HandlerOps DEF Write, Is
<1>2. \A i \in left : i \in Id /\ comments[i] \in Row
  BY <1>1 DEF Moderation, TypeOK, Exists
<1>3. comments' \in [Id -> Row \cup {None}]
  BY <1>2, EditedRow DEF Write, TypeOK
<1>4. paths \in SUBSET Article
  BY <1>1 DEF Moderation, PathsToPurge
<1>5. OwesPurge(r, paths)
  BY DEF Write
<1>6. handler' \in [Request -> Handler \cup {None}]
  <2> HIDE DEF paths
  <2> QED BY <1>4, <1>5, OwesPurgeType
<1> QED BY <1>3, <1>6 DEF Write, TypeOK, Handler

LEMMA OwnerType ==
  ASSUME TypeOK, NEW r \in Request, Owner(r)
  PROVE  TypeOK'
<1>1. minted \subseteq Id
  BY DEF TypeOK
<1>2. ASSUME NEW ids \in (SUBSET minted) \ {{}}, Bulk(r, ids) PROVE TypeOK'
  <2>1. PICK e \in {"approve", "unapprove", "delete"} : Select(r, "bulk", ids, {e})
    BY <1>2 DEF Bulk
  <2>2. {e} \in (SUBSET Edit) \cup {{"delete"}} /\ ids \in SUBSET Id
    BY <1>1 DEF Edit
  <2> QED BY <2>1, <2>2, SelectType
<1>3. ASSUME NEW i \in minted, Patch(r, i) PROVE TypeOK'
  BY <1>1, <1>3, SelectType DEF Patch
<1>4. ASSUME NEW i \in minted, Delete(r, i) PROVE TypeOK'
  <2>1. {"delete"} \in (SUBSET Edit) \cup {{"delete"}} /\ {i} \in SUBSET Id
    BY <1>1
  <2>2. Select(r, "single", {i}, {"delete"})
    BY <1>4 DEF Delete
  <2> QED BY <2>1, <2>2, SelectType
<1>5. ASSUME NEW i \in minted, Reply(r, i) PROVE TypeOK'
  <2>1. [op |-> "reply", parent |-> i, article |-> comments[i].article] \in Handler
    BY <1>1, <1>5 DEF Reply, Exists, Handler, OwnerReply, TypeOK, Row
  <2> QED BY <1>5, <2>1, ProceedType DEF Reply
<1>6. CASE Write(r)
  BY <1>6, WriteType
<1>7. CASE StoreReply(r)
  <2> DEFINE h == handler[r]
             row == [article |-> h.article, status |-> "approved", parent |-> h.parent,
                     pinned |-> FALSE]
  <2>1. h \in OwnerReply
    BY <1>7, HandlerOps DEF StoreReply, Is
  <2>2. row \in Row /\ {h.article} \in SUBSET Article
    BY <2>1 DEF OwnerReply, Row, Status
  <2>3. Insert(r, row, {h.article})
    BY <1>7 DEF StoreReply
  <2> HIDE DEF row
  <2> QED BY <2>2, <2>3, InsertType
<1> QED BY <1>2, <1>3, <1>4, <1>5, <1>6, <1>7 DEF Owner

LEMMA NextType == TypeOK /\ [Next]_commentVars => TypeOK'
<1> SUFFICES ASSUME TypeOK, [Next]_commentVars PROVE TypeOK'
  OBVIOUS
<1>1. CASE UNCHANGED commentVars
  BY <1>1 DEF commentVars, TypeOK
<1>2. ASSUME NEW r \in Request, Abandon(r) PROVE TypeOK'
  BY <1>2, ProceedType DEF Abandon
<1>3. ASSUME NEW r \in Request, NEW a \in Article, PurgeNext(r, a) PROVE TypeOK'
  <2>1. handler[r] \in Purging
    BY <1>3, HandlerOps DEF PurgeNext, Is
  <2>2. handler[r].paths \ {a} \in SUBSET Article
    BY <2>1 DEF Purging
  <2>3. handler' \in [Request -> Handler \cup {None}]
    BY <1>3, <2>2, OwesPurgeType DEF PurgeNext
  <2> QED BY <1>3, <2>3 DEF PurgeNext, TypeOK, Handler
<1> QED BY <1>1, <1>2, <1>3, VisitorType, OwnerType, ConfigType DEF Next, Handle

\* TypeOK is an invariant: rows, handlers and the configuration keep their shape.
THEOREM TypeCorrect == Spec => []TypeOK
BY InitType, NextType, PTL DEF Spec

-----------------------------------------------------------------------------
(* The inductive invariant.  Rows keep their article and parent, ids are   *)
(* never reused, and what a handler has read of an article stays true of   *)
(* every row that is still there.                                          *)

Articles(i, a) == Exists(i) => comments[i].article = a

RowsMinted ==
  \A i \in Id : Exists(i) => i \in minted /\ comments[i].parent \in minted \cup {None}

Known(h) ==
  /\ h.op = "submit" =>
       /\ h.parent \in minted \cup {None}
       /\ h.pc = "store" /\ h.parent # None => Articles(h.parent, h.article)
  /\ h.op = "reply" => h.parent \in minted /\ Articles(h.parent, h.article)
  /\ h.op \in {"bulk", "single"} =>
       /\ h.ids \subseteq minted
       /\ \A i \in h.ids : Exists(i) => comments[i].article \in h.paths

HandlersKnown == \A r \in Request : handler[r] # None => Known(handler[r])

Inv == TypeOK /\ RowsMinted /\ HandlersKnown /\ OneArticlePerThread

\* What every step does to the rows that were there.
Keeps ==
  /\ minted \subseteq minted' /\ minted' \subseteq Id
  /\ \A i \in minted : Exists(i)' =>
       /\ Exists(i)
       /\ comments'[i].article = comments[i].article
       /\ comments'[i].parent = comments[i].parent

LEMMA KnownStable ==
  ASSUME TypeOK, Keeps, NEW h \in Handler, Known(h)
  PROVE  Known(h)'
<1>1. \A i \in minted, a \in Article : Articles(i, a) => Articles(i, a)'
  BY DEF Keeps, Articles
<1>2. CASE h.op = "submit"
  BY <1>1, <1>2 DEF Known, Keeps, Handler, Submission, Moderation, OwnerReply, Purging
<1>3. CASE h.op = "reply"
  BY <1>1, <1>3 DEF Known, Keeps, Handler, Submission, Moderation, OwnerReply, Purging
<1>4. CASE h.op \in {"bulk", "single"}
  BY <1>4 DEF Known, Keeps
<1> QED BY <1>2, <1>3, <1>4 DEF Known

\* A step of one handler, which ends idle or with a known record.
LEMMA OthersKnown ==
  ASSUME Inv, TypeOK', Keeps, NEW r \in Request,
         \A s \in Request : s # r => handler'[s] = handler[s],
         handler'[r] # None => Known(handler[r])'
  PROVE  HandlersKnown'
<1> SUFFICES ASSUME NEW s \in Request, s # r, handler'[s] # None
             PROVE  Known(handler[s])'
  BY DEF HandlersKnown
<1>1. PICK h : h = handler[s]
  OBVIOUS
<1>2. h \in Handler /\ Known(h)
  BY <1>1, HandlerOps DEF Inv, HandlersKnown
<1>3. Known(h)'
  BY <1>2, KnownStable DEF Inv
<1> QED BY <1>1, <1>3 DEF Known

\* A step of one handler to its purges, or to its end.
LEMMA PurgesKnown ==
  ASSUME Inv, TypeOK', Keeps, NEW r \in Request, NEW paths, OwesPurge(r, paths)
  PROVE  HandlersKnown'
<1>1. handler'[r] = None \/ handler'[r].op = "purge"
  BY DEF OwesPurge, Inv, TypeOK
<1>2. handler'[r] # None => Known(handler[r])'
  BY <1>1 DEF Known
<1>3. \A s \in Request : s # r => handler'[s] = handler[s]
  BY DEF OwesPurge, Inv, TypeOK
<1> QED BY <1>2, <1>3, OthersKnown

LEMMA UnchangedKeeps ==
  ASSUME TypeOK, UNCHANGED <<comments, minted>>
  PROVE  Keeps
BY DEF Keeps, TypeOK, Exists

\* A step that leaves the table alone and gives one handler a known record.
LEMMA ProceedInv ==
  ASSUME Inv, TypeOK', NEW r \in Request, NEW h, Proceed(r, h), h # None => Known(h)
  PROVE  Inv'
<1>1. Keeps
  BY UnchangedKeeps DEF Inv, Proceed
<1>2. handler'[r] = h /\ \A s \in Request : s # r => handler'[s] = handler[s]
  BY DEF Proceed, Inv, TypeOK
<1>3. HandlersKnown'
  <2>1. handler'[r] # None => Known(handler[r])'
    BY <1>2 DEF Proceed, Known, Articles, Exists
  <2> QED BY <1>1, <1>2, <2>1, OthersKnown
<1>4. RowsMinted' /\ OneArticlePerThread'
  BY DEF Inv, Proceed, RowsMinted, OneArticlePerThread, Exists
<1> QED BY <1>3, <1>4 DEF Inv

\* A new row on its parent's article keeps every thread on one article.
LEMMA InsertInv ==
  ASSUME Inv, TypeOK', NEW r \in Request, NEW row \in Row, NEW paths, Insert(r, row, paths),
         row.parent \in minted \cup {None},
         row.parent # None => Articles(row.parent, row.article)
  PROVE  Inv'
<1>1. PICK i \in Id \ minted : /\ comments' = [comments EXCEPT ![i] = row]
                               /\ minted' = minted \cup {i}
  BY DEF Insert
<1>2. /\ comments'[i] = row /\ row # None
      /\ \A j \in Id : j # i => comments'[j] = comments[j]
  BY <1>1 DEF Inv, TypeOK
<1>3. None \notin minted /\ minted \subseteq Id
  BY DEF Inv, TypeOK
<1>4. Keeps
  BY <1>1, <1>2, <1>3 DEF Keeps, Exists
<1>5. HandlersKnown'
  BY <1>4, PurgesKnown DEF Insert
<1>6. RowsMinted'
  BY <1>1, <1>2 DEF Inv, RowsMinted, Exists
<1>7. OneArticlePerThread'
  <2> SUFFICES ASSUME NEW j \in Id, NEW p, comments'[j] # None,
                      p = comments'[j].parent, p # None, comments'[p] # None
               PROVE  comments'[p].article = comments'[j].article
    BY DEF OneArticlePerThread, Exists
  <2>1. CASE j = i
    <3>1. p \in minted /\ p # i
      BY <2>1, <1>2
    <3> QED BY <2>1, <3>1, <1>2, <1>3 DEF Articles, Exists
  <2>2. CASE j # i
    <3>1. Exists(j) /\ comments'[j] = comments[j] /\ p \in minted
      BY <2>2, <1>2 DEF Inv, RowsMinted, Exists
    <3>2. p # i /\ comments'[p] = comments[p]
      BY <3>1, <1>2, <1>3
    <3> QED BY <3>1, <3>2 DEF Inv, OneArticlePerThread, Exists
  <2> QED BY <2>1, <2>2
<1> QED BY <1>5, <1>6, <1>7 DEF Inv

\* The rows a moderation step leaves, edits or deletes.
LEMMA WriteRows ==
  ASSUME Inv, NEW r \in Request, Write(r), NEW i \in Id
  PROVE  /\ i \notin handler[r].ids \/ ~Exists(i) => comments'[i] = comments[i]
         /\ Exists(i)' => /\ Exists(i)
                          /\ comments'[i].article = comments[i].article
                          /\ comments'[i].parent = comments[i].parent
<1> DEFINE g == handler[r]
<1>1. CASE i \notin g.ids \/ ~Exists(i)
  <2>1. comments'[i] = comments[i]
    BY <1>1 DEF Write
  <2> QED BY <2>1 DEF Exists
<1>2. CASE i \in g.ids /\ Exists(i)
  <2>1. comments[i] \in Row
    BY <1>2 DEF Inv, TypeOK, Exists
  <2>2. comments'[i] = IF "delete" \in g.edits THEN None ELSE Edited(comments[i], g.edits)
    BY <1>2 DEF Write
  <2> QED BY <1>2, <2>1, <2>2, EditedRow DEF Exists
<1> QED BY <1>1, <1>2

LEMMA WriteInv ==
  ASSUME Inv, TypeOK', NEW r \in Request, Write(r)
  PROVE  Inv'
<1>1. minted' = minted /\ minted \subseteq Id /\ None \notin Id
  BY DEF Write, Inv, TypeOK
<1>2. Keeps
  BY <1>1, WriteRows DEF Keeps
<1>3. HandlersKnown'
  BY <1>2, PurgesKnown DEF Write
<1>4. RowsMinted'
  BY <1>1, WriteRows DEF Inv, RowsMinted
<1>5. OneArticlePerThread'
  <2> SUFFICES ASSUME NEW j \in Id, NEW p, comments'[j] # None,
                      p = comments'[j].parent, p # None, comments'[p] # None
               PROVE  comments'[p].article = comments'[j].article
    BY DEF OneArticlePerThread, Exists
  <2>1. /\ Exists(j) /\ comments'[j].article = comments[j].article
        /\ comments[j].parent = p
    BY WriteRows DEF Exists
  <2>2. p \in Id
    BY <2>1, <1>1 DEF Inv, RowsMinted
  <2>3. Exists(p) /\ comments'[p].article = comments[p].article
    BY <2>2, WriteRows DEF Exists
  <2> QED BY <2>1, <2>3 DEF Inv, OneArticlePerThread
<1> QED BY <1>3, <1>4, <1>5 DEF Inv

LEMMA NewerInv ==
  ASSUME Inv, TypeOK', NEW c \in Config, Newer(c)
  PROVE  Inv'
<1>1. UNCHANGED <<comments, minted>>
  BY DEF Newer
<1>2. HandlersKnown'
  <2> SUFFICES ASSUME NEW r \in Request, handler'[r] # None
               PROVE  Known(handler[r])'
    BY DEF HandlersKnown
  <2>1. CASE Is(r, "submit")
    <3>1. handler'[r] = [handler[r] EXCEPT !.seen = @ \cup {c}]
      BY <2>1 DEF Newer
    <3>2. handler[r] \in Submission /\ Known(handler[r])
      BY <2>1, HandlerOps DEF Is, Inv, HandlersKnown
    <3>3. /\ handler'[r].op = "submit" /\ handler[r].op = "submit"
          /\ handler'[r].pc = handler[r].pc
          /\ handler'[r].parent = handler[r].parent
          /\ handler'[r].article = handler[r].article
      BY <3>1, <3>2 DEF Submission
    <3> QED BY <1>1, <3>2, <3>3 DEF Known, Articles, Exists
  <2>2. CASE ~Is(r, "submit")
    <3>1. handler'[r] = handler[r] /\ Known(handler[r])
      BY <2>2 DEF Newer, Inv, HandlersKnown
    <3> QED BY <1>1, <3>1 DEF Known, Articles, Exists
  <2> QED BY <2>1, <2>2
<1>3. RowsMinted' /\ OneArticlePerThread'
  BY <1>1 DEF Inv, RowsMinted, OneArticlePerThread, Exists
<1> QED BY <1>2, <1>3 DEF Inv

LEMMA ReconfigureInv ==
  ASSUME Inv, TypeOK', Reconfigure
  PROVE  Inv'
<1>1. PICK c : Newer(c)
  BY DEF Reconfigure, PutMode, AddList, DeleteList, AddTerm, DeleteTerm
<1>2. c \in Config
  BY <1>1 DEF Newer, TypeOK
<1> QED BY <1>1, <1>2, NewerInv

LEMMA VisitorInv ==
  ASSUME Inv, TypeOK', NEW r \in Request, Visitor(r)
  PROVE  Inv'
<1> DEFINE h == handler[r]
<1>1. ASSUME NEW a \in Article, NEW n \in Nick \cup {None}, NEW said \in SUBSET Term,
             NEW p \in minted \cup {None}, Submit(r, a, n, said, p)
      PROVE  Inv'
  <2>1. Known([op |-> "submit", pc |-> "settings", article |-> a, nick |-> n, said |-> said,
               parent |-> p, mode |-> "open", status |-> "pending", seen |-> {config}])
    BY DEF Known
  <2> QED BY <1>1, <2>1, ProceedInv DEF Submit
<1>2. ASSUME Is(r, "submit") PROVE h \in Submission /\ h.op = "submit" /\ Known(h)
  BY <1>2, HandlerOps DEF Is, Inv, HandlersKnown
<1>3. CASE ReadSettings(r)
  <2>1. Known([h EXCEPT !.pc = "lists", !.mode = config.mode])
    BY <1>2, <1>3 DEF ReadSettings, At, Known, Submission
  <2> QED BY <1>3, <2>1, ProceedInv DEF ReadSettings
<1>4. CASE ReadLists(r)
  <2>1. \A s : Known([h EXCEPT !.pc = "terms", !.status = s])
    BY <1>2, <1>4 DEF ReadLists, At, Known, Submission
  <2> QED BY <1>4, <2>1, ProceedInv DEF ReadLists
<1>5. CASE ReadTerms(r)
  <2>1. Known([h EXCEPT !.pc = IF h.parent = None THEN "store" ELSE "parent"])
    BY <1>2, <1>5 DEF ReadTerms, At, Known, Submission
  <2> QED BY <1>5, <2>1, ProceedInv DEF ReadTerms
<1>6. CASE CheckParent(r)
  <2>1. comments[h.parent].article = h.article
    BY <1>6 DEF CheckParent, GoodParent
  <2>2. Known([h EXCEPT !.pc = "store"])
    BY <1>2, <1>6, <2>1 DEF CheckParent, At, Known, Submission, Articles
  <2> QED BY <1>6, <2>2, ProceedInv DEF CheckParent
<1>7. CASE Store(r)
  <2> DEFINE row == [article |-> h.article, status |-> h.status, parent |-> h.parent,
                     pinned |-> FALSE]
             paths == IF h.status = "approved" THEN {h.article} ELSE {}
  <2>1. h \in Submission /\ h.op = "submit" /\ h.pc = "store" /\ Known(h)
    BY <1>2, <1>7 DEF Store, At
  <2>2. /\ row \in Row /\ row.parent \in minted \cup {None}
        /\ row.parent # None => Articles(row.parent, row.article)
    BY <2>1 DEF Submission, Row, Known
  <2>3. Insert(r, row, paths)
    BY <1>7 DEF Store
  <2> HIDE DEF row, paths
  <2> QED BY <2>2, <2>3, InsertInv
<1> QED BY <1>1, <1>3, <1>4, <1>5, <1>6, <1>7 DEF Visitor

LEMMA SelectInv ==
  ASSUME Inv, TypeOK', NEW r \in Request, NEW op \in {"bulk", "single"},
         NEW ids \in SUBSET minted, NEW edits, Select(r, op, ids, edits)
  PROVE  Inv'
<1> DEFINE paths == {comments[i].article : i \in {j \in ids : Exists(j)}}
<1>1. Known([op |-> op, ids |-> ids, edits |-> edits, paths |-> paths])
  BY DEF Known
<1> QED BY <1>1, ProceedInv DEF Select

LEMMA OwnerInv ==
  ASSUME Inv, TypeOK', NEW r \in Request, Owner(r)
  PROVE  Inv'
<1>1. ASSUME NEW ids \in (SUBSET minted) \ {{}}, Bulk(r, ids) PROVE Inv'
  BY <1>1, SelectInv DEF Bulk
<1>2. ASSUME NEW i \in minted, Patch(r, i) \/ Delete(r, i) PROVE Inv'
  <2>1. {i} \in SUBSET minted
    OBVIOUS
  <2> QED BY <1>2, <2>1, SelectInv DEF Patch, Delete
<1>3. ASSUME NEW i \in minted, Reply(r, i) PROVE Inv'
  <2>1. Known([op |-> "reply", parent |-> i, article |-> comments[i].article])
    BY DEF Known, Articles
  <2> QED BY <1>3, <2>1, ProceedInv DEF Reply
<1>4. CASE Write(r)
  BY <1>4, WriteInv
<1>5. CASE StoreReply(r)
  <2> DEFINE h == handler[r]
             row == [article |-> h.article, status |-> "approved", parent |-> h.parent,
                     pinned |-> FALSE]
  <2>1. h \in OwnerReply /\ h.op = "reply" /\ Known(h)
    BY <1>5, HandlerOps DEF StoreReply, Is, Inv, HandlersKnown
  <2>2. /\ row \in Row /\ row.parent \in minted \cup {None}
        /\ row.parent # None => Articles(row.parent, row.article)
    BY <2>1 DEF OwnerReply, Row, Status, Known
  <2>3. Insert(r, row, {h.article})
    BY <1>5 DEF StoreReply
  <2> HIDE DEF row
  <2> QED BY <2>2, <2>3, InsertInv
<1> QED BY <1>1, <1>2, <1>3, <1>4, <1>5 DEF Owner

LEMMA NextInv == Inv /\ [Next]_commentVars => Inv'
<1> SUFFICES ASSUME Inv, [Next]_commentVars PROVE Inv'
  OBVIOUS
<1>1. TypeOK'
  BY NextType DEF Inv
<1>2. CASE UNCHANGED commentVars
  BY <1>2, <1>1 DEF commentVars, Inv, RowsMinted, HandlersKnown, Known, Articles,
     OneArticlePerThread, Exists
<1>3. ASSUME NEW r \in Request, Abandon(r) PROVE Inv'
  BY <1>1, <1>3, ProceedInv DEF Abandon
<1>4. ASSUME NEW r \in Request, NEW a \in Article, PurgeNext(r, a) PROVE Inv'
  <2>1. UNCHANGED <<comments, minted>> /\ OwesPurge(r, handler[r].paths \ {a})
    BY <1>4 DEF PurgeNext
  <2>2. HandlersKnown'
    BY <1>1, <2>1, UnchangedKeeps, PurgesKnown DEF Inv
  <2> QED BY <1>1, <2>1, <2>2 DEF Inv, RowsMinted, OneArticlePerThread, Exists
<1> QED BY <1>1, <1>2, <1>3, <1>4, VisitorInv, OwnerInv, ReconfigureInv DEF Next, Handle

LEMMA InitInv == Init => Inv
BY InitType DEF Init, Inv, RowsMinted, HandlersKnown, OneArticlePerThread, Exists

-----------------------------------------------------------------------------
(* The theorems.                                                           *)

\* Inv holds in every reachable state.
THEOREM Invariance == Spec => []Inv
BY InitInv, NextInv, PTL DEF Spec

\* A comment and its parent are on one article for as long as both exist,
\* although the parent is checked before, and outside, the batch that stores
\* the reply.
THEOREM ThreadsOnOneArticle == Spec => []OneArticlePerThread
<1>1. Inv => OneArticlePerThread
  BY DEF Inv
<1> QED BY <1>1, Invariance, PTL

LEMMA SameList ==
  ASSUME NEW a,
         \A j \in Id :
           /\ (Listed(j) /\ comments[j].article = a)
                <=> (Listed(j)' /\ comments'[j].article = a)
           /\ Listed(j) /\ comments[j].article = a
                => comments'[j].pinned = comments[j].pinned
  PROVE  PublicList(a)' = PublicList(a)
<1>1. \A e : e \in PublicList(a) <=> \E j \in Id :
        Listed(j) /\ comments[j].article = a /\ e = [id |-> j, pinned |-> comments[j].pinned]
  BY DEF PublicList
<1>2. \A e : e \in PublicList(a)' <=> \E j \in Id :
        Listed(j)' /\ comments'[j].article = a /\ e = [id |-> j, pinned |-> comments'[j].pinned]
  BY DEF PublicList
<1>3. \A e : e \in PublicList(a)' <=> e \in PublicList(a)
  BY <1>1, <1>2
<1> QED BY <1>3

\* A row with the same record, and the same record above it, is listed as before.
LEMMA ListedAsBefore ==
  ASSUME Inv, NEW j \in Id, comments'[j] = comments[j],
         Exists(j) /\ comments[j].parent # None
           => comments'[comments[j].parent] = comments[comments[j].parent]
  PROVE  Listed(j)' <=> Listed(j)
BY DEF Listed, Exists

LEMMA OwedAfter ==
  ASSUME Inv, NEW r \in Request, NEW paths \in SUBSET Article, OwesPurge(r, paths),
         NEW a \in paths
  PROVE  Is(r, "purge")' /\ a \in handler'[r].paths
<1>1. paths # {}
  OBVIOUS
<1>2. handler'[r] = [op |-> "purge", paths |-> paths]
  BY <1>1 DEF OwesPurge, Inv, TypeOK
<1>3. handler'[r] # None
  BY <1>2 DEF Purging
<1> QED BY <1>2, <1>3 DEF Is

LEMMA InsertOwes ==
  ASSUME Inv, NEW r \in Request, NEW row \in Row, NEW paths \in SUBSET Article,
         Insert(r, row, paths), row.status = "approved" => row.article \in paths,
         NEW a \in Article, PublicList(a)' # PublicList(a)
  PROVE  Is(r, "purge")' /\ a \in handler'[r].paths
<1>1. PICK i \in Id \ minted : comments' = [comments EXCEPT ![i] = row]
  BY DEF Insert
<1>2. /\ comments'[i] = row /\ ~Exists(i)
      /\ \A j \in Id : j # i => comments'[j] = comments[j]
  BY <1>1 DEF Inv, TypeOK, RowsMinted
<1>3. CASE a \in paths
  BY <1>3, OwedAfter DEF Insert
<1>4. CASE a \notin paths
  <2>1. ASSUME NEW j \in Id, j # i
        PROVE  comments'[j] = comments[j] /\ (Listed(j)' <=> Listed(j))
    <3>1. Exists(j) => comments[j].parent \in minted \cup {None}
      BY DEF Inv, RowsMinted
    <3>2. minted \subseteq Id
      BY DEF Inv, TypeOK
    <3> QED BY <1>1, <1>2, <2>1, <3>1, <3>2, ListedAsBefore
  <2>2. ~Listed(i) /\ ~(Listed(i)' /\ comments'[i].article = a)
    BY <1>2, <1>4 DEF Listed, Exists
  <2>3. PublicList(a)' = PublicList(a)
    BY <2>1, <2>2, SameList
  <2> QED BY <2>3
<1> QED BY <1>3, <1>4

LEMMA WriteOwes ==
  ASSUME Inv, NEW r \in Request, Write(r),
         NEW a \in Article, PublicList(a)' # PublicList(a)
  PROVE  Is(r, "purge")' /\ a \in handler'[r].paths
<1> DEFINE h == handler[r]
           left == {i \in h.ids : Exists(i)}
<1>1. h \in Moderation /\ Known(h) /\ h.op \in {"bulk", "single"}
  BY HandlerOps DEF Write, Is, Inv, HandlersKnown
<1>2. CASE left # {} /\ a \in h.paths
  <2>1. OwesPurge(r, h.paths)
    BY <1>2 DEF Write, PathsToPurge
  <2>2. h.paths \in SUBSET Article
    BY <1>1 DEF Moderation
  <2> QED BY <1>2, <2>1, <2>2, OwedAfter
<1>3. CASE left = {} \/ a \notin h.paths
  <2>1. \A i \in Id : i \notin left => comments'[i] = comments[i]
    BY WriteRows
  <2>2. \A i \in left : a = comments[i].article => a \in h.paths
    BY <1>1 DEF Known
  <2>3. ASSUME NEW j \in Id
        PROVE  /\ comments[j].article = a /\ Exists(j) => j \notin left
               /\ (Listed(j) /\ comments[j].article = a)
                    <=> (Listed(j)' /\ comments'[j].article = a)
    <3>1. Exists(j) /\ comments[j].article = a => j \notin left
      BY <1>3, <2>2
    <3>2. Exists(j)' => Exists(j) /\ comments'[j].article = comments[j].article
      BY WriteRows
    <3>3. CASE Exists(j) /\ comments[j].article = a
      <4>1. comments'[j] = comments[j]
        BY <2>1, <3>1, <3>3
      <4>2. comments[j].parent # None =>
              comments'[comments[j].parent] = comments[comments[j].parent]
        <5> SUFFICES ASSUME NEW p, p = comments[j].parent, p # None
                     PROVE  comments'[p] = comments[p]
          OBVIOUS
        <5>1. p \in Id
          BY <3>3 DEF Inv, TypeOK, RowsMinted
        <5>2. Exists(p) => comments[p].article = a
          BY <3>3, <5>1 DEF Inv, OneArticlePerThread
        <5>3. p \notin left
          BY <1>3, <2>2, <5>2
        <5> QED BY <2>1, <5>1, <5>3
      <4> QED BY <3>1, <4>1, <4>2, ListedAsBefore
    <3>4. CASE ~(Exists(j) /\ comments[j].article = a)
      BY <3>1, <3>2, <3>4 DEF Listed
    <3> QED BY <3>3, <3>4
  <2>4. PublicList(a)' = PublicList(a)
    BY <2>1, <2>3, SameList DEF Listed
  <2> QED BY <2>4
<1> QED BY <1>2, <1>3

LEMMA ListSame ==
  ASSUME UNCHANGED comments, NEW a
  PROVE  PublicList(a)' = PublicList(a)
BY DEF PublicList, Listed, Exists

\* The handler that changes a public list is the one that will owe its purge.
LEMMA ChangeOwes ==
  ASSUME Inv, [Next]_commentVars, NEW a \in Article, PublicList(a)' # PublicList(a)
  PROVE  \E r \in Request : /\ ~Is(r, "purge")
                            /\ Is(r, "purge")' /\ a \in handler'[r].paths
<1>1. comments' # comments
  BY ListSame
<1>2. PICK r \in Request : Store(r) \/ StoreReply(r) \/ Write(r)
  BY <1>1 DEF commentVars, Next, Handle, Visitor, Owner, Abandon, PurgeNext, Proceed,
     Submit, ReadSettings, ReadLists, ReadTerms, CheckParent, Bulk, Patch, Delete,
     Select, Reply, Reconfigure, PutMode, AddList, DeleteList, AddTerm, DeleteTerm, Newer
<1>3. ~Is(r, "purge")
  BY <1>2 DEF Store, StoreReply, Write, At, Is
<1>4. CASE Store(r)
  <2> DEFINE h == handler[r]
             row == [article |-> h.article, status |-> h.status, parent |-> h.parent,
                     pinned |-> FALSE]
             paths == IF h.status = "approved" THEN {h.article} ELSE {}
  <2>1. h \in Submission
    BY <1>4, HandlerOps DEF Store, At, Is, Inv
  <2>2. row \in Row /\ paths \in SUBSET Article
        /\ (row.status = "approved" => row.article \in paths)
    BY <2>1 DEF Submission, Row
  <2>3. Insert(r, row, paths)
    BY <1>4 DEF Store
  <2> HIDE DEF row, paths
  <2>4. Is(r, "purge")' /\ a \in handler'[r].paths
    BY <2>2, <2>3, InsertOwes
  <2> QED BY <1>3, <2>4
<1>5. CASE StoreReply(r)
  <2> DEFINE h == handler[r]
             row == [article |-> h.article, status |-> "approved", parent |-> h.parent,
                     pinned |-> FALSE]
  <2>1. h \in OwnerReply
    BY <1>5, HandlerOps DEF StoreReply, Is, Inv
  <2>2. row \in Row /\ {h.article} \in SUBSET Article /\ row.article \in {h.article}
    BY <2>1 DEF OwnerReply, Row, Status
  <2>3. Insert(r, row, {h.article})
    BY <1>5 DEF StoreReply
  <2> HIDE DEF row
  <2>4. Is(r, "purge")' /\ a \in handler'[r].paths
    BY <2>2, <2>3, InsertOwes
  <2> QED BY <1>3, <2>4
<1>6. CASE Write(r)
  BY <1>3, <1>6, WriteOwes
<1> QED BY <1>2, <1>4, <1>5, <1>6

\* Every step of every handler that changes the public list of an article,
\* in content or in order, leaves that handler with that article to purge.
THEOREM ListChangesOwePurges == Spec => ListChangeOwesPurge
<1> DEFINE Owed(a) == PublicList(a)' # PublicList(a) =>
             \E r \in Request : /\ ~Is(r, "purge")
                                /\ Is(r, "purge")' /\ a \in handler'[r].paths
<1>1. Inv /\ [Next]_commentVars => [\A a \in Article : Owed(a)]_commentVars
  BY ChangeOwes
<1> QED BY <1>1, Invariance, PTL DEF Spec, ListChangeOwesPurge

-----------------------------------------------------------------------------
(* What a submission has read justifies what it goes on to do: among the   *)
(* configurations in force since it started there is one for each answer   *)
(* it was given.  The one behind one answer need not be the one behind     *)
(* another: settings, lists and terms are read by three queries.           *)

\* Some configuration puts the author where the decided status says.
AuthorRead(h) ==
  \E c \in h.seen :
    IF h.status = "approved" THEN h.nick \in c.allow \ c.block
                             ELSE h.nick \notin c.allow \cup c.block

Warranted(h) ==
  h.op = "submit" =>
    /\ config \in h.seen
    /\ h.pc # "settings" => \E c \in h.seen : c.mode = h.mode
    /\ h.pc \in {"terms", "parent", "store"} => AuthorRead(h)
    /\ h.pc \in {"parent", "store"} =>
         /\ \E c \in h.seen : h.said \cap c.terms = {}
         /\ h.mode = "allowlist" => h.status = "approved"

HandlersWarranted == \A r \in Request : handler[r] # None => Warranted(handler[r])

\* A step of one handler under an unchanged configuration.
LEMMA OthersWarranted ==
  ASSUME TypeOK, HandlersWarranted, UNCHANGED config, NEW r \in Request,
         \A s \in Request : s # r => handler'[s] = handler[s],
         handler'[r] # None => Warranted(handler[r])'
  PROVE  HandlersWarranted'
<1> SUFFICES ASSUME NEW s \in Request, s # r, handler'[s] # None
             PROVE  Warranted(handler[s])'
  BY DEF HandlersWarranted
<1>1. handler'[s] = handler[s] /\ Warranted(handler[s])
  BY DEF HandlersWarranted
<1> QED BY <1>1 DEF Warranted, AuthorRead

LEMMA ProceedWarranted ==
  ASSUME TypeOK, HandlersWarranted, NEW r \in Request, NEW h, Proceed(r, h),
         h # None => Warranted(h)
  PROVE  HandlersWarranted'
<1>1. handler'[r] = h /\ \A s \in Request : s # r => handler'[s] = handler[s]
  BY DEF Proceed, TypeOK
<1>2. handler'[r] # None => Warranted(handler[r])'
  BY <1>1 DEF Proceed, Warranted, AuthorRead
<1> QED BY <1>1, <1>2, OthersWarranted DEF Proceed

\* A handler that goes on to its purges, or is done, has nothing to justify.
LEMMA OwesWarranted ==
  ASSUME TypeOK, HandlersWarranted, UNCHANGED config, NEW r \in Request, NEW paths,
         OwesPurge(r, paths)
  PROVE  HandlersWarranted'
<1>1. handler'[r] = None \/ handler'[r].op = "purge"
  BY DEF OwesPurge, TypeOK
<1>2. \A s \in Request : s # r => handler'[s] = handler[s]
  BY DEF OwesPurge, TypeOK
<1> QED BY <1>1, <1>2, OthersWarranted DEF Warranted

\* A new configuration joins those every submission has seen.
LEMMA NewerWarranted ==
  ASSUME TypeOK, HandlersWarranted, NEW c, Newer(c)
  PROVE  HandlersWarranted'
<1> SUFFICES ASSUME NEW r \in Request, handler'[r] # None
             PROVE  Warranted(handler[r])'
  BY DEF HandlersWarranted
<1>1. config' = c
  BY DEF Newer
<1>2. CASE Is(r, "submit")
  <2> DEFINE h == handler[r]
             g == [h EXCEPT !.seen = @ \cup {c}]
  <2>1. h \in Submission /\ h.op = "submit" /\ Warranted(h)
    BY <1>2, HandlerOps DEF Is, HandlersWarranted
  <2>2. /\ g.op = "submit" /\ g.pc = h.pc /\ g.mode = h.mode /\ g.status = h.status
        /\ g.nick = h.nick /\ g.said = h.said /\ g.seen = h.seen \cup {c}
    BY <2>1 DEF Submission
  <2>3. handler'[r] = g
    BY <1>2 DEF Newer
  <2> HIDE DEF g
  <2>4. h.pc \in {"terms", "parent", "store"} => AuthorRead(g)
    BY <2>1, <2>2 DEF Warranted, AuthorRead
  <2>5. /\ g.pc # "settings" => \E d \in g.seen : d.mode = g.mode
        /\ g.pc \in {"parent", "store"} =>
             /\ \E d \in g.seen : g.said \cap d.terms = {}
             /\ g.mode = "allowlist" => g.status = "approved"
    BY <2>1, <2>2 DEF Warranted
  <2> QED BY <1>1, <2>2, <2>3, <2>4, <2>5 DEF Warranted, AuthorRead
<1>3. CASE ~Is(r, "submit")
  <2>1. handler'[r] = handler[r] /\ handler'[r].op # "submit"
    BY <1>3 DEF Newer, Is
  <2> QED BY <2>1 DEF Warranted
<1> QED BY <1>2, <1>3

LEMMA VisitorWarranted ==
  ASSUME TypeOK, HandlersWarranted, NEW r \in Request, Visitor(r)
  PROVE  HandlersWarranted'
<1> DEFINE h == handler[r]
<1>1. ASSUME NEW a \in Article, NEW n \in Nick \cup {None}, NEW said \in SUBSET Term,
             NEW p \in minted \cup {None}, Submit(r, a, n, said, p)
      PROVE  HandlersWarranted'
  <2>1. Warranted([op |-> "submit", pc |-> "settings", article |-> a, nick |-> n,
                   said |-> said, parent |-> p, mode |-> "open", status |-> "pending",
                   seen |-> {config}])
    BY DEF Warranted
  <2> QED BY <1>1, <2>1, ProceedWarranted DEF Submit
<1>2. ASSUME Is(r, "submit") PROVE h \in Submission /\ h.op = "submit" /\ Warranted(h)
  BY <1>2, HandlerOps DEF Is, HandlersWarranted
<1>3. CASE ReadSettings(r)
  <2> DEFINE g == [h EXCEPT !.pc = "lists", !.mode = config.mode]
  <2>1. g.op = "submit" /\ g.pc = "lists" /\ g.mode = config.mode /\ g.seen = h.seen
    BY <1>2, <1>3 DEF ReadSettings, At, Submission
  <2>2. config \in h.seen
    BY <1>2, <1>3 DEF ReadSettings, At, Warranted
  <2>3. Proceed(r, g)
    BY <1>3 DEF ReadSettings
  <2> HIDE DEF g
  <2>4. Warranted(g)
    BY <2>1, <2>2 DEF Warranted
  <2> QED BY <2>3, <2>4, ProceedWarranted
<1>4. CASE ReadLists(r)
  <2> DEFINE verdict == Decide(h.nick, config)
             s == IF verdict = "allowlisted" THEN "approved" ELSE "pending"
             g == [h EXCEPT !.pc = "terms", !.status = s]
  <2>1. /\ h \in Submission /\ h.pc = "lists"
        /\ config \in h.seen /\ \E c \in h.seen : c.mode = h.mode
    BY <1>2, <1>4 DEF ReadLists, At, Warranted
  <2>2. /\ g.op = "submit" /\ g.pc = "terms" /\ g.mode = h.mode /\ g.status = s
        /\ g.nick = h.nick /\ g.seen = h.seen
    BY <1>2, <2>1 DEF ReadLists, At, Submission
  <2>3. IF s = "approved" THEN h.nick \in config.allow \ config.block
                          ELSE h.nick \notin config.allow \cup config.block
    BY <1>4 DEF ReadLists, Decide
  <2>4. Proceed(r, g)
    BY <1>4 DEF ReadLists
  <2> HIDE DEF g, s
  <2>5. AuthorRead(g)
    BY <2>1, <2>2, <2>3 DEF AuthorRead
  <2>6. Warranted(g)
    BY <2>1, <2>2, <2>5 DEF Warranted
  <2> QED BY <2>4, <2>6, ProceedWarranted
<1>5. CASE ReadTerms(r)
  <2> DEFINE pc == IF h.parent = None THEN "store" ELSE "parent"
             g == [h EXCEPT !.pc = pc]
  <2>1. /\ h \in Submission /\ h.pc = "terms" /\ config \in h.seen
        /\ (\E c \in h.seen : c.mode = h.mode) /\ AuthorRead(h)
        /\ h.said \cap config.terms = {}
        /\ h.mode = "allowlist" => h.status = "approved"
    BY <1>2, <1>5 DEF ReadTerms, At, Warranted
  <2>2. /\ g.op = "submit" /\ g.pc \in {"parent", "store"} /\ g.mode = h.mode
        /\ g.status = h.status /\ g.nick = h.nick /\ g.said = h.said /\ g.seen = h.seen
    BY <1>2, <1>5, <2>1 DEF ReadTerms, At, Submission
  <2>3. Proceed(r, g)
    BY <1>5 DEF ReadTerms
  <2> HIDE DEF g
  <2>4. AuthorRead(g)
    BY <2>1, <2>2 DEF AuthorRead
  <2>5. Warranted(g)
    BY <2>1, <2>2, <2>4 DEF Warranted
  <2> QED BY <2>3, <2>5, ProceedWarranted
<1>6. CASE CheckParent(r)
  <2> DEFINE g == [h EXCEPT !.pc = "store"]
  <2>1. h \in Submission /\ h.op = "submit" /\ h.pc = "parent" /\ Warranted(h)
    BY <1>2, <1>6 DEF CheckParent, At
  <2>2. /\ g.op = "submit" /\ g.pc = "store" /\ g.mode = h.mode
        /\ g.status = h.status /\ g.nick = h.nick /\ g.said = h.said /\ g.seen = h.seen
    BY <2>1 DEF Submission
  <2>3. Proceed(r, g)
    BY <1>6 DEF CheckParent
  <2> HIDE DEF g
  <2>4. Warranted(g)
    BY <2>1, <2>2 DEF Warranted, AuthorRead
  <2> QED BY <2>3, <2>4, ProceedWarranted
<1>7. CASE Store(r)
  BY <1>7, OwesWarranted DEF Store, Insert
<1> QED BY <1>1, <1>3, <1>4, <1>5, <1>6, <1>7 DEF Visitor

LEMMA OwnerWarranted ==
  ASSUME TypeOK, HandlersWarranted, NEW r \in Request, Owner(r)
  PROVE  HandlersWarranted'
<1>1. ASSUME NEW op \in {"bulk", "single"}, NEW ids, NEW edits, Select(r, op, ids, edits)
      PROVE  HandlersWarranted'
  <2> DEFINE paths == {comments[i].article : i \in {j \in ids : Exists(j)}}
  <2>1. Warranted([op |-> op, ids |-> ids, edits |-> edits, paths |-> paths])
    BY DEF Warranted
  <2> QED BY <1>1, <2>1, ProceedWarranted DEF Select
<1>2. ASSUME NEW i \in minted, Reply(r, i) PROVE HandlersWarranted'
  <2>1. Warranted([op |-> "reply", parent |-> i, article |-> comments[i].article])
    BY DEF Warranted
  <2> QED BY <1>2, <2>1, ProceedWarranted DEF Reply
<1>3. CASE Write(r)
  BY <1>3, OwesWarranted DEF Write
<1>4. CASE StoreReply(r)
  BY <1>4, OwesWarranted DEF StoreReply, Insert
<1> QED BY <1>1, <1>2, <1>3, <1>4 DEF Owner, Bulk, Patch, Delete

LEMMA NextWarranted == TypeOK /\ HandlersWarranted /\ [Next]_commentVars => HandlersWarranted'
<1> SUFFICES ASSUME TypeOK, HandlersWarranted, [Next]_commentVars
             PROVE  HandlersWarranted'
  OBVIOUS
<1>1. CASE UNCHANGED commentVars
  BY <1>1 DEF commentVars, HandlersWarranted, Warranted, AuthorRead
<1>2. ASSUME NEW r \in Request, Abandon(r) PROVE HandlersWarranted'
  BY <1>2, ProceedWarranted DEF Abandon
<1>3. ASSUME NEW r \in Request, NEW a \in Article, PurgeNext(r, a) PROVE HandlersWarranted'
  BY <1>3, OwesWarranted DEF PurgeNext
<1>4. CASE Reconfigure
  BY <1>4, NewerWarranted DEF Reconfigure, PutMode, AddList, DeleteList, AddTerm, DeleteTerm
<1> QED BY <1>1, <1>2, <1>3, <1>4, VisitorWarranted, OwnerWarranted DEF Next, Handle

\* Every answer a submission was given was right at some moment since it started.
THEOREM SubmissionsWarranted == Spec => []HandlersWarranted
<1>1. Init => HandlersWarranted
  BY DEF Init, HandlersWarranted
<1> QED BY <1>1, NextWarranted, TypeCorrect, PTL DEF Spec

\* However the mode, the lists and the terms change under a submission, the
\* row it stores was justified, point by point, while the request was running.
THEOREM StoredJustified == Spec => StoredWasJustified
<1> DEFINE Just(r) == At(r, "store") /\ minted' # minted /\ handler'[r] # handler[r] =>
             LET h == handler[r] IN
             /\ \E c \in h.seen :
                  IF h.status = "approved" THEN h.nick \in c.allow \ c.block
                                           ELSE h.nick \notin c.allow \cup c.block
             /\ h.status = "pending" => \E c \in h.seen : c.mode = "open"
             /\ \E c \in h.seen : h.said \cap c.terms = {}
<1>1. TypeOK /\ HandlersWarranted /\ [Next]_commentVars
        => [\A r \in Request : Just(r)]_commentVars
  <2> SUFFICES ASSUME TypeOK, HandlersWarranted, NEW r \in Request, At(r, "store")
               PROVE  Just(r)
    OBVIOUS
  <2> DEFINE h == handler[r]
  <2>1. h \in Submission /\ h.op = "submit" /\ h.pc = "store" /\ Warranted(h)
    BY HandlerOps DEF At, Is, HandlersWarranted
  <2>2. AuthorRead(h) /\ \E c \in h.seen : h.said \cap c.terms = {}
    BY <2>1 DEF Warranted
  <2>3. h.status = "pending" => \E c \in h.seen : c.mode = "open"
    BY <2>1 DEF Warranted, Submission, Mode
  <2> QED BY <2>2, <2>3 DEF AuthorRead
<1> QED BY <1>1, SubmissionsWarranted, TypeCorrect, PTL DEF Spec, StoredWasJustified

=============================================================================
