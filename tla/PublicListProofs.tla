-------------------------- MODULE PublicListProofs --------------------------
(***************************************************************************)
(* Proofs about PublicList, for any number of articles, comments, writers  *)
(* and GETs, and any lifetimes.                                            *)
(***************************************************************************)
EXTENDS PublicList, CommentsProofs

USE CommentsAssumption, PublicListAssumption

-----------------------------------------------------------------------------
(* Every step of the composition is a step of Comments, or leaves its      *)
(* variables alone.                                                        *)

LEMMA CommentsStep ==
  ASSUME [ListNext]_listVars
  PROVE  [Next]_commentVars
<1>1. CASE UNCHANGED listVars
  BY <1>1 DEF listVars, commentVars
<1>2. ASSUME NEW g \in Reader, GetStep(g) PROVE UNCHANGED commentVars
  BY <1>2 DEF GetStep, Query, Put, PutFails
<1>3. ASSUME NEW a \in Article, Evict(a) PROVE UNCHANGED commentVars
  BY <1>3 DEF Evict
<1>4. ASSUME NEW r \in Request, Die(r) PROVE Next
  BY <1>4 DEF Die, Next
<1>5. ASSUME NEW r \in Request, NEW a \in Article, Purge(r, a) PROVE Next
  BY <1>5 DEF Purge, Next
<1>6. CASE WriteStep
  BY <1>6 DEF WriteStep, Next
<1>7. CASE Tick
  BY <1>7 DEF Tick
<1> QED BY <1>1, <1>2, <1>3, <1>4, <1>5, <1>6, <1>7 DEF ListNext

\* The cache adds nothing to the tables: every behaviour of the writers and the
\* cache is one of Comments, whose theorems hold of it.
THEOREM ListImplementsComments == ListSpec => Spec
<1>1. ListInit => Init
  BY DEF ListInit
<1> QED BY <1>1, CommentsStep, PTL DEF ListSpec, Spec

-----------------------------------------------------------------------------
(* The lists and their histories.                                          *)

LEMMA ListView ==
  ASSUME TypeOK, NEW a
  PROVE  PublicList(a) \in View
<1>1. \A i \in Id : Listed(i) => comments[i].pinned \in BOOLEAN
  BY DEF Listed, Exists, TypeOK, Row
<1> QED BY <1>1 DEF PublicList, View

\* An excuse is added to the history, and nothing else changes.
LEMMA ExcuseStored ==
  ASSUME NEW x \in Stored, NEW why \in {"raced", "unpurged"}
  PROVE  /\ Excuse(x, why) \in Stored
         /\ Excuse(x, why).view = x.view
         /\ Excuse(x, why).age = x.age
         /\ Excuse(x, why).history.old = x.history.old
         /\ why \in Excuse(x, why).history.excuses
<1>1. x.history \in History
  BY DEF Stored
<1>2. [x.history EXCEPT !.excuses = @ \cup {why}] \in History
  BY <1>1 DEF History
<1>3. Excuse(x, why) = [x EXCEPT !.history = [x.history EXCEPT !.excuses = @ \cup {why}]]
  BY DEF Excuse, Stored, History
<1> QED BY <1>1, <1>2, <1>3 DEF Stored, History

LEMMA ExcuseRead ==
  ASSUME NEW x \in Read, NEW why \in {"raced", "unpurged"}
  PROVE  /\ Excuse(x, why) \in Read
         /\ Excuse(x, why).article = x.article
         /\ Excuse(x, why).view = x.view
         /\ Excuse(x, why).age = x.age
         /\ Excuse(x, why).history.old = x.history.old
         /\ why \in Excuse(x, why).history.excuses
<1>1. x.history \in History
  BY DEF Read
<1>2. [x.history EXCEPT !.excuses = @ \cup {why}] \in History
  BY <1>1 DEF History
<1>3. Excuse(x, why) = [x EXCEPT !.history = [x.history EXCEPT !.excuses = @ \cup {why}]]
  BY DEF Excuse, Read, History
<1> QED BY <1>1, <1>2, <1>3 DEF Read, History

\* A tick ages a list by one, and counts it as outdated by one at most.
LEMMA OlderBound ==
  ASSUME NEW x, NEW a, x.history \in History
  PROVE  /\ OlderBy1(x, a) \in Nat
         /\ x.history.old <= TooOld => OlderBy1(x, a) <= x.history.old + 1
BY DEF OlderBy1, TooOld, History

LEMMA AgedStored ==
  ASSUME NEW x \in Stored, NEW a
  PROVE  /\ Aged(x, a) \in Stored
         /\ Aged(x, a).view = x.view
         /\ Aged(x, a).age = x.age + 1
         /\ Aged(x, a).history.old = OlderBy1(x, a)
         /\ Aged(x, a).history.excuses = x.history.excuses
<1>1. x.history \in History /\ x.age \in Nat /\ OlderBy1(x, a) \in Nat
  BY OlderBound DEF Stored
<1> DEFINE h == [x.history EXCEPT !.old = OlderBy1(x, a)]
<1>2. h \in History /\ h.old = OlderBy1(x, a) /\ h.excuses = x.history.excuses
  BY <1>1 DEF History
<1> DEFINE y == [x EXCEPT !.age = x.age + 1, !.history = h]
<1>3. Aged(x, a) = y
  BY DEF Aged, Stored, History
<1> HIDE DEF h
<1>4. x.age + 1 \in Nat
  BY <1>1
<1>5. y.view = x.view /\ y.age = x.age + 1 /\ y.history = h
  BY DEF Stored
<1>6. y \in Stored
  BY <1>2, <1>4 DEF Stored
<1> HIDE DEF y
<1> QED BY <1>2, <1>3, <1>5, <1>6

LEMMA AgedRead ==
  ASSUME NEW x \in Read, NEW a
  PROVE  /\ Aged(x, a) \in Read
         /\ Aged(x, a).article = x.article
         /\ Aged(x, a).view = x.view
         /\ Aged(x, a).age = x.age + 1
         /\ Aged(x, a).history.old = OlderBy1(x, a)
         /\ Aged(x, a).history.excuses = x.history.excuses
<1>1. x.history \in History /\ x.age \in Nat /\ OlderBy1(x, a) \in Nat
  BY OlderBound DEF Read
<1> DEFINE h == [x.history EXCEPT !.old = OlderBy1(x, a)]
<1>2. h \in History /\ h.old = OlderBy1(x, a) /\ h.excuses = x.history.excuses
  BY <1>1 DEF History
<1> DEFINE y == [x EXCEPT !.age = x.age + 1, !.history = h]
<1>3. Aged(x, a) = y
  BY DEF Aged, Read, History
<1> HIDE DEF h
<1>4. x.age + 1 \in Nat
  BY <1>1
<1>5. y.view = x.view /\ y.age = x.age + 1 /\ y.history = h /\ y.article = x.article
  BY DEF Read
<1>6. y \in Read
  BY <1>2, <1>4 DEF Read
<1> HIDE DEF y
<1> QED BY <1>2, <1>3, <1>5, <1>6

-----------------------------------------------------------------------------
(* The inductive invariant.  A list in the cache is no older than its entry *)
(* and the GET that stored it; a list that is not the article's any more    *)
(* has its purge still to come, or a reason why none will help.             *)

Ages ==
  /\ \A a \in Article : Cached(a) =>
       /\ cache[a].age < EdgeTtlSeconds
       /\ cache[a].history.old <= cache[a].age + HandlingSeconds
  /\ \A g \in Reader : Reading(g) =>
       /\ reads[g].age <= HandlingSeconds
       /\ reads[g].history.old <= reads[g].age

Justified(x, a) ==
  x.view = PublicList(a) \/ OwesPurgeOf(a) \/ x.history.excuses # {}

Excused ==
  /\ \A a \in Article : Cached(a) => Justified(cache[a], a)
  /\ \A g \in Reader : Reading(g) => Justified(reads[g], reads[g].article)

ListInv == ListTypeOK /\ Inv /\ Ages /\ Excused

\* What the next state may make of a list without any time passing: nothing,
\* or an excuse.
Spared(old, new) ==
  new = old \/ \E why \in {"raced", "unpurged"} : new = Excuse(old, why)

LEMMA SparedStored ==
  ASSUME NEW x \in Stored, NEW y, Spared(x, y)
  PROVE  /\ y \in Stored /\ y.view = x.view /\ y.age = x.age
         /\ y.history.old = x.history.old
         /\ x.history.excuses # {} => y.history.excuses # {}
<1>1. CASE y = x
  BY <1>1
<1>2. ASSUME NEW why \in {"raced", "unpurged"}, y = Excuse(x, why)
      PROVE  /\ y \in Stored /\ y.view = x.view /\ y.age = x.age
             /\ y.history.old = x.history.old /\ y.history.excuses # {}
  BY <1>2, ExcuseStored
<1> QED BY <1>1, <1>2 DEF Spared

LEMMA SparedRead ==
  ASSUME NEW x \in Read, NEW y, Spared(x, y)
  PROVE  /\ y \in Read /\ y.article = x.article /\ y.view = x.view /\ y.age = x.age
         /\ y.history.old = x.history.old
         /\ x.history.excuses # {} => y.history.excuses # {}
<1>1. CASE y = x
  BY <1>1
<1>2. ASSUME NEW why \in {"raced", "unpurged"}, y = Excuse(x, why)
      PROVE  /\ y \in Read /\ y.article = x.article /\ y.view = x.view /\ y.age = x.age
             /\ y.history.old = x.history.old /\ y.history.excuses # {}
  BY <1>2, ExcuseRead
<1> QED BY <1>1, <1>2 DEF Spared

\* Nobody stores a list, and every GET goes on: a write, a purge, a death.
SparesAll ==
  /\ cache' \in [Article -> Stored \cup {None}]
  /\ \A a \in Article : cache'[a] = None \/ (Cached(a) /\ Spared(cache[a], cache'[a]))
  /\ reads' \in [Reader -> Read \cup {None}]
  /\ \A g \in Reader : IF Reading(g) THEN Spared(reads[g], reads'[g])
                                     ELSE reads'[g] = None

LEMMA SparedAges ==
  ASSUME ListTypeOK, Ages, SparesAll
  PROVE  Ages'
<1>1. ASSUME NEW a \in Article, Cached(a)'
      PROVE  /\ cache'[a].age < EdgeTtlSeconds
             /\ cache'[a].history.old <= cache'[a].age + HandlingSeconds
  <2>1. Cached(a) /\ cache[a] \in Stored /\ Spared(cache[a], cache'[a])
    BY <1>1 DEF SparesAll, ListTypeOK, Cached
  <2>2. cache'[a].age = cache[a].age /\ cache'[a].history.old = cache[a].history.old
    BY <2>1, SparedStored
  <2> QED BY <2>1, <2>2 DEF Ages
<1>2. ASSUME NEW g \in Reader, Reading(g)'
      PROVE  reads'[g].age <= HandlingSeconds /\ reads'[g].history.old <= reads'[g].age
  <2>1. Reading(g) /\ reads[g] \in Read /\ Spared(reads[g], reads'[g])
    BY <1>2 DEF SparesAll, ListTypeOK, Reading
  <2>2. reads'[g].age = reads[g].age /\ reads'[g].history.old = reads[g].history.old
    BY <2>1, SparedRead
  <2> QED BY <2>1, <2>2 DEF Ages
<1> QED BY <1>1, <1>2 DEF Ages, Cached, Reading

\* A list stays justified if its article's list and its purge stay, or if it
\* is given an excuse.
LEMMA SparedExcused ==
  ASSUME ListTypeOK, ListTypeOK', Excused, SparesAll,
         \A a \in Article :
           \/ OwesPurgeOf(a)'
           \/ PublicList(a)' = PublicList(a) /\ (OwesPurgeOf(a) => OwesPurgeOf(a)')
           \/ /\ Cached(a)' => cache'[a].history.excuses # {}
              /\ \A g \in Reader : Reading(g)' /\ reads'[g].article = a
                                   => reads'[g].history.excuses # {}
  PROVE  Excused'
<1>1. ASSUME NEW a \in Article, Cached(a)' PROVE Justified(cache[a], a)'
  <2>1. Cached(a) /\ cache[a] \in Stored /\ Spared(cache[a], cache'[a])
    BY <1>1 DEF SparesAll, ListTypeOK, Cached
  <2>2. /\ cache'[a].view = cache[a].view
        /\ cache[a].history.excuses # {} => cache'[a].history.excuses # {}
    BY <2>1, SparedStored
  <2>3. Justified(cache[a], a)
    BY <2>1 DEF Excused
  <2> QED BY <1>1, <2>2, <2>3 DEF Justified
<1>2. ASSUME NEW g \in Reader, Reading(g)' PROVE Justified(reads[g], reads[g].article)'
  <2>1. Reading(g) /\ reads[g] \in Read /\ Spared(reads[g], reads'[g])
    BY <1>2 DEF SparesAll, ListTypeOK, Reading
  <2>2. /\ reads'[g].view = reads[g].view /\ reads'[g].article = reads[g].article
        /\ reads[g].history.excuses # {} => reads'[g].history.excuses # {}
        /\ reads[g].article \in Article
    BY <2>1, SparedRead DEF Read
  <2>3. Justified(reads[g], reads[g].article)
    BY <2>1 DEF Excused
  <2> QED BY <1>2, <2>2, <2>3 DEF Justified
<1> QED BY <1>1, <1>2 DEF Excused

-----------------------------------------------------------------------------
(* The steps of the writers.                                               *)

LEMMA ReadsExcusedSpares ==
  ASSUME ListTypeOK, NEW paths, NEW why \in {"raced", "unpurged"}, ReadsExcused(paths, why)
  PROVE  /\ reads' \in [Reader -> Read \cup {None}]
         /\ \A g \in Reader : IF Reading(g) THEN Spared(reads[g], reads'[g])
                                            ELSE reads'[g] = None
         /\ \A g \in Reader : Reading(g)' /\ reads'[g].article \in paths
                              => reads'[g].history.excuses # {}
<1>1. ASSUME NEW g \in Reader, Reading(g)
      PROVE  reads[g] \in Read /\ (Reading(g) => Excuse(reads[g], why) \in Read)
             /\ Excuse(reads[g], why).article = reads[g].article
             /\ Excuse(reads[g], why).history.excuses # {}
  <2>1. reads[g] \in Read
    BY <1>1 DEF ListTypeOK, Reading
  <2> QED BY <2>1, ExcuseRead
<1>2. reads' \in [Reader -> Read \cup {None}]
  BY <1>1 DEF ReadsExcused, ListTypeOK, Reading
<1>3. ASSUME NEW g \in Reader
      PROVE  IF Reading(g) THEN Spared(reads[g], reads'[g]) ELSE reads'[g] = None
  BY DEF ReadsExcused, Reading, Spared
<1>4. ASSUME NEW g \in Reader, Reading(g)', reads'[g].article \in paths
      PROVE  reads'[g].history.excuses # {}
  <2>1. Reading(g)
    BY <1>4 DEF ReadsExcused, Reading
  <2> QED BY <1>1, <1>4, <2>1 DEF ReadsExcused, Reading
<1> QED BY <1>2, <1>3, <1>4

LEMMA NotPurgedSpares ==
  ASSUME ListTypeOK, NEW paths, NotPurged(paths)
  PROVE  /\ SparesAll
         /\ \A a \in Article \cap paths : Cached(a)' => cache'[a].history.excuses # {}
         /\ \A g \in Reader : Reading(g)' /\ reads'[g].article \in paths
                              => reads'[g].history.excuses # {}
<1>1. ASSUME NEW a \in Article, Cached(a)
      PROVE  Excuse(cache[a], "unpurged") \in Stored
             /\ Excuse(cache[a], "unpurged").history.excuses # {}
  <2>1. cache[a] \in Stored
    BY <1>1 DEF ListTypeOK, Cached
  <2> QED BY <2>1, ExcuseStored
<1>2. cache' \in [Article -> Stored \cup {None}]
  BY <1>1 DEF NotPurged, ListTypeOK, Cached
<1>3. ASSUME NEW a \in Article
      PROVE  cache'[a] = None \/ (Cached(a) /\ Spared(cache[a], cache'[a]))
  BY DEF NotPurged, Cached, Spared
<1>4. \A a \in Article \cap paths : Cached(a)' => cache'[a].history.excuses # {}
  BY <1>1 DEF NotPurged, Cached
<1>5. ReadsExcused(paths, "unpurged")
  BY DEF NotPurged
<1> QED BY <1>2, <1>3, <1>4, <1>5, ReadsExcusedSpares DEF SparesAll

LEMMA PurgeKeeps ==
  ASSUME ListInv, Inv', NEW r \in Request, NEW a \in Article, Purge(r, a)
  PROVE  ListInv'
<1>1. ListTypeOK
  BY DEF ListInv
<1> DEFINE Done(b) ==
      /\ Cached(b)' => cache'[b].history.excuses # {}
      /\ \A g \in Reader : Reading(g)' /\ reads'[g].article = b
                           => reads'[g].history.excuses # {}
<1>2. SparesAll /\ Done(a)
  <2>1. CASE cache' = [cache EXCEPT ![a] = None] /\ ReadsExcused({a}, "raced")
    <3>1. /\ cache' \in [Article -> Stored \cup {None}]
          /\ \A b \in Article : cache'[b] = None \/ (Cached(b) /\ Spared(cache[b], cache'[b]))
          /\ ~Cached(a)'
      BY <1>1, <2>1 DEF ListTypeOK, Cached, Spared
    <3> QED BY <1>1, <2>1, <3>1, ReadsExcusedSpares DEF SparesAll
  <2>2. CASE NotPurged({a})
    BY <1>1, <2>2, NotPurgedSpares
  <2> QED BY <2>1, <2>2 DEF Purge
<1>3. ListTypeOK'
  BY <1>2 DEF SparesAll, ListTypeOK, Inv
<1>4. ASSUME NEW b \in Article, b # a
      PROVE  PublicList(b)' = PublicList(b) /\ (OwesPurgeOf(b) => OwesPurgeOf(b)')
  <2>1. UNCHANGED comments
    BY DEF Purge, PurgeNext
  <2>2. ASSUME NEW q \in Request, Is(q, "purge"), b \in handler[q].paths
        PROVE  Is(q, "purge")' /\ b \in handler'[q].paths
    <3>1. q \in DOMAIN handler /\ r \in DOMAIN handler
      BY <1>1 DEF ListTypeOK, TypeOK
    <3>2. CASE q # r
      BY <2>2, <3>1, <3>2 DEF Purge, PurgeNext, OwesPurge, Is
    <3>3. CASE q = r
      <4>1. b \in handler[r].paths \ {a}
        BY <1>4, <2>2, <3>3
      <4>2. handler'[r] = [op |-> "purge", paths |-> handler[r].paths \ {a}]
        BY <3>1, <4>1 DEF Purge, PurgeNext, OwesPurge
      <4>3. handler'[r] # None
        BY <4>2, <2>2, <3>3, <1>1, HandlerOps DEF Purging, Is, ListTypeOK
      <4> QED BY <3>3, <4>1, <4>2, <4>3 DEF Is
    <3> QED BY <3>2, <3>3
  <2> QED BY <2>1, <2>2, ListSame DEF OwesPurgeOf
<1>5. Ages' /\ Excused'
  BY <1>1, <1>2, <1>3, <1>4, SparedAges, SparedExcused DEF ListInv
<1> QED BY <1>3, <1>5 DEF ListInv

LEMMA DieKeeps ==
  ASSUME ListInv, Inv', NEW r \in Request, Die(r)
  PROVE  ListInv'
<1> DEFINE paths == IF Is(r, "purge") THEN handler[r].paths ELSE {}
<1>1. ListTypeOK /\ NotPurged(paths)
  BY DEF ListInv, Die
<1>2. SparesAll
  BY <1>1, NotPurgedSpares
<1>3. ListTypeOK'
  BY <1>2 DEF SparesAll, ListTypeOK, Inv
<1>4. ASSUME NEW b \in Article, b \notin paths
      PROVE  PublicList(b)' = PublicList(b) /\ (OwesPurgeOf(b) => OwesPurgeOf(b)')
  <2>1. UNCHANGED comments /\ handler' = [handler EXCEPT ![r] = None]
    BY DEF Die, Abandon, Proceed
  <2>2. ASSUME NEW q \in Request, Is(q, "purge"), b \in handler[q].paths
        PROVE  Is(q, "purge")' /\ b \in handler'[q].paths
    <3>1. q # r
      BY <1>4, <2>2
    <3> QED BY <1>1, <2>1, <2>2, <3>1 DEF Is, ListTypeOK, TypeOK
  <2> QED BY <2>1, <2>2, ListSame DEF OwesPurgeOf
<1>5. ASSUME NEW b \in Article, b \in paths
      PROVE  /\ Cached(b)' => cache'[b].history.excuses # {}
             /\ \A g \in Reader : Reading(g)' /\ reads'[g].article = b
                                  => reads'[g].history.excuses # {}
  BY <1>1, <1>5, NotPurgedSpares
<1>6. Ages' /\ Excused'
  BY <1>1, <1>2, <1>3, <1>4, <1>5, SparedAges, SparedExcused DEF ListInv
<1> QED BY <1>3, <1>6 DEF ListInv

\* A handler that runs owes no purge yet, and leaves the others alone.
LEMMA WriteFrame ==
  ASSUME TypeOK, WriteStep, NEW q \in Request, Is(q, "purge")
  PROVE  handler'[q] = handler[q]
<1>1. CASE Reconfigure
  <2>1. PICK c : Newer(c)
    BY <1>1 DEF Reconfigure, PutMode, AddList, DeleteList, AddTerm, DeleteTerm
  <2> QED BY <2>1 DEF Newer, Is
<1>2. ASSUME NEW r \in Request, Handle(r) PROVE handler'[q] = handler[q]
  <2>1. r # q
    BY <1>2 DEF Handle, Visitor, Owner, Submit, ReadSettings, ReadLists, ReadTerms,
       CheckParent, Store, Bulk, Patch, Delete, Select, Reply, Write, StoreReply, At, Is
  <2>2. PICK h : handler' = [handler EXCEPT ![r] = h]
    BY <1>2 DEF Handle, Visitor, Owner, Submit, ReadSettings, ReadLists, ReadTerms,
       CheckParent, Store, Insert, OwesPurge, Bulk, Patch, Delete, Select, Reply, Write,
       StoreReply, Proceed
  <2> QED BY <2>1, <2>2 DEF TypeOK
<1> QED BY <1>1, <1>2 DEF WriteStep

LEMMA WriteKeeps ==
  ASSUME ListInv, Inv', WriteStep
  PROVE  ListInv'
<1>1. ListTypeOK /\ UNCHANGED <<cache, reads>> /\ TypeOK
  BY DEF ListInv, WriteStep, ListTypeOK
<1>2. SparesAll /\ ListTypeOK'
  BY <1>1 DEF SparesAll, ListTypeOK, Inv, Spared, Cached, Reading
<1>3. ASSUME NEW a \in Article, PublicList(a)' # PublicList(a)
      PROVE  OwesPurgeOf(a)'
  <2>1. Next /\ Inv
    BY DEF WriteStep, Next, ListInv
  <2> QED BY <1>3, <2>1, ChangeOwes DEF OwesPurgeOf
<1>4. ASSUME NEW a \in Article, OwesPurgeOf(a)
      PROVE  OwesPurgeOf(a)'
  <2>1. PICK q \in Request : Is(q, "purge") /\ a \in handler[q].paths
    BY <1>4 DEF OwesPurgeOf
  <2>2. handler'[q] = handler[q]
    BY <1>1, <2>1, WriteFrame
  <2> QED BY <2>1, <2>2 DEF OwesPurgeOf, Is
<1>5. Ages' /\ Excused'
  BY <1>1, <1>2, <1>3, <1>4, SparedAges, SparedExcused DEF ListInv
<1> QED BY <1>2, <1>5 DEF ListInv

-----------------------------------------------------------------------------
(* The steps of the readers, and time.                                     *)

LEMMA SameTable ==
  ASSUME UNCHANGED commentVars
  PROVE  /\ \A a : PublicList(a)' = PublicList(a)
         /\ \A a : OwesPurgeOf(a)' <=> OwesPurgeOf(a)
BY ListSame DEF commentVars, OwesPurgeOf, Is

LEMMA QueryKeeps ==
  ASSUME ListInv, Inv', NEW g \in Reader, NEW a \in Article, Query(g, a)
  PROVE  ListInv'
<1> DEFINE new == [article |-> a, view |-> PublicList(a), age |-> 0,
                   history |-> [old |-> 0, excuses |-> {}]]
<1>1. new \in Read
  BY ListView DEF Read, History, ListInv, ListTypeOK
<1>2. UNCHANGED <<commentVars, cache>> /\ reads' = [reads EXCEPT ![g] = new]
  BY DEF Query
<1>3. /\ new.article = a /\ new.view = PublicList(a) /\ new.age = 0
      /\ new.history.old = 0
  OBVIOUS
<1> HIDE DEF new
<1>4. ListTypeOK'
  BY <1>1, <1>2 DEF ListInv, ListTypeOK, Inv
<1>5. \A f \in Reader : reads'[f] = IF f = g THEN new ELSE reads[f]
  BY <1>2 DEF ListInv, ListTypeOK
<1>6. Ages'
  BY <1>2, <1>3, <1>5 DEF ListInv, Ages, Cached, Reading
<1>7. Excused'
  BY <1>2, <1>3, <1>5, SameTable DEF ListInv, Excused, Justified, Cached, Reading
<1> QED BY <1>4, <1>6, <1>7 DEF ListInv

LEMMA PutKeeps ==
  ASSUME ListInv, Inv', NEW g \in Reader, Put(g)
  PROVE  ListInv'
<1> DEFINE q == reads[g]
           new == [view |-> q.view, age |-> 0, history |-> q.history]
<1>1. q \in Read /\ Reading(g)
  BY DEF Put, Reading, ListInv, ListTypeOK
<1>2. /\ new \in Stored /\ new.view = q.view /\ new.age = 0 /\ new.history = q.history
      /\ q.article \in Article
  BY <1>1 DEF Read, Stored
<1>3. /\ UNCHANGED commentVars /\ cache' = [cache EXCEPT ![q.article] = new]
      /\ reads' = [reads EXCEPT ![g] = None]
  BY DEF Put
<1>4. q.history.old \in Nat /\ q.age \in Nat
  BY <1>1 DEF Read, History
<1> HIDE DEF q, new
<1>5. ListTypeOK'
  BY <1>2, <1>3 DEF ListInv, ListTypeOK, Inv
<1>6. /\ \A f \in Reader : reads'[f] = IF f = g THEN None ELSE reads[f]
      /\ \A a \in Article : cache'[a] = IF a = q.article THEN new ELSE cache[a]
  BY <1>3 DEF ListInv, ListTypeOK
<1>7. q.history.old <= HandlingSeconds /\ Justified(q, q.article)
  BY <1>1, <1>4 DEF q, ListInv, Ages, Excused
<1>8. Ages'
  <2>1. new.age < EdgeTtlSeconds /\ new.history.old <= new.age + HandlingSeconds
    BY <1>2, <1>4, <1>7
  <2> QED BY <1>6, <2>1 DEF ListInv, Ages, Cached, Reading
<1>9. Excused'
  <2>1. Justified(new, q.article)
    BY <1>2, <1>7 DEF Justified
  <2> QED BY <1>3, <1>6, <2>1, SameTable DEF ListInv, Excused, Justified, Cached, Reading
<1> QED BY <1>5, <1>8, <1>9 DEF ListInv

LEMMA DropKeeps ==
  ASSUME ListInv, Inv', UNCHANGED commentVars,
         \/ /\ UNCHANGED cache
            /\ \E g \in Reader : reads' = [reads EXCEPT ![g] = None]
         \/ /\ UNCHANGED reads
            /\ \E a \in Article : cache' = [cache EXCEPT ![a] = None]
  PROVE  ListInv'
<1>1. ListTypeOK'
  BY DEF ListInv, ListTypeOK, Inv
<1>2. /\ \A f \in Reader : reads'[f] = None \/ reads'[f] = reads[f]
      /\ \A b \in Article : cache'[b] = None \/ cache'[b] = cache[b]
  BY DEF ListInv, ListTypeOK
<1>3. Ages'
  BY <1>2 DEF ListInv, Ages, Cached, Reading
<1>4. Excused'
  BY <1>2, SameTable DEF ListInv, Excused, Justified, Cached, Reading
<1> QED BY <1>1, <1>3, <1>4 DEF ListInv

LEMMA TickKeeps ==
  ASSUME ListInv, Inv', Tick
  PROVE  ListInv'
<1>1. ListTypeOK /\ UNCHANGED commentVars /\ TooOld \in Nat
  BY DEF ListInv, Tick, TooOld
<1>2. ASSUME NEW a \in Article, Cached(a)'
      PROVE  /\ cache[a] \in Stored /\ Cached(a)
             /\ cache'[a] = Aged(cache[a], a) /\ Fresh(cache[a].age + 1)
  BY <1>1, <1>2 DEF Tick, Cached, ListTypeOK
<1>3. ASSUME NEW g \in Reader, Reading(g)'
      PROVE  /\ reads[g] \in Read /\ Reading(g)
             /\ reads'[g] = Aged(reads[g], reads[g].article)
             /\ reads[g].age < HandlingSeconds
  BY <1>1, <1>3 DEF Tick, Reading, ListTypeOK
<1>4. ListTypeOK'
  <2>1. \A a \in Article : Cached(a) => Aged(cache[a], a) \in Stored
    BY <1>1, AgedStored DEF ListTypeOK, Cached
  <2>2. \A g \in Reader : Reading(g) => Aged(reads[g], reads[g].article) \in Read
    BY <1>1, AgedRead DEF ListTypeOK, Reading
  <2>3. cache' \in [Article -> Stored \cup {None}] /\ reads' \in [Reader -> Read \cup {None}]
    BY <2>1, <2>2 DEF Tick
  <2> QED BY <2>3 DEF ListTypeOK, Inv
<1>5. ASSUME NEW a \in Article, Cached(a)'
      PROVE  /\ cache'[a].age < EdgeTtlSeconds
             /\ cache'[a].history.old <= cache'[a].age + HandlingSeconds
             /\ Justified(cache[a], a)'
  <2> DEFINE x == cache[a]
  <2>1. x \in Stored /\ x.age \in Nat /\ x.history \in History /\ x.history.old \in Nat
    BY <1>2, <1>5 DEF Stored, History
  <2>2. /\ x.age < EdgeTtlSeconds /\ x.history.old <= x.age + HandlingSeconds
        /\ x.age + 1 < EdgeTtlSeconds /\ Justified(x, a)
    BY <1>2, <1>5 DEF ListInv, Ages, Excused, Fresh
  <2>3. /\ OlderBy1(x, a) \in Nat
        /\ x.history.old <= TooOld => OlderBy1(x, a) <= x.history.old + 1
    BY <2>1, OlderBound
  <2>4. x.history.old <= TooOld
    BY <2>1, <2>2 DEF TooOld
  <2>5. /\ cache'[a].age = x.age + 1 /\ cache'[a].history.old = OlderBy1(x, a)
        /\ cache'[a].view = x.view /\ cache'[a].history.excuses = x.history.excuses
    BY <1>2, <1>5, AgedStored
  <2>6. Justified(cache[a], a)'
    BY <1>1, <2>2, <2>5, SameTable DEF Justified
  <2> HIDE DEF x
  <2> QED BY <2>1, <2>2, <2>3, <2>4, <2>5, <2>6
<1>6. ASSUME NEW g \in Reader, Reading(g)'
      PROVE  /\ reads'[g].age <= HandlingSeconds
             /\ reads'[g].history.old <= reads'[g].age
             /\ Justified(reads[g], reads[g].article)'
  <2> DEFINE x == reads[g]
             a == reads[g].article
  <2>1. x \in Read /\ x.age \in Nat /\ x.history \in History /\ x.history.old \in Nat
    BY <1>3, <1>6 DEF Read, History
  <2>2. /\ x.history.old <= x.age /\ x.age < HandlingSeconds /\ Justified(x, a)
    BY <1>3, <1>6 DEF ListInv, Ages, Excused
  <2>3. /\ OlderBy1(x, a) \in Nat
        /\ x.history.old <= TooOld => OlderBy1(x, a) <= x.history.old + 1
    BY <2>1, OlderBound
  <2>4. x.history.old <= TooOld
    BY <2>1, <2>2 DEF TooOld
  <2>5. /\ reads'[g].age = x.age + 1 /\ reads'[g].history.old = OlderBy1(x, a)
        /\ reads'[g].view = x.view /\ reads'[g].history.excuses = x.history.excuses
        /\ reads'[g].article = a
    BY <1>3, <1>6, AgedRead
  <2>6. Justified(reads[g], reads[g].article)'
    BY <1>1, <2>2, <2>5, SameTable DEF Justified
  <2> HIDE DEF x
  <2> QED BY <2>1, <2>2, <2>3, <2>4, <2>5, <2>6
<1> QED BY <1>4, <1>5, <1>6 DEF ListInv, Ages, Excused, Cached, Reading

-----------------------------------------------------------------------------
(* The theorems.                                                           *)

LEMMA ListInvInit == ListInit => ListInv
<1> SUFFICES ASSUME ListInit PROVE ListInv
  OBVIOUS
<1>1. Inv /\ TypeOK
  BY InitInv DEF ListInit, Inv
<1> QED BY <1>1 DEF ListInit, ListInv, ListTypeOK, Ages, Excused, Cached, Reading

LEMMA ListInvNext == ListInv /\ [ListNext]_listVars => ListInv'
<1> SUFFICES ASSUME ListInv, [ListNext]_listVars PROVE ListInv'
  OBVIOUS
<1>1. Inv'
  BY CommentsStep, NextInv DEF ListInv
<1>2. CASE UNCHANGED listVars
  <2>1. UNCHANGED commentVars /\ UNCHANGED <<cache, reads>>
    BY <1>2 DEF listVars, commentVars
  <2> QED BY <1>1, <2>1, SameTable DEF ListInv, ListTypeOK, Inv, Ages, Excused, Justified,
             Cached, Reading
<1>3. ASSUME NEW g \in Reader, GetStep(g) PROVE ListInv'
  BY <1>1, <1>3, QueryKeeps, PutKeeps, DropKeeps DEF GetStep, PutFails
<1>4. ASSUME NEW a \in Article, Evict(a) PROVE ListInv'
  BY <1>1, <1>4, DropKeeps DEF Evict
<1>5. ASSUME NEW r \in Request, Die(r) PROVE ListInv'
  BY <1>1, <1>5, DieKeeps
<1>6. ASSUME NEW r \in Request, NEW a \in Article, Purge(r, a) PROVE ListInv'
  BY <1>1, <1>6, PurgeKeeps
<1>7. CASE WriteStep
  BY <1>1, <1>7, WriteKeeps
<1>8. CASE Tick
  BY <1>1, <1>8, TickKeeps
<1> QED BY <1>2, <1>3, <1>4, <1>5, <1>6, <1>7, <1>8 DEF ListNext

\* The invariant of the public list holds in every reachable state.
THEOREM ListInvariance == ListSpec => []ListInv
BY ListInvInit, ListInvNext, PTL DEF ListSpec

\* The cache and the GETs in flight keep their types; ages are numbers.
THEOREM ListTypeCorrect == ListSpec => []ListTypeOK
<1>1. ListInv => ListTypeOK
  BY DEF ListInv
<1> QED BY <1>1, ListInvariance, PTL

\* Whatever fails and however it interleaves, a list that is served was the
\* article's less than the lifetime of an entry and of one GET ago: edge-cache.ts
\* stores it with that lifetime and never prolongs it.
THEOREM StalenessBounded == ListSpec => []BoundedStaleness
<1>1. ListInv => BoundedStaleness
  <2> SUFFICES ASSUME ListInv, NEW a \in Article, Cached(a)
               PROVE  cache[a].history.old < TooOld
    BY DEF BoundedStaleness
  <2>1. cache[a].age \in Nat /\ cache[a].history.old \in Nat
    BY DEF ListInv, ListTypeOK, Cached, Stored, History
  <2>2. /\ cache[a].age < EdgeTtlSeconds
        /\ cache[a].history.old <= cache[a].age + HandlingSeconds
    BY DEF ListInv, Ages
  <2> QED BY <2>1, <2>2 DEF TooOld
<1> QED BY <1>1, ListInvariance, PTL

\* An outdated list is served only while its purge is to come, after a purge
\* overtook the GET that stored it, or after a purge that failed or never ran.
THEOREM StaleIsExcused == ListSpec => []StaleOnlyIfExcused
<1>1. ListInv => StaleOnlyIfExcused
  BY DEF ListInv, Excused, Justified, StaleOnlyIfExcused
<1> QED BY <1>1, ListInvariance, PTL

=============================================================================
