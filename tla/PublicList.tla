----------------------------- MODULE PublicList -----------------------------
(***************************************************************************)
(* The anonymous comments list behind the edge cache, composed with the    *)
(* writers of Comments.                                                    *)
(*                                                                         *)
(* A GET that misses queries the database and then puts the answer into    *)
(* the cache; a writer changes the table and then deletes the entry.  The  *)
(* four steps interleave, every cache call may fail without anybody        *)
(* noticing, and a stored list is served until its s-maxage is over.       *)
(***************************************************************************)
EXTENDS Comments

CONSTANTS
  Reader,            \* GETs of the list that may be in flight at one time
  EdgeTtlSeconds,    \* EDGE_CACHE_TTL_SECONDS, the s-maxage of an entry
  HandlingSeconds    \* the longest a GET takes from its query to its put

ASSUME PublicListAssumption ==
  EdgeTtlSeconds \in Nat \ {0} /\ HandlingSeconds \in Nat

VARIABLES
  cache,   \* caches.default: article -> the stored list, or None
  reads    \* GET -> the list it has queried and not yet put, or None

listVars == <<config, changes, comments, minted, handler, cache, reads>>

View == SUBSET [id: Id, pinned: BOOLEAN]

\* History of a list read from the database: for how many seconds it has not
\* been the article's list, and why no purge may have removed it: a purge came
\* while its GET was in flight, or a purge failed or never ran.
History == [old: Nat, excuses: SUBSET {"raced", "unpurged"}]

Stored == [view: View, age: Nat, history: History]
Read == [article: Article, view: View, age: Nat, history: History]

ListTypeOK ==
  /\ TypeOK
  /\ cache \in [Article -> Stored \cup {None}]
  /\ reads \in [Reader -> Read \cup {None}]

Cached(a) == cache[a] # None
Reading(g) == reads[g] # None

ListInit ==
  /\ Init
  /\ cache = [a \in Article |-> None]
  /\ reads = [g \in Reader |-> None]

-----------------------------------------------------------------------------
(* Reading.  A GET that finds an entry is served from it and changes       *)
(* nothing; so does one with a voterToken, which is never cached.          *)

\* The entry was missing, or the lookup failed: query the database.
Query(g, a) ==
  /\ ~Reading(g)
  /\ reads' = [reads EXCEPT ![g] =
       [article |-> a, view |-> PublicList(a), age |-> 0,
        history |-> [old |-> 0, excuses |-> {}]]]
  /\ UNCHANGED <<commentVars, cache>>

Put(g) ==
  LET q == reads[g] IN
  /\ Reading(g)
  /\ cache' = [cache EXCEPT ![q.article] =
                 [view |-> q.view, age |-> 0, history |-> q.history]]
  /\ reads' = [reads EXCEPT ![g] = None]
  /\ UNCHANGED commentVars

\* The put fails, or the GET dies before it.
PutFails(g) ==
  /\ Reading(g)
  /\ reads' = [reads EXCEPT ![g] = None]
  /\ UNCHANGED <<commentVars, cache>>

\* The cache may drop an entry whenever it likes.
Evict(a) ==
  /\ Cached(a)
  /\ cache' = [cache EXCEPT ![a] = None]
  /\ UNCHANGED <<commentVars, reads>>

-----------------------------------------------------------------------------
(* Writing: the steps of Comments, and what they do to the cache.          *)

Excuse(x, why) == [x EXCEPT !.history.excuses = @ \cup {why}]

\* The lists of these articles escape a purge.
ReadsExcused(paths, why) ==
  reads' = [g \in Reader |-> IF Reading(g) /\ reads[g].article \in paths
                             THEN Excuse(reads[g], why) ELSE reads[g]]

NotPurged(paths) ==
  /\ cache' = [a \in Article |-> IF Cached(a) /\ a \in paths
                                 THEN Excuse(cache[a], "unpurged") ELSE cache[a]]
  /\ ReadsExcused(paths, "unpurged")

Purge(r, a) ==
  /\ PurgeNext(r, a)
  /\ \/ cache' = [cache EXCEPT ![a] = None] /\ ReadsExcused({a}, "raced")
     \/ NotPurged({a})

\* A handler that dies before its purges are done leaves them undone.
Die(r) ==
  /\ Abandon(r)
  /\ NotPurged(IF Is(r, "purge") THEN handler[r].paths ELSE {})

\* Everything else leaves the cache alone.
WriteStep ==
  /\ Reconfigure \/ \E r \in Request : Handle(r)
  /\ UNCHANGED <<cache, reads>>

-----------------------------------------------------------------------------
(* Time.                                                                   *)

\* old is counted up to here.
TooOld == EdgeTtlSeconds + HandlingSeconds

OlderBy1(x, a) ==
  IF x.view = PublicList(a) THEN 0
  ELSE IF x.history.old < TooOld THEN x.history.old + 1 ELSE TooOld

\* Faulty variant: every hit renews the lifetime of the entry.
AgedSliding(x, a) == [x EXCEPT !.history.old = OlderBy1(x, a)]

Aged(x, a) == [x EXCEPT !.age = @ + 1, !.history.old = OlderBy1(x, a)]

Fresh(age) == age < EdgeTtlSeconds

Tick ==
  /\ \A g \in Reader : Reading(g) => reads[g].age < HandlingSeconds
  /\ cache' = [a \in Article |-> IF Cached(a) /\ Fresh(cache[a].age + 1)
                                 THEN Aged(cache[a], a) ELSE None]
  /\ reads' = [g \in Reader |-> IF Reading(g) THEN Aged(reads[g], reads[g].article)
                                ELSE None]
  /\ UNCHANGED commentVars

GetStep(g) == (\E a \in Article : Query(g, a)) \/ Put(g) \/ PutFails(g)

ListNext ==
  \/ \E g \in Reader : GetStep(g)
  \/ \E a \in Article : Evict(a)
  \/ \E r \in Request : Die(r) \/ \E a \in Article : Purge(r, a)
  \/ WriteStep
  \/ Tick

ListSpec == ListInit /\ [][ListNext]_listVars

\* Time passes, and the platform ends every GET one way or the other.
LiveSpec ==
  /\ ListSpec
  /\ WF_listVars(Tick)
  /\ \A g \in Reader : WF_listVars(Put(g) \/ PutFails(g))

-----------------------------------------------------------------------------
(* Properties.                                                             *)

OwesPurgeOf(a) == \E r \in Request : Is(r, "purge") /\ a \in handler[r].paths

\* Whatever fails and however it interleaves, a list that is served was the
\* article's list less than the TTL and one GET ago.
BoundedStaleness ==
  \A a \in Article :
    Cached(a) => cache[a].history.old < TooOld

\* An outdated list can be served for three reasons only: its purge is still
\* to come, a purge overtook the GET that stored it, or a purge was lost.
StaleOnlyIfExcused ==
  \A a \in Article :
    Cached(a) /\ cache[a].view # PublicList(a) /\ ~OwesPurgeOf(a)
    => cache[a].history.excuses # {}

\* A deleted comment leaves the cached lists for good.
DeletedLeaves ==
  \A i \in Id :
    (i \in minted /\ ~Exists(i)) ~>
      [](\A a \in Article : Cached(a) => \A e \in cache[a].view : e.id # i)

=============================================================================
