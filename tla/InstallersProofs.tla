--------------------------- MODULE InstallersProofs ---------------------------
(***************************************************************************)
(* Proofs about Installers, for both installers and any number of sessions,*)
(* consents, OAuth states and handlers.                                    *)
(***************************************************************************)
EXTENDS Installers, TLAPS

USE InstallersAssumption

-----------------------------------------------------------------------------
(* Handlers and their steps.                                               *)

Run == Callback \cup Connect \cup DeployRequest \cup Sweep

LEMMA OfKind ==
  ASSUME InstallersTypeOK, NEW r \in Request, ~Idle(r)
  PROVE  /\ request[r] \in Run /\ request[r].id \in Session
         /\ request[r].op = "callback" => request[r] \in Callback
         /\ request[r].op = "connect" => request[r] \in Connect
         /\ request[r].op = "deploy" => request[r] \in DeployRequest
         /\ request[r].op \in {"callback", "connect", "deploy"} => request[r].copy \in Record
<1>1. request[r] \in Run
  BY DEF InstallersTypeOK, Idle, Run
<1> QED BY <1>1 DEF Run, Callback, Connect, DeployRequest, Sweep

\* A handler that does not move; a deploy may notice the step of another one.
Same(q) ==
  \/ request'[q] = request[q]
  \/ Is(q, "deploy") /\ request'[q] = [request[q] EXCEPT !.disturbed = TRUE]

\* Handler r goes to h.
Steps(r, h) ==
  /\ request' \in [Request -> Run \cup {None}]
  /\ request'[r] = h
  /\ \A q \in Request \ {r} : Same(q)

LEMMA GoesSteps ==
  ASSUME InstallersTypeOK, NEW r \in Request, NEW h \in Run \cup {None}, Goes(r, h)
  PROVE  Steps(r, h) /\ \A q \in Request \ {r} : request'[q] = request[q]
BY DEF InstallersTypeOK, Goes, Steps, Same, Run

LEMMA DisturbsSteps ==
  ASSUME InstallersTypeOK, NEW r \in Request, NEW h \in Run \cup {None}, NEW s,
         Disturbs(r, s, h)
  PROVE  /\ Steps(r, h)
         /\ \A q \in Request \ {r} :
              Is(q, "deploy") /\ request[q].id = s => request'[q].disturbed = TRUE
<1>1. ASSUME NEW q \in Request, Is(q, "deploy")
      PROVE  /\ [request[q] EXCEPT !.disturbed = TRUE] \in DeployRequest
             /\ [request[q] EXCEPT !.disturbed = TRUE].disturbed = TRUE
  <2>1. request[q] \in DeployRequest
    BY <1>1, OfKind DEF Is
  <2> QED BY <2>1 DEF DeployRequest
<1>2. \A q \in Request : request[q] \in Run \cup {None}
  BY DEF InstallersTypeOK, Run
<1>3. request' \in [Request -> Run \cup {None}]
  BY <1>1, <1>2 DEF Disturbs, Run
<1> QED BY <1>1, <1>3 DEF Disturbs, Steps, Same

LEMMA Others ==
  ASSUME InstallersTypeOK, NEW q \in Request, Same(q)
  PROVE  /\ Idle(q)' <=> Idle(q)
         /\ \A op : Is(q, op)' <=> Is(q, op)
         /\ \A op, pc : At(q, op, pc)' <=> At(q, op, pc)
         /\ ~Idle(q) => request'[q].id = request[q].id /\ request'[q].op = request[q].op
         /\ ~Is(q, "deploy") => request'[q] = request[q]
         /\ Is(q, "deploy") =>
              /\ request'[q].copy = request[q].copy /\ request'[q].used = request[q].used
              /\ request'[q].revoking = request[q].revoking
              /\ request'[q].refused = request[q].refused
              /\ ~request'[q].disturbed => request'[q] = request[q]
<1>1. CASE request'[q] = request[q]
  BY <1>1 DEF Idle, Is, At
<1>2. CASE Is(q, "deploy") /\ request'[q] = [request[q] EXCEPT !.disturbed = TRUE]
  <2>1. request[q] \in DeployRequest
    BY <1>2, OfKind DEF Is
  <2>2. request'[q] \in DeployRequest
    BY <1>2, <2>1 DEF DeployRequest
  <2>3. request'[q] # None
    BY <2>2
  <2>4. /\ request'[q].op = request[q].op /\ request'[q].pc = request[q].pc
        /\ request'[q].id = request[q].id /\ request'[q].copy = request[q].copy
        /\ request'[q].used = request[q].used /\ request'[q].revoking = request[q].revoking
        /\ request'[q].refused = request[q].refused /\ request'[q].disturbed
    BY <1>2, <2>1 DEF DeployRequest
  <2> QED BY <1>2, <2>3, <2>4 DEF Idle, Is, At
<1> QED BY <1>1, <1>2 DEF Same

-----------------------------------------------------------------------------
(* Type correctness.                                                       *)

\* Cookies and handlers name sessions that exist, kept or not.
Exist ==
  /\ cookie # None => session[cookie] # None
  /\ \A r \in Request : ~Idle(r) => session[request[r].id] # None

Typed == InstallersTypeOK /\ Exist

LEMMA ViewType ==
  ASSUME Typed, NEW r \in Request, ~Idle(r),
         request[r].op \in {"callback", "connect", "deploy"}
  PROVE  ViewOf(r) \in Record /\ session[request[r].id] \in Record
BY OfKind DEF Typed, Exist, ViewOf, LocalView, HostedView, InstallersTypeOK

LEMMA AuthorizedType ==
  ASSUME NEW v \in Record, NEW c \in Consent, NEW life \in 0..SessionTtl, now \in Nat
  PROVE  /\ Authorized(c, v, life) \in Record
         /\ Authorized(c, v, life).token = c /\ Authorized(c, v, life).kind = "oauth"
<1>1. now + life \in Nat
  OBVIOUS
<1> QED BY <1>1 DEF Authorized, Record, Token

LEMMA PastedType ==
  ASSUME NEW v \in Record, NEW t \in ApiToken
  PROVE  Pasted(t, v) \in Record /\ Pasted(t, v).token = t /\ Pasted(t, v).kind = "token"
BY DEF Pasted, Record, Token

\* A step of one handler that leaves the sessions alone.
LEMMA GoesTyped ==
  ASSUME Typed, NEW r \in Request, NEW h \in Run \cup {None}, Goes(r, h),
         h # None => session[h.id] # None,
         UNCHANGED <<hosted, now, cookie, session>>, kept' \subseteq kept,
         states' \in [State -> Nat \cup {None}], issued' \in SUBSET State,
         tokens' \in [Token -> Worth], passed' \in [State -> Nat],
         raced' \in SUBSET State, spent' \in SUBSET Token
  PROVE  Typed'
<1>1. Steps(r, h)
  BY GoesSteps DEF Typed
<1>2. InstallersTypeOK'
  BY <1>1 DEF Typed, InstallersTypeOK, Steps, Run
<1>3. ASSUME NEW q \in Request, ~Idle(q)' PROVE session'[request'[q].id] # None
  BY <1>1, <1>3, Others DEF Typed, Exist, Steps, Idle, InstallersTypeOK
<1> QED BY <1>2, <1>3 DEF Typed, Exist

\* A handler ends with a session object or record changed.
LEMMA StoreTyped ==
  ASSUME Typed, NEW r \in Request, NEW s \in Session, NEW new \in Record,
         Disturbs(r, s, None), session' = [session EXCEPT ![s] = new] \/ session' = session,
         kept' \subseteq kept \cup {s}, session[s] # None,
         UNCHANGED <<hosted, now, cookie, oauth, tokens>>, spent' \in SUBSET Token
  PROVE  Typed'
<1>1. Steps(r, None)
  BY DisturbsSteps DEF Typed
<1>2. /\ session' \in [Session -> Record \cup {None}]
      /\ \A x \in Session : session[x] # None => session'[x] # None
  BY DEF Typed, InstallersTypeOK
<1>3. InstallersTypeOK'
  BY <1>1, <1>2 DEF Typed, InstallersTypeOK, Steps, Run, oauth
<1>4. ASSUME NEW q \in Request, ~Idle(q)' PROVE session'[request'[q].id] # None
  <2>1. q # r
    BY <1>1, <1>4 DEF Steps, Idle
  <2>2. ~Idle(q) /\ request'[q].id = request[q].id
    BY <1>1, <1>4, <2>1, Others DEF Typed, Steps
  <2> QED BY <1>2, <2>2, OfKind DEF Typed, Exist
<1>5. cookie' # None => session'[cookie'] # None
  BY <1>2 DEF Typed, Exist, InstallersTypeOK
<1> QED BY <1>3, <1>4, <1>5 DEF Typed, Exist

-----------------------------------------------------------------------------
(* The inductive invariant.                                                *)

\* The kind of a session is that of its token, in the store and in every copy.
Good(rec) ==
  /\ rec.token \in Consent => rec.kind = "oauth"
  /\ rec.kind = "oauth" => rec.token \notin ApiToken

Kinds ==
  /\ \A s \in Session : session[s] # None => Good(session[s])
  /\ \A r \in Request :
       Is(r, "callback") \/ Is(r, "connect") \/ Is(r, "deploy") => Good(request[r].copy)
  /\ \A r \in Request : Is(r, "deploy") => request[r].revoking \notin ApiToken
  /\ \A t \in ApiToken : tokens[t] = "live"

\* A state lets no second callback through unless two held it at one time.
Once ==
  \A st \in State :
    /\ st \notin issued => passed[st] = 0 /\ \A q \in Request : ~Holds(q, st)
    /\ ~hosted => \A q \in Request : ~Holds(q, st)
    /\ st \notin raced =>
         /\ passed[st] <= 1
         /\ passed[st] = 1 => states[st] = None
         /\ \A q \in Request : Holds(q, st) /\ request[q].valid => passed[st] = 0
         /\ \A q, x \in Request : Holds(q, st) /\ Holds(x, st) => q = x

\* Where a consent can be: with one callback, then in one session and with the
\* deploys of that session.
Carries(r, c) ==
  (At(r, "callback", "session") \/ At(r, "callback", "put")) /\ request[r].consent = c
InSession(s, c) == session[s] # None /\ session[s].token = c
Deploys(r, c) == Is(r, "deploy") /\ request[r].used = c

Placed(c) ==
  /\ tokens[c] = "unknown" =>
       /\ c \notin spent
       /\ \A r \in Request : ~Carries(r, c) /\ ~Deploys(r, c)
       /\ \A s \in Session : ~InSession(s, c)
  /\ \A r \in Request : Carries(r, c) =>
       /\ c \notin spent
       /\ \A q \in Request : (Carries(q, c) => q = r) /\ ~Deploys(q, c)
       /\ \A s \in Session : ~InSession(s, c)
  /\ \A s, x \in Session : InSession(s, c) /\ InSession(x, c) => s = x
  /\ \A s \in Session, r \in Request :
       InSession(s, c) /\ Deploys(r, c) => request[r].id = s
  /\ \A s \in Session : c \in spent /\ InSession(s, c) => s \notin kept

Places == \A c \in Consent : Placed(c)

\* What a deploy knows of its session as long as nobody has changed it.
Aware(r) ==
  LET h == request[r] IN
  Is(r, "deploy") =>
    /\ h.copy.token = h.used
    /\ ~h.disturbed =>
         /\ ~hosted => session[h.id] = h.copy
         /\ h.used \in Consent =>
              /\ h.pc = "revoke" => h.revoking = h.used
              /\ h.pc = "drop" => tokens[h.used] = "revoked" \/ h.refused

InstallersInv ==
  Typed /\ Kinds /\ Once /\ Places /\ \A r \in Request : Aware(r)

-----------------------------------------------------------------------------
(* What keeps each part.                                                   *)

LEMMA KindsKept ==
  ASSUME Typed, Kinds,
         \A s \in Session : session'[s] = session[s] \/ Good(session'[s]),
         \A t \in ApiToken : tokens'[t] = "live",
         \A q \in Request :
           \/ Same(q)
           \/ Idle(q)'
           \/ Is(q, "sweep")'
           \/ Good(request'[q].copy) /\ (Is(q, "deploy")' => request'[q].revoking \notin ApiToken)
  PROVE  Kinds'
<1>1. \A s \in Session : session'[s] # None => Good(session'[s])
  BY DEF Kinds
<1>2. ASSUME NEW q \in Request, Is(q, "callback")' \/ Is(q, "connect")' \/ Is(q, "deploy")'
      PROVE  /\ Good(request'[q].copy)
             /\ Is(q, "deploy")' => request'[q].revoking \notin ApiToken
  <2>1. CASE Same(q)
    BY <1>2, <2>1, Others DEF Kinds, Typed
  <2>2. ~Idle(q)' /\ ~Is(q, "sweep")'
    BY <1>2 DEF Is, Idle
  <2> QED BY <2>1, <2>2
<1> QED BY <1>1, <1>2 DEF Kinds, Good

LEMMA OnceKept ==
  ASSUME Typed, Once, UNCHANGED <<hosted, oauth>>,
         \A q \in Request :
           Same(q) \/ Idle(q)' \/ (\A st \in State : ~Holds(q, st)')
  PROVE  Once'
<1>1. ASSUME NEW q \in Request, NEW st \in State, Holds(q, st)'
      PROVE  Holds(q, st) /\ request'[q] = request[q]
  <2>1. Same(q)
    BY <1>1 DEF Holds, At, Is
  <2>2. ~Is(q, "deploy")
    BY <1>1, <2>1, Others DEF Holds, At, Is, Typed
  <2>3. request'[q] = request[q]
    BY <2>1, <2>2 DEF Same
  <2> QED BY <1>1, <2>3 DEF Holds, At, Is, Idle
<1> QED BY <1>1 DEF Once, oauth

\* Consents stay where they are, or go.
LEMMA PlacesKept ==
  ASSUME Typed, Places, NEW c \in Consent,
         tokens'[c] = "unknown" => tokens[c] = "unknown",
         \A q \in Request :
           \/ Same(q)
           \/ Idle(q)'
           \/ /\ Carries(q, c)' => Carries(q, c)
              /\ Deploys(q, c)' => Deploys(q, c) /\ request'[q].id = request[q].id,
         \A s \in Session : InSession(s, c)' => InSession(s, c) /\ (s \in kept' => s \in kept),
         c \in spent' => c \in spent
  PROVE  Placed(c)'
<1>1. ASSUME NEW q \in Request
      PROVE  /\ Carries(q, c)' => Carries(q, c)
             /\ Deploys(q, c)' => Deploys(q, c) /\ request'[q].id = request[q].id
  <2>1. CASE Same(q)
    <3>1. Is(q, "deploy") => ~Is(q, "callback")
      BY DEF Is
    <3>2. Carries(q, c)' => Carries(q, c)
      BY <2>1, <3>1, Others DEF Carries, At, Typed
    <3>3. Deploys(q, c)' => Deploys(q, c) /\ request'[q].id = request[q].id
      BY <2>1, Others DEF Deploys, Is, Idle, Typed
    <3> QED BY <3>2, <3>3
  <2>2. CASE Idle(q)'
    BY <2>2 DEF Carries, Deploys, At, Is
  <2> QED BY <2>1, <2>2
<1>2. Placed(c)
  BY DEF Places
<1> QED BY <1>1, <1>2 DEF Placed

LEMMA AwareKept ==
  ASSUME Typed, UNCHANGED hosted, NEW q \in Request, Same(q), Aware(q),
         Is(q, "deploy") /\ ~request'[q].disturbed
           => session'[request[q].id] = session[request[q].id],
         \A c \in Consent : tokens[c] = "revoked" => tokens'[c] = "revoked"
  PROVE  Aware(q)'
<1> SUFFICES ASSUME Is(q, "deploy")' PROVE Aware(q)'
  BY DEF Aware
<1>1. Is(q, "deploy")
  BY Others DEF Typed
<1>2. request'[q].copy = request[q].copy /\ request'[q].used = request[q].used
  BY <1>1, Others DEF Typed
<1>3. CASE request'[q] = request[q]
  BY <1>1, <1>3 DEF Aware
<1>4. CASE request'[q] # request[q]
  <2>1. request'[q].disturbed
    BY <1>1, <1>4, Others DEF Typed
  <2> QED BY <1>1, <1>2, <2>1 DEF Aware
<1> QED BY <1>3, <1>4

-----------------------------------------------------------------------------
(* Steps without a handler.                                                *)

LEMMA StartInv ==
  ASSUME InstallersInv, NEW s \in Session, Start(s)
  PROVE  InstallersInv'
<1>1. Typed /\ Kinds /\ Once /\ Places
  BY DEF InstallersInv
<1>0. PICK e \in Nat : e = now + SessionTtl
  BY <1>1 DEF Typed, InstallersTypeOK
<1> DEFINE new == [token |-> None, kind |-> "", expires |-> e]
<1>2. new \in Record /\ new.token = None /\ new.kind = ""
  BY DEF Record
<1>3. /\ session' = [session EXCEPT ![s] = new] /\ session[s] = None
      /\ UNCHANGED <<hosted, now, oauth, tokens, request, spent>>
      /\ kept' = kept \cup {s} /\ cookie' = s
  BY <1>0 DEF Start
<1> HIDE DEF new
<1>4. /\ session' \in [Session -> Record \cup {None}] /\ session'[s] = new /\ new # None
      /\ \A x \in Session : x # s => session'[x] = session[x]
  BY <1>1, <1>2, <1>3 DEF Typed, InstallersTypeOK
<1>5. \A q \in Request : Same(q)
  BY <1>3 DEF Same
<1>6. Typed'
  <2>1. InstallersTypeOK'
    BY <1>1, <1>3, <1>4 DEF Typed, InstallersTypeOK, oauth
  <2>2. \A q \in Request : ~Idle(q)' => session'[request'[q].id] # None
    BY <1>1, <1>3, <1>4, OfKind DEF Typed, Exist, Idle
  <2> QED BY <1>3, <1>4, <2>1, <2>2 DEF Typed, Exist
<1>7. Kinds'
  <2>1. Good(new)
    BY <1>2 DEF Good, Token
  <2> QED BY <1>1, <1>3, <1>4, <1>5, <2>1, KindsKept DEF Kinds
<1>8. Once'
  BY <1>1, <1>3, <1>5, OnceKept
<1>9. ASSUME NEW c \in Consent PROVE Placed(c)'
  <2>1. \A x \in Session : InSession(x, c)' => InSession(x, c) /\ (x \in kept' => x \in kept)
    BY <1>2, <1>3, <1>4 DEF InSession, Token
  <2> QED BY <1>1, <1>3, <1>5, <2>1, PlacesKept
<1>10. ASSUME NEW q \in Request PROVE Aware(q)'
  <2>1. Is(q, "deploy") => session'[request[q].id] = session[request[q].id]
    BY <1>1, <1>3, <1>4, OfKind DEF Typed, Exist, Is
  <2> QED BY <1>1, <1>3, <1>5, <2>1, AwareKept DEF InstallersInv
<1> QED BY <1>6, <1>7, <1>8, <1>9, <1>10 DEF InstallersInv, Places

\* Nothing moves but the clock, or a session leaves the map.
LEMMA StillInv ==
  ASSUME InstallersInv, UNCHANGED <<hosted, cookie, session, oauth, tokens, request, spent>>,
         now' \in Nat, kept' \subseteq kept
  PROVE  InstallersInv'
<1>1. Typed /\ Kinds /\ Once /\ Places
  BY DEF InstallersInv
<1>2. \A q \in Request : Same(q)
  BY DEF Same
<1>3. Typed'
  BY <1>1 DEF Typed, InstallersTypeOK, Exist, Idle, oauth
<1>4. Kinds'
  BY <1>1, <1>2, KindsKept DEF Kinds
<1>5. Once'
  BY <1>1, <1>2, OnceKept
<1>6. ASSUME NEW c \in Consent PROVE Placed(c)'
  <2>1. \A x \in Session : InSession(x, c)' => InSession(x, c) /\ (x \in kept' => x \in kept)
    BY DEF InSession
  <2> QED BY <1>1, <1>2, <2>1, PlacesKept
<1>7. ASSUME NEW q \in Request PROVE Aware(q)'
  BY <1>1, <1>2, AwareKept DEF InstallersInv
<1> QED BY <1>3, <1>4, <1>5, <1>6, <1>7 DEF InstallersInv, Places

LEMMA OAuthStartInv ==
  ASSUME InstallersInv, NEW st \in State, OAuthStart(st)
  PROVE  InstallersInv'
<1>1. Typed /\ Kinds /\ Once /\ Places
  BY DEF InstallersInv
<1>2. \A q \in Request : Same(q)
  BY DEF Same, OAuthStart
<1>3. /\ UNCHANGED <<hosted, now, cookie, store, tokens, request, passed, raced, spent>>
      /\ issued' = issued \cup {st} /\ states' = [states EXCEPT ![st] = now + StateTtl]
      /\ st \notin issued
  BY DEF OAuthStart
<1>4. Typed'
  BY <1>1, <1>3 DEF Typed, InstallersTypeOK, Exist, Idle, store
<1>5. Kinds'
  BY <1>1, <1>2, <1>3, KindsKept DEF Kinds, store
<1>6. Once'
  <2>1. \A x \in State : x # st => states'[x] = states[x]
    BY <1>1, <1>3 DEF Typed, InstallersTypeOK
  <2>2. \A x \in State, q \in Request : Holds(q, x)' <=> Holds(q, x)
    BY <1>3 DEF Holds, At, Is, Idle
  <2> QED BY <1>1, <1>3, <2>1, <2>2 DEF Once
<1>7. ASSUME NEW c \in Consent PROVE Placed(c)'
  <2>1. \A x \in Session : InSession(x, c)' => InSession(x, c) /\ (x \in kept' => x \in kept)
    BY <1>3 DEF InSession, store
  <2> QED BY <1>1, <1>2, <1>3, <2>1, PlacesKept
<1>8. ASSUME NEW q \in Request PROVE Aware(q)'
  BY <1>1, <1>2, <1>3, AwareKept DEF InstallersInv, store
<1> QED BY <1>4, <1>5, <1>6, <1>7, <1>8 DEF InstallersInv, Places

-----------------------------------------------------------------------------
(* Steps of handlers that change nothing but themselves.                   *)

LEMMA QuietInv ==
  ASSUME InstallersInv, NEW r \in Request, NEW h \in Run \cup {None}, Goes(r, h),
         UNCHANGED <<hosted, now, cookie, session, oauth, tokens, spent>>,
         kept' \subseteq kept,
         h # None => /\ session[h.id] # None
                     /\ h.op # "deploy" /\ (h.op = "sweep" \/ Good(h.copy))
                     /\ h.op = "callback" => h.pc = "put" /\ Carries(r, h.consent)
  PROVE  InstallersInv'
<1>1. Typed /\ Kinds /\ Once /\ Places
  BY DEF InstallersInv
<1>2. request'[r] = h /\ \A q \in Request \ {r} : Same(q)
  BY <1>1, GoesSteps DEF Typed, Steps
<1>3. Typed'
  <2>1. /\ states' \in [State -> Nat \cup {None}] /\ issued' \in SUBSET State
        /\ tokens' \in [Token -> Worth] /\ passed' \in [State -> Nat]
        /\ raced' \in SUBSET State /\ spent' \in SUBSET Token
    BY <1>1 DEF Typed, InstallersTypeOK, oauth
  <2> QED BY <1>1, <2>1, GoesTyped
<1>4. Kinds'
  <2>1. Idle(r)' \/ Is(r, "sweep")' \/ (Good(request'[r].copy) /\ ~Is(r, "deploy")')
    BY <1>2 DEF Idle, Is
  <2>2. \A t \in ApiToken : tokens'[t] = "live"
    BY <1>1 DEF Kinds
  <2> QED BY <1>1, <1>2, <2>1, <2>2, KindsKept
<1>5. Once'
  <2>1. \A st \in State : ~Holds(r, st)'
    BY <1>2 DEF Holds, At, Is, Idle
  <2> QED BY <1>1, <1>2, <2>1, OnceKept
<1>6. ASSUME NEW c \in Consent PROVE Placed(c)'
  <2>1. \A x \in Session : InSession(x, c)' => InSession(x, c) /\ (x \in kept' => x \in kept)
    BY DEF InSession
  <2>2. (Carries(r, c)' => Carries(r, c)) /\ ~Deploys(r, c)'
    BY <1>2 DEF Carries, Deploys, At, Is, Idle
  <2> QED BY <1>1, <1>2, <2>1, <2>2, PlacesKept
<1>7. ASSUME NEW q \in Request PROVE Aware(q)'
  <2>1. CASE q = r
    BY <1>2, <2>1 DEF Aware, Is, Idle
  <2>2. CASE q # r
    BY <1>1, <1>2, <2>2, AwareKept DEF InstallersInv
  <2> QED BY <2>1, <2>2
<1> QED BY <1>3, <1>4, <1>5, <1>6, <1>7 DEF InstallersInv, Places

LEMMA SweepInv ==
  ASSUME InstallersInv, NEW r \in Request,
         (\E s \in Session : HostedSweep(r, s)) \/ SweepDelete(r) \/ Fail(r)
  PROVE  InstallersInv'
<1>1. ASSUME NEW s \in Session, HostedSweep(r, s) PROVE InstallersInv'
  <2> DEFINE h == [op |-> "sweep", id |-> s]
  <2>1. h \in Run /\ h.id = s /\ h.op = "sweep"
    BY DEF Run, Sweep
  <2>2. Goes(r, h) /\ UNCHANGED <<hosted, now, cookie, session, oauth, tokens, spent, kept>>
    BY <1>1 DEF HostedSweep, store
  <2>3. session[s] # None
    BY <1>1 DEF HostedSweep, InstallersInv, Typed, InstallersTypeOK
  <2> HIDE DEF h
  <2> QED BY <2>1, <2>2, <2>3, QuietInv
<1>2. ASSUME SweepDelete(r) \/ Fail(r) PROVE InstallersInv'
  BY <1>2, QuietInv DEF SweepDelete, Fail, Ends, store
<1> QED BY <1>1, <1>2

LEMMA ConnectInv ==
  ASSUME InstallersInv, NEW r \in Request, NEW t \in ApiToken, ConnectToken(r, t)
  PROVE  InstallersInv'
<1> DEFINE h == [op |-> "connect", id |-> cookie, apiToken |-> t, copy |-> session[cookie]]
<1>1. cookie \in Session /\ session[cookie] \in Record /\ session[cookie] # None
  BY DEF ConnectToken, InstallersInv, Typed, InstallersTypeOK, Exist
<1>2. /\ h \in Run /\ h.id = cookie /\ h.op = "connect" /\ h.copy = session[cookie]
  BY <1>1 DEF Run, Connect
<1>3. Goes(r, h) /\ UNCHANGED <<hosted, now, cookie, session, oauth, tokens, spent, kept>>
  BY DEF ConnectToken, store
<1>4. Good(session[cookie])
  BY <1>1 DEF InstallersInv, Kinds
<1> HIDE DEF h
<1> QED BY <1>1, <1>2, <1>3, <1>4, QuietInv

LEMMA HostedFindInv ==
  ASSUME InstallersInv, NEW r \in Request, HostedFindSession(r)
  PROVE  InstallersInv'
<1>1. UNCHANGED <<hosted, now, cookie, session, oauth, tokens, spent, kept>>
  BY DEF HostedFindSession, store
<1>2. CASE ~Alive(request[r].id)
  BY <1>1, <1>2, QuietInv DEF HostedFindSession, Ends
<1>3. CASE Alive(request[r].id)
  <2> DEFINE s == request[r].id
             h == [request[r] EXCEPT !.pc = "put", !.copy = session[s]]
  <2>1. request[r] \in Callback /\ s \in Session /\ session[s] \in Record
        /\ request[r].op = "callback"
    BY OfKind, ViewType DEF HostedFindSession, At, Is, InstallersInv, Typed
  <2>2. /\ h \in Run /\ h.id = s /\ h.op = "callback" /\ h.copy = session[s]
        /\ h.pc = "put" /\ h.consent = request[r].consent
    BY <2>1 DEF Run, Callback
  <2>3. Goes(r, h)
    BY <1>3 DEF HostedFindSession
  <2>4. Carries(r, request[r].consent)
    BY DEF HostedFindSession, Carries
  <2>5. Good(session[s]) /\ session[s] # None
    BY <2>1 DEF InstallersInv, Kinds
  <2> HIDE DEF h, s
  <2> QED BY <1>1, <2>1, <2>2, <2>3, <2>4, <2>5, QuietInv
<1> QED BY <1>2, <1>3

-----------------------------------------------------------------------------
(* OAuth.                                                                  *)

\* A step of a callback, or one that begins, which leaves sessions alone.
LEMMA CallbackInv ==
  ASSUME InstallersInv, NEW r \in Request, NEW h \in Callback \cup {None}, Goes(r, h),
         ~Is(r, "deploy"),
         UNCHANGED <<hosted, now, cookie, session, kept, issued, spent>>,
         h # None => session[h.id] # None /\ Good(h.copy),
         states' \in [State -> Nat \cup {None}], passed' \in [State -> Nat],
         raced' \in SUBSET State, tokens' \in [Token -> Worth],
         \A t \in ApiToken : tokens'[t] = tokens[t],
         \A c \in Consent : /\ tokens'[c] = "unknown" => tokens[c] = "unknown"
                            /\ tokens[c] = "revoked" => tokens'[c] = "revoked",
         \A c \in Consent : (Carries(r, c)' => Carries(r, c)) \/ Placed(c)',
         Once'
  PROVE  InstallersInv'
<1>1. Typed /\ Kinds /\ Places
  BY DEF InstallersInv
<1>2. h \in Run \cup {None}
  BY DEF Run
<1>3. request'[r] = h /\ \A q \in Request \ {r} : Same(q)
  BY <1>1, <1>2, GoesSteps DEF Typed, Steps
<1>4. h # None => h.op = "callback"
  BY DEF Callback
<1>5. Typed'
  <2>1. issued' \in SUBSET State /\ spent' \in SUBSET Token
    BY <1>1 DEF Typed, InstallersTypeOK
  <2> QED BY <1>1, <1>2, <2>1, GoesTyped
<1>6. Kinds'
  <2>1. Idle(r)' \/ (Good(request'[r].copy) /\ ~Is(r, "deploy")')
    BY <1>3, <1>4 DEF Idle, Is
  <2>2. \A t \in ApiToken : tokens'[t] = "live"
    BY <1>1 DEF Kinds
  <2> QED BY <1>1, <1>3, <2>1, <2>2, KindsKept
<1>7. ASSUME NEW c \in Consent PROVE Placed(c)'
  <2>1. CASE Carries(r, c)' => Carries(r, c)
    <3>1. \A x \in Session : InSession(x, c)' => InSession(x, c) /\ (x \in kept' => x \in kept)
      BY DEF InSession
    <3>2. ~Deploys(r, c)'
      BY <1>3, <1>4 DEF Deploys, Is, Idle
    <3> QED BY <1>1, <1>3, <2>1, <3>1, <3>2, PlacesKept
  <2> QED BY <2>1
<1>8. ASSUME NEW q \in Request PROVE Aware(q)'
  <2>1. CASE q = r
    BY <1>3, <1>4, <2>1 DEF Aware, Is, Idle
  <2>2. CASE q # r
    BY <1>1, <1>3, <2>2, AwareKept DEF InstallersInv
  <2> QED BY <2>1, <2>2
<1> QED BY <1>5, <1>6, <1>7, <1>8 DEF InstallersInv, Places

LEMMA NewCallbackType ==
  ASSUME InstallersInv, cookie # None, NEW st \in State, NEW c \in Consent,
         NEW pc \in {"delete", "exchange"}, NEW granted \in BOOLEAN
  PROVE  \E h \in Callback :
           /\ h = NewCallback(st, c, pc, granted)
           /\ h.op = "callback" /\ h.pc = pc /\ h.id = cookie /\ h.state = st
           /\ h.valid = (granted /\ ValidState(st)) /\ h.consent = c
           /\ Good(h.copy) /\ session[h.id] # None
<1>1. cookie \in Session /\ session[cookie] \in Record /\ session[cookie] # None
  BY DEF InstallersInv, Typed, InstallersTypeOK, Exist
<1>2. ValidState(st) \in BOOLEAN
  BY DEF ValidState
<1> DEFINE h == NewCallback(st, c, pc, granted)
<1>3. h \in Callback
  BY <1>1, <1>2 DEF NewCallback, Callback
<1>4. Good(session[cookie])
  BY <1>1 DEF InstallersInv, Kinds
<1> QED BY <1>1, <1>3, <1>4 DEF NewCallback

LEMMA PassesType ==
  ASSUME InstallersTypeOK, NEW st \in State, Passes(st)
  PROVE  /\ passed' \in [State -> Nat]
         /\ \A x \in State : passed'[x] = IF x = st THEN passed[x] + 1 ELSE passed[x]
BY DEF InstallersTypeOK, Passes

LEMMA ForgottenType ==
  ASSUME InstallersTypeOK, NEW st \in State, states' = StateForgotten(st)
  PROVE  /\ states' \in [State -> Nat \cup {None}]
         /\ \A x \in State : states'[x] = IF x = st THEN None ELSE states[x]
BY DEF InstallersTypeOK, StateForgotten

LEMMA LocalCallbackInv ==
  ASSUME InstallersInv, NEW r \in Request, NEW st \in State, NEW c \in Consent,
         NEW granted \in BOOLEAN, LocalCallback(r, st, c, granted)
  PROVE  InstallersInv'
<1>1. InstallersTypeOK /\ Once
  BY DEF InstallersInv, Typed
<1>2. PICK h \in Callback :
        /\ h = NewCallback(st, c, "exchange", granted)
        /\ h.op = "callback" /\ h.pc = "exchange"
        /\ Good(h.copy) /\ session[h.id] # None
  BY NewCallbackType DEF LocalCallback
<1>3. /\ Idle(r) /\ ~hosted /\ states' = StateForgotten(st) /\ st \in issued
      /\ UNCHANGED <<hosted, now, cookie, session, kept, issued, raced, tokens, spent>>
  BY DEF LocalCallback, store
<1>4. PICK g \in {None, h} :
        /\ Goes(r, g)
        /\ g = None => UNCHANGED passed
        /\ g # None => Passes(st) /\ ValidState(st)
  <2>1. CASE granted /\ ValidState(st)
    BY <1>2, <2>1 DEF LocalCallback
  <2>2. CASE ~(granted /\ ValidState(st))
    <3>1. request' = [request EXCEPT ![r] = None] /\ UNCHANGED passed
      BY <1>1, <1>3, <2>2 DEF LocalCallback, InstallersTypeOK, Idle
    <3> QED BY <3>1 DEF Goes
  <2> QED BY <2>1, <2>2
<1>5. passed' \in [State -> Nat] /\ states' \in [State -> Nat \cup {None}]
  BY <1>1, <1>3, <1>4, PassesType, ForgottenType DEF InstallersTypeOK
<1>6. request'[r] = g /\ \A q \in Request \ {r} : request'[q] = request[q]
  BY <1>1, <1>2, <1>4, GoesSteps DEF Run, Steps
<1>7. Once'
  <2>1. \A q \in Request, x \in State : ~Holds(q, x)'
    BY <1>1, <1>2, <1>3, <1>4, <1>6 DEF Once, Holds, At, Is, Idle
  <2>2. ASSUME NEW x \in State, x \notin raced
        PROVE  passed'[x] <= 1 /\ (passed'[x] = 1 => states'[x] = None)
    <3>1. CASE x = st
      BY <1>1, <1>3, <1>4, <2>2, <3>1, PassesType, ForgottenType
      DEF Once, ValidState, InstallersTypeOK
    <3>2. CASE x # st
      BY <1>1, <1>3, <1>4, <2>2, <3>2, PassesType, ForgottenType DEF Once
    <3> QED BY <3>1, <3>2
  <2>3. ASSUME NEW x \in State, x \notin issued PROVE passed'[x] = 0
    BY <1>1, <1>3, <1>4, <2>3, PassesType DEF Once
  <2> QED BY <1>3, <2>1, <2>2, <2>3 DEF Once
<1>8. \A d \in Consent : ~Carries(r, d)'
  BY <1>2, <1>4, <1>6 DEF Carries, At, Is, Idle
<1>9. ~Is(r, "deploy") /\ raced' \in SUBSET State /\ tokens' \in [Token -> Worth]
  BY <1>1, <1>3 DEF Is, InstallersTypeOK
<1> QED BY <1>2, <1>3, <1>4, <1>5, <1>7, <1>8, <1>9, CallbackInv

LEMMA HostedCallbackInv ==
  ASSUME InstallersInv, NEW r \in Request, NEW st \in State, NEW c \in Consent,
         NEW granted \in BOOLEAN, HostedCallback(r, st, c, granted)
  PROVE  InstallersInv'
<1>1. InstallersTypeOK /\ Once
  BY DEF InstallersInv, Typed
<1>2. PICK h \in Callback :
        /\ h = NewCallback(st, c, "delete", granted)
        /\ h.op = "callback" /\ h.pc = "delete" /\ h.state = st
        /\ h.valid = (granted /\ ValidState(st))
        /\ Good(h.copy) /\ session[h.id] # None
  BY NewCallbackType DEF HostedCallback
<1>3. /\ Idle(r) /\ hosted /\ st \in issued /\ Goes(r, h)
      /\ raced' = IF \E q \in Request : Holds(q, st) THEN raced \cup {st} ELSE raced
      /\ UNCHANGED <<hosted, now, cookie, session, kept, states, issued, passed, tokens, spent>>
  BY <1>2 DEF HostedCallback, store
<1>4. request'[r] = h /\ \A q \in Request \ {r} : request'[q] = request[q]
  BY <1>1, <1>3, GoesSteps DEF Run, Steps
<1>5. h # None
  BY <1>2
<1>6. /\ \A q \in Request \ {r}, x \in State : Holds(q, x)' <=> Holds(q, x)
      /\ \A x \in State : Holds(r, x)' <=> x = st
      /\ \A x \in State : ~Holds(r, x)
  BY <1>2, <1>3, <1>4, <1>5 DEF Holds, At, Is, Idle
<1>7. Once'
  <2>1. ASSUME NEW x \in State, x \notin raced'
        PROVE  /\ \A q \in Request : Holds(q, x)' /\ request'[q].valid => passed'[x] = 0
               /\ \A q, y \in Request : Holds(q, x)' /\ Holds(y, x)' => q = y
               /\ passed'[x] <= 1 /\ (passed'[x] = 1 => states'[x] = None)
    <3>1. CASE x = st
      <4>1. \A q \in Request \ {r} : ~Holds(q, x)'
        BY <1>3, <1>6, <2>1, <3>1
      <4>2. passed[x] \in Nat /\ passed[x] <= 1 /\ (passed[x] = 1 => states[x] = None)
        BY <1>1, <1>3, <2>1 DEF Once, InstallersTypeOK
      <4>3. request'[r].valid => passed[x] = 0
        <5>1. h.valid => ValidState(st)
          BY <1>2
        <5>2. h.valid => passed[x] # 1
          BY <3>1, <4>2, <5>1 DEF ValidState
        <5> QED BY <1>4, <4>2, <5>2
      <4> QED BY <1>3, <4>1, <4>2, <4>3
    <3>2. CASE x # st
      BY <1>1, <1>3, <1>4, <1>6, <2>1, <3>2 DEF Once
    <3> QED BY <3>1, <3>2
  <2>2. ASSUME NEW x \in State, x \notin issued
        PROVE  passed'[x] = 0 /\ \A q \in Request : ~Holds(q, x)'
    BY <1>1, <1>3, <1>6, <2>2 DEF Once
  <2> QED BY <1>3, <2>1, <2>2 DEF Once
<1>8. \A d \in Consent : ~Carries(r, d)'
  BY <1>2, <1>4 DEF Carries, At, Is, Idle
<1>9. /\ ~Is(r, "deploy") /\ raced' \in SUBSET State /\ tokens' \in [Token -> Worth]
      /\ states' \in [State -> Nat \cup {None}] /\ passed' \in [State -> Nat]
  BY <1>1, <1>3 DEF Is, InstallersTypeOK
<1> QED BY <1>2, <1>3, <1>7, <1>8, <1>9, CallbackInv

LEMMA DeleteStateInv ==
  ASSUME InstallersInv, NEW r \in Request, HostedDeleteState(r)
  PROVE  InstallersInv'
<1>1. InstallersTypeOK /\ Once
  BY DEF InstallersInv, Typed
<1>2. PICK h \in Callback : h = request[r] /\ h.op = "callback" /\ h.pc = "delete" /\ h # None
  BY <1>1, OfKind DEF HostedDeleteState, At, Is
<1>3. PICK st \in State : st = h.state
  BY <1>2 DEF Callback
<1>4. Holds(r, st) /\ ~Is(r, "deploy")
  BY <1>2, <1>3 DEF Holds, At, Is, Idle
<1>5. PICK g \in Callback \cup {None} :
        /\ Goes(r, g)
        /\ g = None => UNCHANGED passed
        /\ g # None => /\ Passes(st) /\ h.valid /\ g.op = "callback" /\ g.pc = "exchange"
                       /\ g.copy = h.copy /\ g.id = h.id
  <2> DEFINE x == [h EXCEPT !.pc = "exchange"]
  <2>1. /\ x \in Callback /\ x.op = "callback" /\ x.pc = "exchange" /\ x.copy = h.copy
        /\ x.id = h.id
    BY <1>2 DEF Callback
  <2>2. CASE h.valid
    <3>1. Goes(r, x) /\ Passes(st)
      BY <1>2, <1>3, <2>2 DEF HostedDeleteState
    <3> HIDE DEF x
    <3>2. x # None
      BY <2>1
    <3> QED BY <2>1, <2>2, <3>1, <3>2
  <2>3. CASE ~h.valid
    BY <1>2, <2>3 DEF HostedDeleteState, Ends
  <2> QED BY <2>2, <2>3
<1>6. /\ states' = StateForgotten(st)
      /\ UNCHANGED <<hosted, now, cookie, session, kept, issued, raced, tokens, spent>>
  BY <1>2, <1>3 DEF HostedDeleteState, store
<1>7. /\ states' \in [State -> Nat \cup {None}] /\ passed' \in [State -> Nat]
      /\ raced' \in SUBSET State /\ tokens' \in [Token -> Worth]
  BY <1>1, <1>5, <1>6, PassesType, ForgottenType DEF InstallersTypeOK
<1>8. request'[r] = g /\ \A q \in Request \ {r} : request'[q] = request[q]
  BY <1>1, <1>5, GoesSteps DEF Run, Steps
<1>9. /\ \A q \in Request \ {r}, x \in State : Holds(q, x)' <=> Holds(q, x)
      /\ \A x \in State : ~Holds(r, x)'
  BY <1>5, <1>8 DEF Holds, At, Is, Idle
<1>10. Once'
  <2>1. ASSUME NEW x \in State, x \notin raced
        PROVE  /\ \A q \in Request : Holds(q, x)' /\ request'[q].valid => passed'[x] = 0
               /\ \A q, y \in Request : Holds(q, x)' /\ Holds(y, x)' => q = y
               /\ passed'[x] <= 1 /\ (passed'[x] = 1 => states'[x] = None)
    <3>1. CASE x = st
      <4>1. \A q \in Request : ~Holds(q, x)'
        BY <1>1, <1>4, <1>9, <2>1, <3>1 DEF Once
      <4>2. h.valid => passed[x] = 0
        BY <1>1, <1>2, <1>4, <2>1, <3>1 DEF Once
      <4>3. passed[x] <= 1 /\ passed[x] \in Nat
        BY <1>1, <2>1 DEF Once, InstallersTypeOK
      <4> QED BY <1>1, <1>5, <1>6, <3>1, <4>1, <4>2, <4>3, PassesType, ForgottenType
    <3>2. CASE x # st
      <4>1. passed'[x] = passed[x] /\ states'[x] = states[x]
        BY <1>1, <1>5, <1>6, <3>2, PassesType, ForgottenType
      <4> QED BY <1>1, <1>8, <1>9, <2>1, <4>1 DEF Once
    <3> QED BY <3>1, <3>2
  <2>2. ASSUME NEW x \in State, x \notin issued
        PROVE  passed'[x] = 0 /\ \A q \in Request : ~Holds(q, x)'
    <3>1. x # st
      BY <1>1, <1>4, <2>2 DEF Once
    <3> QED BY <1>1, <1>5, <1>9, <2>2, <3>1, PassesType DEF Once
  <2>3. ASSUME ~hosted, NEW q \in Request, NEW x \in State PROVE ~Holds(q, x)'
    BY <1>1, <1>9, <2>3 DEF Once
  <2> QED BY <1>6, <2>1, <2>2, <2>3 DEF Once
<1>11. \A d \in Consent : ~Carries(r, d)'
  BY <1>5, <1>8 DEF Carries, At, Is, Idle
<1>12. Good(h.copy) /\ session[h.id] # None
  BY <1>2 DEF InstallersInv, Typed, Exist, Kinds, Is, Idle
<1> QED BY <1>4, <1>5, <1>6, <1>7, <1>10, <1>11, <1>12, CallbackInv

LEMMA ExchangeInv ==
  ASSUME InstallersInv, NEW r \in Request, Exchange(r)
  PROVE  InstallersInv'
<1>1. InstallersTypeOK /\ Once /\ Places /\ Typed
  BY DEF InstallersInv, Typed
<1>2. PICK h \in Callback : h = request[r] /\ h.op = "callback" /\ h.pc = "exchange" /\ h # None
  BY <1>1, OfKind DEF Exchange, At, Is
<1>3. PICK c \in Consent : c = h.consent
  BY <1>2 DEF Callback
<1>4. PICK g \in Callback :
        /\ Goes(r, g) /\ g.op = "callback" /\ g.pc = "session"
        /\ g.copy = h.copy /\ g.id = h.id /\ g.consent = c
  <2> DEFINE x == [h EXCEPT !.pc = "session"]
  <2>1. /\ x \in Callback /\ x.op = "callback" /\ x.pc = "session" /\ x.copy = h.copy
        /\ x.id = h.id /\ x.consent = c
    BY <1>2, <1>3 DEF Callback
  <2>2. Goes(r, x)
    BY <1>2 DEF Exchange
  <2> HIDE DEF x
  <2> QED BY <2>1, <2>2
<1>5. /\ tokens[c] = "unknown" /\ tokens' = [tokens EXCEPT ![c] = "live"]
      /\ UNCHANGED <<hosted, now, cookie, session, kept, oauth, spent>>
  BY <1>2, <1>3 DEF Exchange, store
<1>6. /\ tokens' \in [Token -> Worth] /\ tokens'[c] = "live"
      /\ \A t \in Token : t # c => tokens'[t] = tokens[t]
  BY <1>1, <1>5 DEF InstallersTypeOK, Token, Worth
<1>7. request'[r] = g /\ \A q \in Request \ {r} : request'[q] = request[q]
  BY <1>1, <1>4, GoesSteps DEF Run, Steps
<1>8. Once'
  <2>1. \A st \in State : ~Holds(r, st)'
    BY <1>4, <1>7 DEF Holds, At, Is, Idle
  <2> QED BY <1>1, <1>5, <1>7, <2>1, OnceKept DEF Same
<1>9. Placed(c)'
  <2>1. Placed(c)
    BY <1>1 DEF Places
  <2>2. /\ c \notin spent' /\ \A s \in Session : ~InSession(s, c)'
        /\ \A q \in Request : ~Deploys(q, c)' /\ (Carries(q, c)' => q = r)
    BY <1>4, <1>5, <1>7, <2>1 DEF Placed, InSession, Deploys, Carries, At, Is, Idle
  <2> QED BY <1>6, <2>2 DEF Placed
<1>10. ASSUME NEW d \in Consent, d # c PROVE ~Carries(r, d)'
  BY <1>4, <1>7, <1>10 DEF Carries
<1>11. Good(h.copy) /\ session[h.id] # None /\ ~Is(r, "deploy")
  BY <1>2 DEF InstallersInv, Typed, Exist, Kinds, Is, Idle
<1>12. \A t \in ApiToken : tokens'[t] = tokens[t]
  BY <1>6 DEF Token
<1>13. \A d \in Consent : /\ tokens'[d] = "unknown" => tokens[d] = "unknown"
                          /\ tokens[d] = "revoked" => tokens'[d] = "revoked"
  BY <1>5, <1>6 DEF Token
<1>14. /\ states' \in [State -> Nat \cup {None}] /\ passed' \in [State -> Nat]
       /\ raced' \in SUBSET State /\ UNCHANGED issued
  BY <1>1, <1>5 DEF InstallersTypeOK, oauth
<1>15. \A d \in Consent : (Carries(r, d)' => Carries(r, d)) \/ Placed(d)'
  BY <1>9, <1>10
<1> QED BY <1>4, <1>5, <1>6, <1>8, <1>11, <1>12, <1>13, <1>14, <1>15, CallbackInv

-----------------------------------------------------------------------------
(* Steps that write a session.                                             *)

LEMMA AssignInv ==
  ASSUME InstallersInv, NEW r \in Request, NEW s \in Session, NEW new \in Record,
         Good(new), Assigns(r, s, new), session[s] # None,
         UNCHANGED <<hosted, now, cookie, oauth, tokens, spent>>,
         \A c \in Consent : new.token = c => Carries(r, c)
  PROVE  InstallersInv'
<1>1. Typed /\ Kinds /\ Once /\ Places
  BY DEF InstallersInv
<1>2. /\ session' = [session EXCEPT ![s] = new] /\ kept' \subseteq kept \cup {s}
      /\ Disturbs(r, s, None)
  BY DEF Assigns
<1>3. /\ request'[r] = None /\ \A q \in Request \ {r} : Same(q)
      /\ \A q \in Request \ {r} :
           Is(q, "deploy") /\ request[q].id = s => request'[q].disturbed = TRUE
  BY <1>1, <1>2, DisturbsSteps DEF Typed, Steps
<1>4. /\ session'[s] = new /\ new # None
      /\ \A x \in Session : x # s => session'[x] = session[x]
  BY <1>1, <1>2 DEF Typed, InstallersTypeOK
<1>5. Typed'
  <2>1. spent' \in SUBSET Token
    BY <1>1 DEF Typed, InstallersTypeOK
  <2> QED BY <1>1, <1>2, <2>1, StoreTyped
<1>6. Kinds'
  <2>1. \A t \in ApiToken : tokens'[t] = "live"
    BY <1>1 DEF Kinds
  <2> QED BY <1>1, <1>3, <1>4, <2>1, KindsKept DEF Idle
<1>7. Once'
  BY <1>1, <1>3, OnceKept DEF Idle
<1>8. ASSUME NEW c \in Consent PROVE Placed(c)'
  <2>1. CASE new.token # c
    <3>1. \A x \in Session : InSession(x, c)' => InSession(x, c) /\ (x \in kept' => x \in kept)
      BY <1>2, <1>4, <2>1 DEF InSession
    <3> QED BY <1>1, <1>3, <3>1, PlacesKept DEF Idle
  <2>2. CASE new.token = c
    <3>1. Placed(c) /\ Carries(r, c)
      BY <1>1, <2>2 DEF Places
    <3>2. /\ tokens'[c] # "unknown" /\ c \notin spent'
          /\ \A x \in Session : InSession(x, c)' => x = s
      BY <1>4, <3>1 DEF Placed, InSession
    <3>3. ASSUME NEW q \in Request PROVE ~Carries(q, c)' /\ ~Deploys(q, c)'
      <4>1. CASE q = r
        BY <1>3, <4>1 DEF Carries, Deploys, At, Is, Idle
      <4>2. CASE q # r
        <5>1. Is(q, "deploy") => ~Is(q, "callback")
          BY DEF Is
        <5>2. ~Carries(q, c) /\ ~Deploys(q, c)
          BY <3>1, <4>2 DEF Placed
        <5> QED BY <1>1, <1>3, <4>2, <5>1, <5>2, Others DEF Carries, Deploys, At, Typed
      <4> QED BY <4>1, <4>2
    <3> QED BY <3>2, <3>3 DEF Placed
  <2> QED BY <2>1, <2>2
<1>9. ASSUME NEW q \in Request PROVE Aware(q)'
  <2>1. CASE q = r
    BY <1>3, <2>1 DEF Aware, Is, Idle
  <2>2. CASE q # r
    <3>1. Is(q, "deploy") /\ ~request'[q].disturbed
            => session'[request[q].id] = session[request[q].id]
      BY <1>1, <1>3, <1>4, <2>2, OfKind DEF Typed, Is
    <3> QED BY <1>1, <1>3, <2>2, <3>1, AwareKept DEF InstallersInv
  <2> QED BY <2>1, <2>2
<1> QED BY <1>5, <1>6, <1>7, <1>8, <1>9 DEF InstallersInv, Places

LEMMA AuthorizeInv ==
  ASSUME InstallersInv, NEW r \in Request, NEW life \in 0..SessionTtl,
         LocalAuthorize(r, life) \/ HostedAuthorize(r, life)
  PROVE  InstallersInv'
<1>1. Is(r, "callback") /\ UNCHANGED <<hosted, now, cookie, oauth, tokens, spent>>
  BY DEF LocalAuthorize, HostedAuthorize, At
<1>2. PICK h \in Callback : h = request[r]
  BY <1>1, OfKind DEF InstallersInv, Typed, Is
<1>3. PICK c \in Consent, s \in Session :
        c = h.consent /\ s = h.id /\ session[s] \in Record /\ h.copy \in Record /\ session[s] # None
  BY <1>1, <1>2, ViewType DEF InstallersInv, Is, Callback
<1>4. CASE LocalAuthorize(r, life) /\ ~Alive(s)
  BY <1>1, <1>2, <1>3, <1>4, QuietInv DEF LocalAuthorize, Ends, store
<1>5. CASE ~(LocalAuthorize(r, life) /\ ~Alive(s))
  <2>1. PICK v \in Record : Assigns(r, s, Authorized(c, v, life))
    BY <1>2, <1>3, <1>5 DEF LocalAuthorize, HostedAuthorize
  <2>2. PICK new \in Record : /\ new = Authorized(c, v, life)
                              /\ new.token = c /\ new.kind = "oauth"
    BY AuthorizedType DEF InstallersInv, Typed, InstallersTypeOK
  <2>3. Good(new)
    BY <2>2 DEF Good
  <2>4. Carries(r, c)
    BY <1>2, <1>3 DEF LocalAuthorize, HostedAuthorize, Carries
  <2> QED BY <1>1, <1>3, <2>1, <2>2, <2>3, <2>4, AssignInv
<1> QED BY <1>4, <1>5

LEMMA ConnectedInv ==
  ASSUME InstallersInv, NEW r \in Request, Connected(r)
  PROVE  InstallersInv'
<1>1. Is(r, "connect") /\ UNCHANGED <<hosted, now, cookie, oauth, tokens, spent>>
  BY DEF Connected
<1>2. PICK h \in Connect : h = request[r]
  BY <1>1, OfKind DEF InstallersInv, Typed, Is
<1>3. PICK t \in ApiToken, s \in Session, v \in Record :
        t = h.apiToken /\ s = h.id /\ v = ViewOf(r) /\ session[s] # None
  BY <1>1, <1>2, ViewType DEF InstallersInv, Typed, Exist, Is, Connect, Idle
<1>4. PICK new \in Record : new = Pasted(t, v) /\ new.token = t /\ new.kind = "token"
  BY PastedType
<1>5. Good(new) /\ t \notin Consent
  BY <1>4 DEF Good
<1>6. Assigns(r, s, new)
  BY <1>2, <1>3, <1>4 DEF Connected
<1> QED BY <1>1, <1>3, <1>4, <1>5, <1>6, AssignInv

-----------------------------------------------------------------------------
(* Deploys.                                                                *)

LEMMA DeployBegins ==
  ASSUME InstallersInv, NEW r \in Request, NEW dryRun \in BOOLEAN, Deploy(r, dryRun)
  PROVE  InstallersInv'
<1>1. Typed /\ Kinds /\ Once /\ Places
  BY DEF InstallersInv
<1>2. /\ Idle(r) /\ cookie # None /\ session[cookie].token # None
      /\ UNCHANGED <<hosted, now, cookie, session, kept, oauth, tokens, spent>>
  BY DEF Deploy, store
<1>3. PICK s \in Session, v \in Record : s = cookie /\ v = session[s] /\ v # None
  BY <1>1, <1>2 DEF Typed, InstallersTypeOK, Exist
<1>4. PICK h \in DeployRequest :
        /\ Goes(r, h) /\ h.op = "deploy" /\ h.pc = "engine" /\ h.id = s /\ h.copy = v
        /\ h.used = v.token /\ h.revoking = None
  <2> DEFINE x == [op |-> "deploy", pc |-> "engine", id |-> s, dryRun |-> dryRun,
                   copy |-> v, used |-> v.token,
                   revoking |-> None, refused |-> FALSE, disturbed |-> FALSE]
  <2>1. v.token \in Token
    BY <1>2, <1>3 DEF Record
  <2>2. x \in DeployRequest
    BY <2>1 DEF DeployRequest
  <2>3. Goes(r, x)
    BY <1>3 DEF Deploy
  <2> QED BY <2>2, <2>3
<1>5. h \in Run /\ h # None
  BY <1>4 DEF Run
<1>6. request'[r] = h /\ \A q \in Request \ {r} : Same(q)
  BY <1>1, <1>4, <1>5, GoesSteps DEF Typed, Steps
<1>7. Typed'
  <2>1. /\ states' \in [State -> Nat \cup {None}] /\ issued' \in SUBSET State
        /\ tokens' \in [Token -> Worth] /\ passed' \in [State -> Nat]
        /\ raced' \in SUBSET State /\ spent' \in SUBSET Token
    BY <1>1, <1>2 DEF Typed, InstallersTypeOK, oauth
  <2> QED BY <1>1, <1>2, <1>3, <1>4, <1>5, <2>1, GoesTyped
<1>8. Kinds'
  <2>1. Good(v) /\ None \notin ApiToken
    BY <1>1, <1>3 DEF Kinds, Token
  <2>2. Good(h.copy) /\ h.revoking \notin ApiToken
    BY <1>4, <2>1
  <2>3. \A t \in ApiToken : tokens'[t] = "live"
    BY <1>1, <1>2 DEF Kinds
  <2> QED BY <1>1, <1>2, <1>6, <2>2, <2>3, KindsKept
<1>9. Once'
  <2>1. \A st \in State : ~Holds(r, st)'
    BY <1>4, <1>6 DEF Holds, At, Is
  <2> QED BY <1>1, <1>2, <1>6, <2>1, OnceKept
<1>10. ASSUME NEW c \in Consent PROVE Placed(c)'
  <2>1. ~Carries(r, c)'
    BY <1>4, <1>6 DEF Carries, At, Is
  <2>2. \A x \in Session : InSession(x, c)' <=> InSession(x, c)
    BY <1>2 DEF InSession
  <2>3. CASE v.token # c
    <3>1. ~Deploys(r, c)'
      BY <1>4, <1>6, <2>3 DEF Deploys
    <3> QED BY <1>1, <1>2, <1>6, <2>1, <2>2, <3>1, PlacesKept
  <2>4. CASE v.token = c
    <3>1. Placed(c) /\ InSession(s, c)
      BY <1>1, <1>3, <2>4 DEF Places, InSession
    <3>2. tokens[c] # "unknown" /\ \A q \in Request : ~Carries(q, c)
      BY <3>1 DEF Placed
    <3>3. ASSUME NEW q \in Request
          PROVE  ~Carries(q, c)' /\ (Deploys(q, c)' => request'[q].id = s)
      <4>1. CASE q = r
        BY <1>4, <1>6, <2>1, <4>1
      <4>2. CASE q # r
        <5>1. Is(q, "deploy") => ~Is(q, "callback")
          BY DEF Is
        <5>2. Deploys(q, c) => request[q].id = s
          BY <3>1 DEF Placed
        <5> QED BY <1>1, <1>6, <3>2, <4>2, <5>1, <5>2, Others DEF Carries, Deploys, At, Is, Typed
      <4> QED BY <4>1, <4>2
    <3> QED BY <1>2, <2>2, <3>1, <3>2, <3>3 DEF Placed
  <2> QED BY <2>3, <2>4
<1>11. ASSUME NEW q \in Request PROVE Aware(q)'
  <2>1. CASE q = r
    BY <1>2, <1>3, <1>4, <1>6, <2>1 DEF Aware
  <2>2. CASE q # r
    BY <1>1, <1>2, <1>6, <2>2, AwareKept DEF InstallersInv
  <2> QED BY <2>1, <2>2
<1> QED BY <1>7, <1>8, <1>9, <1>10, <1>11 DEF InstallersInv, Places

\* A deploy goes on; only a consent is ever revoked by it.
LEMMA DeployGoesOn ==
  ASSUME InstallersInv, NEW r \in Request, Is(r, "deploy"),
         NEW h \in DeployRequest, Goes(r, h),
         h.id = request[r].id, h.used = request[r].used, h.copy = request[r].copy,
         h.revoking \notin ApiToken, Aware(r)',
         UNCHANGED <<hosted, now, cookie, session, kept, oauth, spent>>,
         tokens' = tokens \/ \E c \in Consent : tokens' = [tokens EXCEPT ![c] = "revoked"]
  PROVE  InstallersInv'
<1>1. Typed /\ Kinds /\ Once /\ Places
  BY DEF InstallersInv
<1>2. h \in Run /\ h # None /\ h.op = "deploy"
  BY DEF Run, DeployRequest
<1>3. request'[r] = h /\ \A q \in Request \ {r} : Same(q)
  BY <1>1, <1>2, GoesSteps DEF Typed, Steps
<1>4. /\ tokens' \in [Token -> Worth]
      /\ \A t \in ApiToken : tokens'[t] = tokens[t]
      /\ \A c \in Consent : /\ tokens'[c] = "unknown" => tokens[c] = "unknown"
                            /\ tokens[c] = "revoked" => tokens'[c] = "revoked"
  <2>1. CASE tokens' = tokens
    BY <1>1, <2>1 DEF Typed, InstallersTypeOK
  <2>2. ASSUME NEW c \in Consent, tokens' = [tokens EXCEPT ![c] = "revoked"]
        PROVE  /\ tokens' \in [Token -> Worth]
               /\ \A t \in Token : tokens'[t] = IF t = c THEN "revoked" ELSE tokens[t]
    BY <1>1, <2>2 DEF Typed, InstallersTypeOK, Token, Worth
  <2> QED BY <2>1, <2>2 DEF Token
<1>5. Typed'
  <2>1. /\ states' \in [State -> Nat \cup {None}] /\ issued' \in SUBSET State
        /\ passed' \in [State -> Nat] /\ raced' \in SUBSET State /\ spent' \in SUBSET Token
    BY <1>1 DEF Typed, InstallersTypeOK, oauth
  <2>2. session[h.id] # None
    BY <1>1 DEF Typed, Exist, Is
  <2> QED BY <1>1, <1>2, <1>4, <2>1, <2>2, GoesTyped
<1>6. Kinds'
  <2>1. Good(h.copy) /\ \A t \in ApiToken : tokens'[t] = "live"
    BY <1>1, <1>4 DEF Kinds
  <2> QED BY <1>1, <1>3, <2>1, KindsKept
<1>7. Once'
  <2>1. \A st \in State : ~Holds(r, st)'
    BY <1>2, <1>3 DEF Holds, At, Is
  <2> QED BY <1>1, <1>3, <2>1, OnceKept
<1>8. ASSUME NEW c \in Consent PROVE Placed(c)'
  <2>1. /\ ~Carries(r, c)'
        /\ Deploys(r, c)' => Deploys(r, c) /\ request'[r].id = request[r].id
    BY <1>2, <1>3 DEF Carries, Deploys, At, Is
  <2>2. \A x \in Session : InSession(x, c)' => InSession(x, c) /\ (x \in kept' => x \in kept)
    BY DEF InSession
  <2> QED BY <1>1, <1>3, <1>4, <2>1, <2>2, PlacesKept
<1>9. ASSUME NEW q \in Request PROVE Aware(q)'
  <2>1. CASE q # r
    BY <1>1, <1>3, <1>4, <2>1, AwareKept DEF InstallersInv
  <2> QED BY <2>1
<1> QED BY <1>5, <1>6, <1>7, <1>8, <1>9 DEF InstallersInv, Places

LEMMA FinishInv ==
  ASSUME InstallersInv, NEW r \in Request, Is(r, "deploy"), Finishes(r),
         UNCHANGED <<hosted, now, cookie, oauth, tokens>>
  PROVE  InstallersInv'
<1>1. Typed /\ Kinds /\ Once /\ Places
  BY DEF InstallersInv
<1>2. PICK h \in DeployRequest : h = request[r]
  BY <1>1, OfKind DEF Typed, Is
<1>3. PICK s \in Session, u \in Token :
        s = h.id /\ u = h.used /\ session[s] \in Record /\ session[s] # None
  BY <1>2, ViewType DEF InstallersInv, Is, DeployRequest
<1>4. /\ Disturbs(r, s, None) /\ kept' = kept \ {s} /\ spent' = spent \cup {u}
  BY <1>2, <1>3 DEF Finishes, Removes
<1>5. PICK new \in Record :
        /\ session' = [session EXCEPT ![s] = new]
        /\ new = session[s] \/ new.token = None
  <2>1. CASE hosted
    BY <1>1, <1>2, <1>3, <2>1 DEF Finishes, Removes, Typed, InstallersTypeOK
  <2>2. CASE ~hosted
    <3> DEFINE x == [session[s] EXCEPT !.token = None, !.expires = 0]
    <3>1. x \in Record /\ x.token = None
      BY <1>3 DEF Record
    <3>2. session' = [session EXCEPT ![s] = x]
      BY <1>2, <1>3, <2>2 DEF Finishes, Removes
    <3> HIDE DEF x
    <3> QED BY <3>1, <3>2
  <2> QED BY <2>1, <2>2
<1>6. /\ request'[r] = None /\ \A q \in Request \ {r} : Same(q)
      /\ \A q \in Request \ {r} :
           Is(q, "deploy") /\ request[q].id = s => request'[q].disturbed = TRUE
  BY <1>1, <1>4, DisturbsSteps DEF Typed, Steps
<1>7. /\ session'[s] = new /\ \A x \in Session : x # s => session'[x] = session[x]
  BY <1>1, <1>5 DEF Typed, InstallersTypeOK
<1>8. Typed'
  <2>1. spent' \in SUBSET Token
    BY <1>1, <1>4 DEF Typed, InstallersTypeOK
  <2> QED BY <1>1, <1>3, <1>4, <1>5, <2>1, StoreTyped
<1>9. Kinds'
  <2>1. Good(session[s]) /\ None \notin Token
    BY <1>1, <1>3 DEF Kinds
  <2>2. Good(new)
    BY <1>5, <2>1 DEF Good, Token
  <2>3. \A t \in ApiToken : tokens'[t] = "live"
    BY <1>1 DEF Kinds
  <2> QED BY <1>1, <1>6, <1>7, <2>2, <2>3, KindsKept DEF Idle
<1>10. Once'
  BY <1>1, <1>6, OnceKept DEF Idle
<1>11. ASSUME NEW c \in Consent PROVE Placed(c)'
  <2>1. \A x \in Session : InSession(x, c)' => InSession(x, c)
    BY <1>3, <1>5, <1>7 DEF InSession, Token
  <2>2. CASE c # u
    <3>1. c \in spent' => c \in spent
      BY <1>4, <2>2
    <3> QED BY <1>1, <1>4, <1>6, <2>1, <3>1, PlacesKept DEF Idle
  <2>3. CASE c = u
    <3>1. Placed(c) /\ Deploys(r, c)
      BY <1>1, <1>2, <1>3, <2>3 DEF Places, Deploys
    <3>2. tokens[c] # "unknown" /\ \A q \in Request : ~Carries(q, c)
      BY <3>1 DEF Placed
    <3>3. \A x \in Session : InSession(x, c)' => x = s
      BY <1>2, <1>3, <2>1, <3>1 DEF Placed
    <3>4. ASSUME NEW q \in Request
          PROVE  /\ ~Carries(q, c)'
                 /\ Deploys(q, c)' => Deploys(q, c) /\ request'[q].id = request[q].id
      <4>1. CASE q = r
        BY <1>6, <4>1 DEF Carries, Deploys, At, Is, Idle
      <4>2. CASE q # r
        <5>1. Is(q, "deploy") => ~Is(q, "callback")
          BY DEF Is
        <5> QED BY <1>1, <1>6, <3>2, <4>2, <5>1, Others DEF Carries, Deploys, At, Is, Typed
      <4> QED BY <4>1, <4>2
    <3> QED BY <1>4, <2>1, <3>1, <3>2, <3>3, <3>4 DEF Placed
  <2> QED BY <2>2, <2>3
<1>12. ASSUME NEW q \in Request PROVE Aware(q)'
  <2>1. CASE q = r
    BY <1>6, <2>1 DEF Aware, Is, Idle
  <2>2. CASE q # r
    <3>1. Is(q, "deploy") /\ ~request'[q].disturbed
            => session'[request[q].id] = session[request[q].id]
      BY <1>1, <1>6, <1>7, <2>2, OfKind DEF Typed, Is
    <3> QED BY <1>1, <1>6, <2>2, <3>1, AwareKept DEF InstallersInv
  <2> QED BY <2>1, <2>2
<1> QED BY <1>8, <1>9, <1>10, <1>11, <1>12 DEF InstallersInv, Places

\* A deploy that nobody disturbed reads back what it began with.
LEMMA Undisturbed ==
  ASSUME InstallersInv, NEW r \in Request, Is(r, "deploy"), ~request[r].disturbed
  PROVE  /\ ViewOf(r).token = request[r].used
         /\ request[r].used \in Consent => FromConsent(r)
<1>1. ViewOf(r) = request[r].copy /\ request[r].copy.token = request[r].used
  BY DEF InstallersInv, Aware, ViewOf, LocalView, HostedView
<1>2. Good(request[r].copy)
  BY DEF InstallersInv, Kinds
<1> QED BY <1>1, <1>2 DEF Good, FromConsent

LEMMA EngineInv ==
  ASSUME InstallersInv, NEW r \in Request, EngineSucceeds(r)
  PROVE  InstallersInv'
<1>1. Typed /\ Kinds
  BY DEF InstallersInv
<1>2. Is(r, "deploy") /\ UNCHANGED <<hosted, now, cookie, oauth, tokens>>
  BY DEF EngineSucceeds, At
<1>3. PICK h \in DeployRequest : h = request[r]
  BY <1>1, <1>2, OfKind DEF Typed, Is
<1>4. CASE Ends(r) /\ UNCHANGED <<store, spent>>
  BY <1>2, <1>4, QuietInv DEF Ends, store
<1>5. CASE Finishes(r)
  BY <1>2, <1>5, FinishInv
<1>6. CASE /\ FromConsent(r) /\ UNCHANGED <<store, spent>>
           /\ Goes(r, [h EXCEPT !.pc = "revoke", !.revoking = ViewOf(r).token])
  <2>1. PICK v \in Record : v = ViewOf(r) /\ v.token \notin ApiToken
    <3>1. ViewOf(r) \in Record
      BY <1>1, <1>2, ViewType DEF Is, Idle
    <3>2. Good(ViewOf(r))
      <4>1. request[r].id \in Session /\ session[request[r].id] # None
        BY <1>1, <1>2, OfKind DEF Typed, Exist, Is
      <4>2. Good(session[request[r].id]) /\ Good(request[r].copy)
        BY <1>1, <1>2, <4>1 DEF Kinds
      <4> QED BY <4>2 DEF ViewOf, LocalView, HostedView
    <3> QED BY <1>6, <3>1, <3>2 DEF Good, FromConsent
  <2> DEFINE g == [h EXCEPT !.pc = "revoke", !.revoking = v.token]
  <2>2. /\ g \in DeployRequest /\ g.id = h.id /\ g.used = h.used /\ g.copy = h.copy
        /\ g.revoking = v.token /\ g.pc = "revoke" /\ g.disturbed = h.disturbed
    BY <2>1 DEF DeployRequest, Record
  <2>3. Goes(r, g)
    BY <1>6, <2>1
  <2> HIDE DEF g
  <2>4. request'[r] = g
    BY <1>1, <2>2, <2>3, GoesSteps DEF Typed, Steps, Run
  <2>5. Aware(r)'
    <3>1. ~h.disturbed => v.token = h.used
      BY <1>2, <1>3, <2>1, Undisturbed
    <3>2. UNCHANGED <<session, hosted>>
      BY <1>2, <1>6 DEF store
    <3>3. Aware(r)
      BY DEF InstallersInv
    <3>4. h.copy.token = h.used /\ (~h.disturbed /\ ~hosted => session[h.id] = h.copy)
      BY <1>2, <1>3, <3>3 DEF Aware
    <3> QED BY <2>2, <2>4, <3>1, <3>2, <3>4 DEF Aware
  <2> QED BY <1>2, <1>3, <1>6, <2>1, <2>2, <2>3, <2>5, DeployGoesOn DEF store
<1>7. CASE /\ ~FromConsent(r) /\ UNCHANGED <<store, spent>>
           /\ Goes(r, [h EXCEPT !.pc = "drop"])
  <2> DEFINE g == [h EXCEPT !.pc = "drop"]
  <2>1. /\ g \in DeployRequest /\ g.id = h.id /\ g.used = h.used /\ g.copy = h.copy
        /\ g.revoking = h.revoking /\ g.pc = "drop" /\ g.disturbed = h.disturbed
    BY DEF DeployRequest
  <2>2. Goes(r, g)
    BY <1>7
  <2> HIDE DEF g
  <2>3. request'[r] = g
    BY <1>1, <2>1, <2>2, GoesSteps DEF Typed, Steps, Run
  <2>4. Aware(r)'
    <3>1. ~h.disturbed => h.used \notin Consent
      BY <1>2, <1>3, <1>7, Undisturbed
    <3>2. UNCHANGED <<session, hosted>>
      BY <1>2, <1>7 DEF store
    <3>3. Aware(r)
      BY DEF InstallersInv
    <3>4. h.copy.token = h.used /\ (~h.disturbed /\ ~hosted => session[h.id] = h.copy)
      BY <1>2, <1>3, <3>3 DEF Aware
    <3> QED BY <2>1, <2>3, <3>1, <3>2, <3>4 DEF Aware
  <2>5. h.revoking \notin ApiToken
    BY <1>1, <1>2, <1>3 DEF Kinds
  <2> QED BY <1>2, <1>3, <1>7, <2>1, <2>2, <2>4, <2>5, DeployGoesOn DEF store
<1> QED BY <1>3, <1>4, <1>5, <1>6, <1>7 DEF EngineSucceeds

LEMMA RevokeInv ==
  ASSUME InstallersInv, NEW r \in Request, NEW works \in BOOLEAN, Revoke(r, works)
  PROVE  InstallersInv'
<1>1. Typed /\ Kinds
  BY DEF InstallersInv
<1>2. At(r, "deploy", "revoke") /\ Is(r, "deploy")
      /\ UNCHANGED <<hosted, now, cookie, session, kept, oauth, spent>>
  BY DEF Revoke, At, store
<1>3. PICK h \in DeployRequest : h = request[r] /\ h.pc = "revoke" /\ h.revoking \notin ApiToken
  BY <1>1, <1>2, OfKind DEF Typed, Is, At, Kinds
<1> DEFINE g == [h EXCEPT !.pc = "drop", !.refused = ~works]
<1>4. /\ g \in DeployRequest /\ g.id = h.id /\ g.used = h.used /\ g.copy = h.copy
      /\ g.revoking = h.revoking /\ g.pc = "drop" /\ g.disturbed = h.disturbed
      /\ g.refused = ~works
  BY DEF DeployRequest
<1>5. Goes(r, g)
  BY <1>3 DEF Revoke
<1> HIDE DEF g
<1>6. request'[r] = g
  BY <1>1, <1>4, <1>5, GoesSteps DEF Typed, Steps, Run
<1>7. tokens' = IF works /\ h.revoking # None THEN [tokens EXCEPT ![h.revoking] = "revoked"]
                ELSE tokens
  BY <1>3 DEF Revoke
<1>8. tokens' = tokens \/ \E c \in Consent : tokens' = [tokens EXCEPT ![c] = "revoked"]
  <2>1. h.revoking # None => h.revoking \in Consent
    BY <1>3 DEF DeployRequest, Token
  <2> QED BY <1>7, <2>1
<1>9. Aware(r)'
  <2>1. Aware(r)
    BY DEF InstallersInv
  <2>2. h.copy.token = h.used /\ (~h.disturbed /\ ~hosted => session[h.id] = h.copy)
        /\ (~h.disturbed /\ h.used \in Consent => h.revoking = h.used)
    BY <1>2, <1>3, <2>1 DEF Aware
  <2>3. ~h.disturbed /\ h.used \in Consent => tokens'[h.used] = "revoked" \/ ~works
    BY <1>1, <1>7, <2>2 DEF Typed, InstallersTypeOK, Token
  <2> QED BY <1>2, <1>4, <1>6, <2>2, <2>3 DEF Aware
<1> QED BY <1>2, <1>3, <1>4, <1>5, <1>8, <1>9, DeployGoesOn

-----------------------------------------------------------------------------
(* The invariant holds.                                                    *)

LEMMA InitInv == Init => InstallersInv
<1> SUFFICES ASSUME Init PROVE InstallersInv
  OBVIOUS
<1>1. InstallersTypeOK
  BY DEF Init, InstallersTypeOK, Token, Worth
<1>2. Exist /\ Once /\ \A r \in Request : Aware(r)
  BY DEF Init, Exist, Once, Aware, Holds, At, Is, Idle
<1>3. Kinds /\ Places
  BY DEF Init, Kinds, Places, Placed, InSession, Carries, Deploys, At, Is, Idle, Token
<1> QED BY <1>1, <1>2, <1>3 DEF InstallersInv, Typed

LEMMA NextInv ==
  ASSUME InstallersInv, [Next]_vars
  PROVE  InstallersInv'
<1>1. now \in Nat
  BY DEF InstallersInv, Typed, InstallersTypeOK
<1>2. ASSUME NEW s \in Session, Start(s) \/ LocalSweep(s) PROVE InstallersInv'
  BY <1>1, <1>2, StartInv, StillInv DEF LocalSweep
<1>3. ASSUME NEW st \in State, OAuthStart(st) PROVE InstallersInv'
  BY <1>3, OAuthStartInv
<1>4. ASSUME NEW r \in Request, SessionStep(r) \/ Fail(r) PROVE InstallersInv'
  BY <1>4, SweepInv, ConnectInv, ConnectedInv DEF SessionStep
<1>5. ASSUME NEW r \in Request, OAuthStep(r) PROVE InstallersInv'
  BY <1>5, LocalCallbackInv, HostedCallbackInv, DeleteStateInv, ExchangeInv, HostedFindInv,
     AuthorizeInv DEF OAuthStep
<1>6. ASSUME NEW r \in Request, DeployStep(r) PROVE InstallersInv'
  BY <1>6, DeployBegins, EngineInv, RevokeInv, FinishInv DEF DeployStep, Drop, At
<1>7. CASE Tick
  <2>1. now' \in Nat
    BY <1>1, <1>7 DEF Tick
  <2> QED BY <1>7, <2>1, StillInv DEF Tick, store
<1>8. CASE UNCHANGED vars
  BY <1>1, <1>8, StillInv DEF vars, oauth
<1> QED BY <1>2, <1>3, <1>4, <1>5, <1>6, <1>7, <1>8 DEF Next

\* The inductive invariant holds in every reachable state.
THEOREM InstallersInvariance == Spec => []InstallersInv
<1>1. InstallersInv /\ [Next]_vars => InstallersInv'
  BY NextInv
<1> QED BY <1>1, InitInv, PTL DEF Spec

-----------------------------------------------------------------------------
(* What follows.                                                           *)

\* Type correctness, in both installers.
THEOREM InstallersTypeCorrect == Spec => []InstallersTypeOK
<1>1. InstallersInv => InstallersTypeOK
  BY DEF InstallersInv, Typed
<1> QED BY <1>1, InstallersInvariance, PTL

\* No revocation hits a pasted token, whatever replaces whatever in a session
\* while a deploy runs.
THEOREM PastedSafe == Spec => []PastedNeverRevoked
<1>1. InstallersInv => PastedNeverRevoked
  BY DEF InstallersInv, Kinds, PastedNeverRevoked
<1> QED BY <1>1, InstallersInvariance, PTL

\* The consent of a successful deploy is in no session that is kept.
THEOREM SpentUnreachable == Spec => []SpentTokenUnreachable
<1>1. ASSUME InstallersInv PROVE SpentTokenUnreachable
  <2> SUFFICES ASSUME NEW s \in kept, session[s].token \in Consent,
                      session[s].token \in spent
               PROVE  FALSE
    BY DEF SpentTokenUnreachable
  <2>1. s \in Session /\ InSession(s, session[s].token)
    BY <1>1 DEF InstallersInv, Typed, InstallersTypeOK, InSession
  <2>2. Placed(session[s].token)
    BY <1>1 DEF InstallersInv, Places
  <2> QED BY <2>1, <2>2 DEF Placed
<1> QED BY <1>1, InstallersInvariance, PTL

\* An OAuth state lets one callback through, unless two held it at one time.
THEOREM StatesUsedOnce == Spec => []StateUsedOnce
<1>1. InstallersInv => StateUsedOnce
  BY DEF InstallersInv, Typed, InstallersTypeOK, Once, StateUsedOnce
<1> QED BY <1>1, InstallersInvariance, PTL

\* The step that spends the token of a deploy is the one that ends its session.
LEMMA SpendingStep ==
  ASSUME InstallersInv, [Next]_vars, NEW r \in Request, Is(r, "deploy"), request'[r] = None,
         request[r].used \in spent' \ spent
  PROVE  /\ Finishes(r) /\ UNCHANGED tokens
         /\ At(r, "deploy", "drop") \/ ~FromConsent(r)
<1>1. Typed
  BY DEF InstallersInv
<1>2. ASSUME spent' = spent PROVE FALSE
  BY <1>2
<1>3. ASSUME NEW q \in Request, Finishes(q) PROVE q = r
  <2>1. CASE q # r
    <3>1. Disturbs(q, request[q].id, None)
      BY <1>3 DEF Finishes
    <3>2. Steps(q, None)
      BY <1>1, <3>1, DisturbsSteps DEF Typed
    <3>3. Same(r)
      BY <2>1, <3>2 DEF Steps
    <3>4. Idle(r)' <=> Idle(r)
      BY <1>1, <3>3, Others DEF Typed
    <3> QED BY <3>4 DEF Is, Idle
  <2> QED BY <2>1
<1>4. ASSUME NEW q \in Request, EngineSucceeds(q)
      PROVE  Finishes(r) /\ UNCHANGED tokens /\ ~FromConsent(r)
  BY <1>2, <1>3, <1>4 DEF EngineSucceeds
<1>5. ASSUME NEW q \in Request, Drop(q)
      PROVE  Finishes(r) /\ UNCHANGED tokens /\ At(r, "deploy", "drop")
  BY <1>3, <1>5 DEF Drop
<1>6. ASSUME NEW q \in Request, SessionStep(q) PROVE FALSE
  BY <1>2, <1>6 DEF SessionStep, HostedSweep, SweepDelete, ConnectToken, Connected
<1>7. ASSUME NEW q \in Request, OAuthStep(q) PROVE FALSE
  BY <1>2, <1>7 DEF OAuthStep, LocalCallback, HostedCallback, HostedDeleteState, Exchange,
                    HostedFindSession, LocalAuthorize, HostedAuthorize
<1>8. ASSUME NEW q \in Request, Fail(q) PROVE FALSE
  BY <1>2, <1>8 DEF Fail
<1>9. ASSUME NEW q \in Request, DeployStep(q), ~EngineSucceeds(q), ~Drop(q) PROVE FALSE
  BY <1>2, <1>9 DEF DeployStep, Deploy, Revoke
<1>10. ASSUME NEW s \in Session, Start(s) \/ LocalSweep(s) PROVE FALSE
  BY <1>2, <1>10 DEF Start, LocalSweep
<1>11. ASSUME NEW st \in State, OAuthStart(st) PROVE FALSE
  BY <1>2, <1>11 DEF OAuthStart
<1>12. CASE Tick \/ UNCHANGED vars
  BY <1>2, <1>12 DEF Tick, vars
<1> QED BY <1>4, <1>5, <1>6, <1>7, <1>8, <1>9, <1>10, <1>11, <1>12 DEF Next

\* After a deploy whose session no other handler changed, the session is gone,
\* and its consent revoked unless the revocation failed.
THEOREM DeploysEndSessions == Spec => DeployEndsSession
<1>1. ASSUME InstallersInv, [Next]_vars, NEW r \in Request, Is(r, "deploy"),
             request'[r] = None, request[r].used \in spent' \ spent, ~request[r].disturbed
      PROVE  /\ request[r].id \notin kept'
             /\ request[r].used \in Consent
                => tokens'[request[r].used] = "revoked" \/ request[r].refused
  <2>1. /\ Finishes(r) /\ UNCHANGED tokens
        /\ At(r, "deploy", "drop") \/ ~FromConsent(r)
    BY <1>1, SpendingStep
  <2>2. request[r].id \notin kept'
    BY <2>1 DEF Finishes, Removes
  <2>3. request[r].used \in Consent => FromConsent(r)
    BY <1>1, Undisturbed
  <2>4. request[r].used \in Consent /\ request[r].pc = "drop"
          => tokens[request[r].used] = "revoked" \/ request[r].refused
    BY <1>1 DEF InstallersInv, Aware
  <2> QED BY <2>1, <2>2, <2>3, <2>4 DEF At
<1>2. InstallersInv /\ [Next]_vars
      => [\A r \in Request :
            LET h == request[r] IN
            Is(r, "deploy") /\ request'[r] = None /\ h.used \in spent' \ spent /\ ~h.disturbed
            => /\ h.id \notin kept'
               /\ h.used \in Consent => tokens'[h.used] = "revoked" \/ h.refused]_vars
  BY <1>1
<1> QED BY <1>2, InstallersInvariance, PTL DEF Spec, DeployEndsSession

=============================================================================
