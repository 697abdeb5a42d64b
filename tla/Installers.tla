----------------------------- MODULE Installers -----------------------------
(***************************************************************************)
(* The sessions of the two web installers, between the browser of one      *)
(* operator, with as many tabs as it likes, and Cloudflare.                *)
(*                                                                         *)
(* Both run the same routes over different stores.  The local installer (a *)
(* node process) keeps session objects in a map: a handler that waits      *)
(* keeps a reference and sees what the others assign.  The hosted one (a   *)
(* worker) keeps them in KV: a handler reads a copy, waits, and writes the *)
(* whole copy back.  What a deploy does to the account is in Deploy; here  *)
(* it succeeds or fails.                                                   *)
(***************************************************************************)
EXTENDS Naturals

CONSTANTS
  Session,     \* session ids (random: never used twice)
  Consent,     \* OAuth consents: the code, and the access token it buys
  ApiToken,    \* tokens the operator may paste
  State,       \* OAuth states (random: never used twice)
  Request,     \* handlers that may run at one time
  None,        \* nothing
  SessionTtl, StateTtl,  \* SESSION_TTL_MS, OAUTH_STATE_TTL_MS
  MaxTime      \* bound of the model: how far the clock runs

Token == Consent \cup ApiToken

VARIABLES
  hosted,   \* which installer this is; never changes
  now,
  cookie,   \* the session cookie of the browser, or None
  kept,     \* the sessions in the map, or in KV
  session,  \* id -> the session object, or the record in KV; None before it
  states,   \* OAuth state -> when it expires, or None
  issued,   \* the states ever given out
  tokens,   \* Cloudflare: token -> what it is worth
  request,  \* handler -> what it is doing, or None
  passed,   \* history: state -> the callbacks its check let through
  raced,    \* history: the states that two callbacks held at one time
  spent     \* history: the tokens of deploys that succeeded

vars == <<hosted, now, cookie, kept, session, states, issued, tokens, request,
          passed, raced, spent>>
store == <<kept, session>>
oauth == <<states, issued, passed, raced>>

Record == [token: Token \cup {None}, kind: {"", "oauth", "token"}, expires: Nat]

\* copy is what the handler last read of its session.
Callback == [op: {"callback"}, pc: {"delete", "exchange", "session", "put"},
             id: Session, state: State, valid: BOOLEAN, consent: Consent, copy: Record]
Connect == [op: {"connect"}, id: Session, apiToken: ApiToken, copy: Record]
DeployRequest ==
  [op: {"deploy"}, pc: {"engine", "revoke", "drop"}, id: Session, dryRun: BOOLEAN,
   copy: Record,
   used: Token,                     \* the token of the API calls
   revoking: Token \cup {None},
   refused: BOOLEAN,                \* history: the revocation failed
   disturbed: BOOLEAN]              \* history: another handler changed the session
Sweep == [op: {"sweep"}, id: Session]

ASSUME InstallersAssumption ==
  /\ SessionTtl \in Nat /\ StateTtl \in Nat /\ MaxTime \in Nat
  /\ Consent \cap ApiToken = {}
  /\ None \notin Session \cup Token \cup State
  /\ None \notin Record
  /\ None \notin Callback \cup Connect \cup DeployRequest \cup Sweep

\* Only a consent is ever dead: not yet given, or revoked.
Worth == {"unknown", "live", "revoked"}

InstallersTypeOK ==
  /\ hosted \in BOOLEAN
  /\ now \in Nat
  /\ cookie \in Session \cup {None}
  /\ kept \in SUBSET Session
  /\ session \in [Session -> Record \cup {None}]
  /\ \A s \in kept : session[s] # None
  /\ states \in [State -> Nat \cup {None}]
  /\ issued \in SUBSET State
  /\ tokens \in [Token -> Worth]
  /\ request \in [Request -> Callback \cup Connect \cup DeployRequest \cup Sweep \cup {None}]
  /\ passed \in [State -> Nat]
  /\ raced \in SUBSET State
  /\ spent \in SUBSET Token

Init ==
  /\ hosted \in BOOLEAN
  /\ now = 0
  /\ cookie = None
  /\ kept = {}
  /\ session = [s \in Session |-> None]
  /\ states = [st \in State |-> None]
  /\ issued = {}
  /\ tokens = [t \in Token |-> IF t \in Consent THEN "unknown" ELSE "live"]
  /\ request = [r \in Request |-> None]
  /\ passed = [st \in State |-> 0]
  /\ raced = {}
  /\ spent = {}

-----------------------------------------------------------------------------
(* Sessions.                                                               *)

Idle(r) == request[r] = None
Is(r, op) == ~Idle(r) /\ request[r].op = op
At(r, op, pc) == Is(r, op) /\ request[r].pc = pc

Goes(r, h) == request' = [request EXCEPT ![r] = h]
Ends(r) == Goes(r, None)

\* getSession: the session of the cookie is there and has not expired.
Alive(s) == s \in kept /\ session[s].expires > now

\* GET /api/start: a new session without a token; the cookie names it.
Start(s) ==
  /\ session[s] = None
  /\ session' = [session EXCEPT ![s] =
                   [token |-> None, kind |-> "", expires |-> now + SessionTtl]]
  /\ kept' = kept \cup {s}
  /\ cookie' = s
  /\ UNCHANGED <<hosted, now, oauth, tokens, request, spent>>

\* Any route of the local installer that finds its session expired drops it.
LocalSweep(s) ==
  /\ ~hosted
  /\ s \in kept /\ ~Alive(s)
  /\ kept' = kept \ {s}
  /\ UNCHANGED <<hosted, now, cookie, session, oauth, tokens, request, spent>>

\* So does the hosted one, with an await between the get and the delete.
HostedSweep(r, s) ==
  /\ hosted /\ Idle(r)
  /\ s \in kept /\ ~Alive(s)
  /\ Goes(r, [op |-> "sweep", id |-> s])
  /\ UNCHANGED <<hosted, now, cookie, store, oauth, tokens, spent>>

SweepDelete(r) ==
  /\ Is(r, "sweep")
  /\ kept' = kept \ {request[r].id}
  /\ Ends(r)
  /\ UNCHANGED <<hosted, now, cookie, session, oauth, tokens, spent>>

\* The other deploys on this session notice that it changed.
Disturbs(r, s, h) ==
  request' = [q \in Request |->
    IF q = r THEN h
    ELSE IF Is(q, "deploy") /\ request[q].id = s
         THEN [request[q] EXCEPT !.disturbed = TRUE] ELSE request[q]]

\* Locally the object is assigned, in the map or not; in KV the copy is put.
Assigns(r, s, new) ==
  /\ session' = [session EXCEPT ![s] = new]
  /\ kept' = IF hosted THEN kept \cup {s} ELSE kept
  /\ Disturbs(r, s, None)

\* What a handler that waited knows of its session.
LocalView(r) == session[request[r].id]
HostedView(r) == request[r].copy
ViewOf(r) == IF hosted THEN HostedView(r) ELSE LocalView(r)

-----------------------------------------------------------------------------
(* OAuth.                                                                  *)

OAuthStart(st) ==
  /\ cookie # None /\ Alive(cookie)
  /\ st \notin issued
  /\ issued' = issued \cup {st}
  /\ states' = [states EXCEPT ![st] = now + StateTtl]
  /\ UNCHANGED <<hosted, now, cookie, store, tokens, request, passed, raced, spent>>

\* The check of the state; it is deleted whatever the check says.
ValidState(st) == states[st] # None /\ states[st] > now

\* Faulty variant: the state stays until it expires.
StateRemembered(st) == states

StateForgotten(st) == [states EXCEPT ![st] = None]

NewCallback(st, c, pc, granted) ==
  [op |-> "callback", pc |-> pc, id |-> cookie, state |-> st,
   valid |-> granted /\ ValidState(st), consent |-> c, copy |-> session[cookie]]

Passes(st) == passed' = [passed EXCEPT ![st] = @ + 1]

\* Cloudflare sends the browser back with a code, or with an error when the
\* operator refused.  In the map, get and delete are one step.
LocalCallback(r, st, c, granted) ==
  /\ ~hosted /\ Idle(r)
  /\ cookie # None /\ st \in issued
  /\ states' = StateForgotten(st)
  /\ IF granted /\ ValidState(st)
     THEN Goes(r, NewCallback(st, c, "exchange", granted)) /\ Passes(st)
     ELSE UNCHANGED <<request, passed>>
  /\ UNCHANGED <<hosted, now, cookie, store, issued, raced, tokens, spent>>

Holds(q, st) == At(q, "callback", "delete") /\ request[q].state = st

\* In KV they are two.
HostedCallback(r, st, c, granted) ==
  /\ hosted /\ Idle(r)
  /\ cookie # None /\ st \in issued
  /\ Goes(r, NewCallback(st, c, "delete", granted))
  /\ raced' = IF \E q \in Request : Holds(q, st) THEN raced \cup {st} ELSE raced
  /\ UNCHANGED <<hosted, now, cookie, store, states, issued, passed, tokens, spent>>

HostedDeleteState(r) ==
  LET h == request[r] IN
  /\ At(r, "callback", "delete")
  /\ states' = StateForgotten(h.state)
  /\ IF h.valid
     THEN Goes(r, [h EXCEPT !.pc = "exchange"]) /\ Passes(h.state)
     ELSE Ends(r) /\ UNCHANGED passed
  /\ UNCHANGED <<hosted, now, cookie, store, issued, raced, tokens, spent>>

\* The token endpoint takes a code once.
Exchange(r) ==
  LET h == request[r] IN
  /\ At(r, "callback", "exchange")
  /\ tokens[h.consent] = "unknown"
  /\ tokens' = [tokens EXCEPT ![h.consent] = "live"]
  /\ Goes(r, [h EXCEPT !.pc = "session"])
  /\ UNCHANGED <<hosted, now, cookie, store, oauth, spent>>

Authorized(c, view, life) ==
  [view EXCEPT !.token = c, !.kind = "oauth", !.expires = now + life]

\* The session is looked up only now; without one the token is dropped.
LocalAuthorize(r, life) ==
  LET h == request[r] IN
  /\ ~hosted /\ At(r, "callback", "session")
  /\ IF Alive(h.id)
     THEN Assigns(r, h.id, Authorized(h.consent, session[h.id], life))
     ELSE Ends(r) /\ UNCHANGED store
  /\ UNCHANGED <<hosted, now, cookie, oauth, tokens, spent>>

HostedFindSession(r) ==
  LET h == request[r] IN
  /\ hosted /\ At(r, "callback", "session")
  /\ IF Alive(h.id) THEN Goes(r, [h EXCEPT !.pc = "put", !.copy = session[h.id]])
                    ELSE Ends(r)
  /\ UNCHANGED <<hosted, now, cookie, store, oauth, tokens, spent>>

HostedAuthorize(r, life) ==
  LET h == request[r] IN
  /\ At(r, "callback", "put")
  /\ Assigns(r, h.id, Authorized(h.consent, h.copy, life))
  /\ UNCHANGED <<hosted, now, cookie, oauth, tokens, spent>>

-----------------------------------------------------------------------------
(* Pasted tokens.                                                          *)

ConnectToken(r, t) ==
  /\ Idle(r)
  /\ cookie # None /\ Alive(cookie)
  /\ Goes(r, [op |-> "connect", id |-> cookie, apiToken |-> t, copy |-> session[cookie]])
  /\ UNCHANGED <<hosted, now, cookie, store, oauth, tokens, spent>>

Pasted(t, view) == [view EXCEPT !.token = t, !.kind = "token"]

\* fetchAccounts has accepted the token.
Connected(r) ==
  LET h == request[r] IN
  /\ Is(r, "connect")
  /\ Assigns(r, h.id, Pasted(h.apiToken, ViewOf(r)))
  /\ UNCHANGED <<hosted, now, cookie, oauth, tokens, spent>>

-----------------------------------------------------------------------------
(* Deploying.                                                              *)

Deploy(r, dryRun) ==
  /\ Idle(r)
  /\ cookie # None /\ Alive(cookie)
  /\ session[cookie].token # None
  /\ Goes(r, [op |-> "deploy", pc |-> "engine", id |-> cookie, dryRun |-> dryRun,
              copy |-> session[cookie], used |-> session[cookie].token,
              revoking |-> None, refused |-> FALSE, disturbed |-> FALSE])
  /\ UNCHANGED <<hosted, now, cookie, store, oauth, tokens, spent>>

\* Faulty variant: the kind is the one the deploy began with.
ConsentAtFirst(r) == request[r].copy.kind = "oauth"

\* Only what came from the consent screen is revoked.
FromConsent(r) == ViewOf(r).kind = "oauth"

\* Faulty variant: only the sessions of pasted tokens are deleted.
RemovesPasted(s) ==
  /\ kept' = IF session[s].kind = "token" THEN kept \ {s} ELSE kept
  /\ UNCHANGED session

\* Faulty variant: the object goes and its key stays.
RemovesObject(s) ==
  /\ session' = [session EXCEPT ![s] = None]
  /\ UNCHANGED kept

\* The session is deleted; the local object is emptied for who still has it.
Removes(s) ==
  /\ kept' = kept \ {s}
  /\ session' = IF hosted THEN session
                ELSE [session EXCEPT ![s] = [@ EXCEPT !.token = None, !.expires = 0]]

Finishes(r) ==
  LET h == request[r] IN
  /\ Removes(h.id) /\ Disturbs(r, h.id, None)
  /\ spent' = spent \cup {h.used}

\* The engine and the lookup of the endpoint are done; every call was accepted.
EngineSucceeds(r) ==
  LET h == request[r] IN
  /\ At(r, "deploy", "engine")
  /\ tokens[h.used] = "live"
  /\ UNCHANGED <<hosted, now, cookie, oauth, tokens>>
  /\ \/ h.dryRun /\ Ends(r) /\ UNCHANGED <<store, spent>>
     \/ /\ ~h.dryRun /\ FromConsent(r)
        /\ Goes(r, [h EXCEPT !.pc = "revoke", !.revoking = ViewOf(r).token])
        /\ UNCHANGED <<store, spent>>
     \/ /\ ~h.dryRun /\ ~FromConsent(r) /\ hosted
        /\ Goes(r, [h EXCEPT !.pc = "drop"])
        /\ UNCHANGED <<store, spent>>
     \/ /\ ~h.dryRun /\ ~FromConsent(r) /\ ~hosted
        /\ Finishes(r)

\* The revocation; a refusal or an error of it is only logged.
Revoke(r, works) ==
  LET h == request[r] IN
  /\ At(r, "deploy", "revoke")
  /\ tokens' = IF works /\ h.revoking # None
               THEN [tokens EXCEPT ![h.revoking] = "revoked"] ELSE tokens
  /\ Goes(r, [h EXCEPT !.pc = "drop", !.refused = ~works])
  /\ UNCHANGED <<hosted, now, cookie, store, oauth, spent>>

Drop(r) ==
  /\ At(r, "deploy", "drop")
  /\ Finishes(r)
  /\ UNCHANGED <<hosted, now, cookie, oauth, tokens>>

\* An error of Cloudflare, of KV, or the end of the isolate.
Fail(r) ==
  /\ ~Idle(r)
  /\ Ends(r)
  /\ UNCHANGED <<hosted, now, cookie, store, oauth, tokens, spent>>

Tick ==
  /\ now < MaxTime
  /\ now' = now + 1
  /\ UNCHANGED <<hosted, cookie, store, oauth, tokens, request, spent>>

-----------------------------------------------------------------------------

SessionStep(r) ==
  \/ \E s \in Session : HostedSweep(r, s)
  \/ SweepDelete(r)
  \/ \E t \in ApiToken : ConnectToken(r, t)
  \/ Connected(r)

OAuthStep(r) ==
  \/ \E st \in State, c \in Consent, granted \in BOOLEAN :
       LocalCallback(r, st, c, granted) \/ HostedCallback(r, st, c, granted)
  \/ HostedDeleteState(r) \/ Exchange(r)
  \/ HostedFindSession(r)
  \/ \E life \in 0..SessionTtl : LocalAuthorize(r, life) \/ HostedAuthorize(r, life)

DeployStep(r) ==
  \/ \E dryRun \in BOOLEAN : Deploy(r, dryRun)
  \/ EngineSucceeds(r)
  \/ \E works \in BOOLEAN : Revoke(r, works)
  \/ Drop(r)

Next ==
  \/ \E s \in Session : Start(s) \/ LocalSweep(s)
  \/ \E st \in State : OAuthStart(st)
  \/ \E r \in Request : SessionStep(r) \/ OAuthStep(r) \/ DeployStep(r) \/ Fail(r)
  \/ Tick

Spec == Init /\ [][Next]_vars

-----------------------------------------------------------------------------
(* Properties.                                                             *)

\* oauth.ts and index.ts: pasted tokens are "user-managed".  Whatever replaces
\* whatever in a session while a deploy runs, no revocation hits one.
PastedNeverRevoked ==
  \A t \in ApiToken : tokens[t] = "live"

\* The header of both installers: after a successful deploy the consent is
\* revoked and the session cleared.  True of every real deploy whose session no
\* other handler changed meanwhile, unless the revocation failed.
DeployEndsSession ==
  [][\A r \in Request :
       LET h == request[r] IN
       Is(r, "deploy") /\ request'[r] = None /\ h.used \in spent' \ spent /\ ~h.disturbed
       => /\ h.id \notin kept'
          /\ h.used \in Consent => tokens'[h.used] = "revoked" \/ h.refused]_vars

\* The consent of a successful deploy is in no session that could deploy again,
\* although a handler that loaded the session earlier may bring the session back.
SpentTokenUnreachable ==
  \A s \in kept : session[s].token \in Consent => session[s].token \notin spent

\* A state lets one callback through, unless two held it between the get and
\* the delete of the hosted installer.
StateUsedOnce ==
  \A st \in State : passed[st] > 1 => st \in raced

=============================================================================
