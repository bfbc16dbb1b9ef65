------------------------ MODULE GateAdmission_proofs ------------------------
(***************************************************************************)
(* Theorems about GateAdmission, for every set of calls and tokens, every     *)
(* definition of the actions, every clock and every change of the machine.   *)
(***************************************************************************)
EXTENDS GateAdmission, TLAPS

-----------------------------------------------------------------------------
(* The stores *)

\* Nothing but issue makes a token, and nothing turns one back.
KeptBy(store) ==
  \A t \in Token : store[t] # Absent =>
    /\ tokens[t] # Absent
    /\ store[t].request = tokens[t].request
    /\ store[t].expires = tokens[t].expires
    /\ store[t].state = "issued" => tokens[t].state = "issued"

LEMMA StoredFields ==
  ASSUME NEW k \in StoredToken
  PROVE  k # Absent =>
           /\ k \in [state : TokenState, request : Requests, expires : Nat]
           /\ k.state \in TokenState /\ k.request \in Requests /\ k.expires \in Nat
BY DEF StoredToken

\* A token whose state changes to another one is still a token.
LEMMA StateChange ==
  ASSUME NEW k \in StoredToken, k # Absent, NEW s \in TokenState
  PROVE  /\ [k EXCEPT !.state = s] \in StoredToken
         /\ [k EXCEPT !.state = s].state = s
         /\ [k EXCEPT !.state = s].request = k.request
         /\ [k EXCEPT !.state = s].expires = k.expires
BY StoredFields DEF StoredToken, TokenState

\* A store in which one token changed its state to one that is not issued.
LEMMA MovedKeeps ==
  ASSUME tokens \in [Token -> StoredToken], NEW t \in Token, tokens[t] # Absent,
         NEW s \in TokenState \ {"issued"}, NEW store, store = [tokens EXCEPT ![t].state = s]
  PROVE  store \in [Token -> StoredToken] /\ KeptBy(store) /\ store[t].state = s
<1> DEFINE k == [tokens[t] EXCEPT !.state = s]
<1>1. /\ k \in StoredToken /\ k.state = s
      /\ k.request = tokens[t].request /\ k.expires = tokens[t].expires
  BY StateChange
<1>2. store = [tokens EXCEPT ![t] = k]
  OBVIOUS
<1> HIDE DEF k
<1>3. store \in [Token -> StoredToken] /\ store[t] = k
  BY <1>1, <1>2
<1>4. \A u \in Token \ {t} : store[u] = tokens[u]
  BY <1>2
<1>5. KeptBy(store)
  <2> SUFFICES ASSUME NEW u \in Token, store[u] # Absent
               PROVE  /\ tokens[u] # Absent
                      /\ store[u].request = tokens[u].request
                      /\ store[u].expires = tokens[u].expires
                      /\ store[u].state = "issued" => tokens[u].state = "issued"
    BY DEF KeptBy
  <2>1. CASE u = t
    BY <1>1, <1>3, <2>1
  <2>2. CASE u # t
    BY <1>4, <2>2
  <2> QED BY <2>1, <2>2
<1> QED BY <1>1, <1>3, <1>5

LEMMA AfterClaimKeeps ==
  ASSUME tokens \in [Token -> StoredToken], NEW t \in Token, NEW r
  PROVE  /\ AfterClaim(t, r) \in [Token -> StoredToken]
         /\ KeptBy(AfterClaim(t, r))
         /\ Claims(t, r) => AfterClaim(t, r)[t].state = "claimed"
<1>1. CASE tokens[t] = Absent
  BY <1>1 DEF KeptBy, AfterClaim, Claims
<1>2. CASE tokens[t] # Absent /\ Expired(t)
  <2>1. AfterClaim(t, r) = [tokens EXCEPT ![t].state = "expired"] /\ ~Claims(t, r)
    BY <1>2 DEF AfterClaim, Claims
  <2> QED BY <1>2, <2>1, MovedKeeps DEF TokenState
<1>3. CASE Claims(t, r)
  <2>1. AfterClaim(t, r) = [tokens EXCEPT ![t].state = "claimed"] /\ tokens[t] # Absent
    BY <1>3 DEF AfterClaim, Claims
  <2> QED BY <2>1, MovedKeeps DEF TokenState
<1>4. CASE tokens[t] # Absent /\ ~Expired(t) /\ ~Claims(t, r)
  BY <1>4 DEF AfterClaim, KeptBy
<1> QED BY <1>1, <1>2, <1>3, <1>4

LEMMA AfterConsumeKeeps ==
  ASSUME tokens \in [Token -> StoredToken], NEW t \in Token
  PROVE  AfterConsume(t) \in [Token -> StoredToken] /\ KeptBy(AfterConsume(t))
<1>1. CASE tokens[t] # Absent /\ tokens[t].state = "claimed"
  <2>1. AfterConsume(t) = [tokens EXCEPT ![t].state = "consumed"]
    BY <1>1 DEF AfterConsume
  <2> QED BY <1>1, <2>1, MovedKeeps DEF TokenState
<1>2. CASE ~(tokens[t] # Absent /\ tokens[t].state = "claimed")
  BY <1>2 DEF AfterConsume, KeptBy
<1> QED BY <1>1, <1>2

LEMMA SweepsKeep ==
  ASSUME tokens \in [Token -> StoredToken]
  PROVE  /\ AfterExpireStale \in [Token -> StoredToken] /\ KeptBy(AfterExpireStale)
         /\ AfterCleanup \in [Token -> StoredToken] /\ KeptBy(AfterCleanup)
<1>1. Absent \in StoredToken
  BY DEF StoredToken
<1>2. AfterExpireStale \in [Token -> StoredToken] /\ KeptBy(AfterExpireStale)
  BY StateChange DEF AfterExpireStale, KeptBy, TokenState
<1>3. AfterCleanup \in [Token -> StoredToken] /\ KeptBy(AfterCleanup)
  BY <1>1 DEF AfterCleanup, KeptBy
<1> QED BY <1>2, <1>3

LEMMA IssuedType ==
  ASSUME now \in Nat, NEW r \in Requests
  PROVE  /\ Issued(r) \in StoredToken /\ Issued(r).state = "issued"
         /\ Issued(r).request = r /\ Issued(r).expires = now + TTL
BY AdmissionAssumption DEF Issued, StoredToken, TokenState

LEMMA GrantsType ==
  ASSUME now \in Nat, grants \in [Token -> Seq([request : Requests, at : Nat])],
         NEW t \in Token, NEW r \in Requests, Grants(t, r)
  PROVE  grants' \in [Token -> Seq([request : Requests, at : Nat])]
<1> DEFINE Grant == [request : Requests, at : Nat]
<1> DEFINE g == [request |-> r, at |-> now]
<1>1. g \in Grant
  OBVIOUS
<1> HIDE DEF Grant, g
<1>2. grants[t] \in Seq(Grant)
  BY DEF Grant
<1>3. Append(grants[t], g) \in Seq(Grant)
  BY <1>1, <1>2
<1>4. grants' = grants \/ grants' = [grants EXCEPT ![t] = Append(grants[t], g)]
  BY DEF Grants, g
<1> QED BY <1>3, <1>4 DEF Grant

-----------------------------------------------------------------------------
(* Types *)

LEMMA TypeInit == Init => TypeOK
BY AdmissionAssumption DEF Init, TypeOK, Place, StoredToken, Token

LEMMA TypeStep == TypeOK /\ [Next]_vars => TypeOK'
<1> SUFFICES ASSUME TypeOK, [Next]_vars PROVE TypeOK'
  OBVIOUS
<1> USE DEF TypeOK, ghostVars, storeVars, Place
<1>0. now \in Nat /\ MaxTime \in Nat /\ MaxChanges \in Nat
  BY AdmissionAssumption
<1>1. ASSUME NEW c \in Call, CallStep(c) PROVE TypeOK'
  <2>0. c \in Token /\ RequestOf(c) \in Requests
    BY DEF Token, Requests
  <2>1. CASE Enter(c)
    BY <2>1 DEF Enter, GoTo
  <2>2. CASE Capabilities(c)
    BY <2>2 DEF Capabilities, GoTo
  <2>3. CASE SystemInfo(c)
    BY <2>3 DEF SystemInfo, GoTo, Started, RecordState
  <2>4. CASE UserDeclines(c)
    BY <2>4 DEF UserDeclines, GoTo
  <2>5. CASE UserAgrees(c)
    <3>1. tokens' \in [Token -> StoredToken]
      BY <1>0, <2>0, <2>5, IssuedType DEF UserAgrees
    <3>2. born' \in [Token -> 0 .. MaxTime + 1]
      BY <1>0, <2>0, <2>5 DEF UserAgrees
    <3> QED BY <2>5, <3>1, <3>2 DEF UserAgrees, GoTo
  <2>6. CASE ClaimToken(c)
    <3>1. tokens' \in [Token -> StoredToken]
      BY <2>0, <2>6, AfterClaimKeeps DEF ClaimToken
    <3>2. grants' \in [Token -> Seq([request : Requests, at : Nat])]
      BY <1>0, <2>0, <2>6, GrantsType DEF ClaimToken
    <3> QED BY <2>6, <3>1, <3>2 DEF ClaimToken, GoTo, Started, RecordState
  <2>7. ASSUME NEW s \in {"completed", "failed"}, Finish(c, s) PROVE TypeOK'
    BY <2>0, <2>7, AfterConsumeKeeps DEF Finish, GoTo, Ended, RecordState
  <2> QED BY <1>1, <2>1, <2>2, <2>3, <2>4, <2>5, <2>6, <2>7 DEF CallStep
<1>2. ASSUME NEW t \in Guest, GuestIssues(t) \/ GuestConsumes(t) PROVE TypeOK'
  <2>0. t \in Token /\ GuestAsks[t] \in Requests
    BY DEF Token, Requests
  <2>1. CASE GuestIssues(t)
    <3>1. tokens' \in [Token -> StoredToken]
      BY <1>0, <2>0, <2>1, IssuedType DEF GuestIssues
    <3>2. born' \in [Token -> 0 .. MaxTime + 1]
      BY <1>0, <2>0, <2>1 DEF GuestIssues
    <3> QED BY <2>1, <3>1, <3>2 DEF GuestIssues
  <2>2. CASE GuestConsumes(t)
    BY <2>0, <2>2, AfterConsumeKeeps DEF GuestConsumes
  <2> QED BY <1>2, <2>1, <2>2
<1>3. ASSUME NEW t \in Token, NEW r \in Requests, GuestClaims(t, r) PROVE TypeOK'
  BY <1>0, <1>3, AfterClaimKeeps, GrantsType DEF GuestClaims
<1>4. CASE ExpireStale \/ Cleanup
  BY <1>4, SweepsKeep DEF ExpireStale, Cleanup
<1>5. CASE RecoverUnknowns
  BY <1>5 DEF RecoverUnknowns, AfterRecoverUnknowns, RecordState
<1>6. CASE Tick
  <2>1. now' \in 0 .. MaxTime
    BY <1>0, <1>6 DEF Tick
  <2> QED BY <1>6, <2>1 DEF Tick
<1>7. ASSUME NEW x \in Tool \cup Privilege, MachineChanges(x) PROVE TypeOK'
  <2>1. changes' \in 0 .. MaxChanges
    BY <1>0, <1>7 DEF MachineChanges
  <2>2. offers' \subseteq Tool \cup Privilege
    BY <1>7 DEF MachineChanges
  <2>3. held' \in [Call -> SUBSET (Tool \cup Privilege)]
    BY <1>7, <2>2 DEF MachineChanges
  <2> QED BY <1>7, <2>1, <2>2, <2>3 DEF MachineChanges
<1>8. CASE UNCHANGED vars
  BY <1>8 DEF vars
<1> QED BY <1>1, <1>2, <1>3, <1>4, <1>5, <1>6, <1>7, <1>8 DEF Next

\* The stores of AuthorizationStore and ActionExecutionStore and the place of each
\* call keep their types whatever calls, guests, time and the machine do.
THEOREM AdmissionTypeCorrect == Spec => []TypeOK
BY TypeInit, TypeStep, PTL DEF Spec

-----------------------------------------------------------------------------
(* Grants *)

\* What a token was issued for.
Purpose(t) == IF t \in Call THEN RequestOf(t) ELSE GuestAsks[t]

Unissued(t) == IF t \in Call THEN pc[t] \in {"new", "caps", "system", "ask"}
                             ELSE born[t] = MaxTime + 1

\* A token there is carries its purpose and its birth; before it is issued, and while
\* it can still be claimed, it has let nobody through.
GrantInv ==
  \A t \in Token :
    /\ Unissued(t) => tokens[t] = Absent /\ grants[t] = <<>>
    /\ tokens[t] # Absent =>
         /\ tokens[t].request = Purpose(t)
         /\ tokens[t].expires = born[t] + TTL
         /\ tokens[t].state = "issued" => grants[t] = <<>>
    /\ Len(grants[t]) <= 1
    /\ \A n \in DOMAIN grants[t] :
         grants[t][n].request = Purpose(t) /\ grants[t][n].at <= born[t] + TTL

\* Steps that issue and grant nothing.
LEMMA QuietStep ==
  ASSUME TypeOK, GrantInv, KeptBy(tokens'), UNCHANGED <<grants, born>>,
         \A t \in Token : Unissued(t)' => Unissued(t)
  PROVE  GrantInv'
BY DEF GrantInv, KeptBy, Purpose, RequestOf

\* A claim, whoever makes it.
LEMMA ClaimStep ==
  ASSUME TypeOK, GrantInv, NEW t \in Token, NEW r \in Requests,
         tokens' = AfterClaim(t, r), Grants(t, r), UNCHANGED born,
         \A u \in Token : Unissued(u)' => Unissued(u)
  PROVE  GrantInv'
<1>1. tokens \in [Token -> StoredToken] /\ grants \in [Token -> Seq([request : Requests, at : Nat])]
  BY DEF TypeOK
<1>2. KeptBy(tokens') /\ (Claims(t, r) => tokens'[t].state = "claimed")
  BY <1>1, AfterClaimKeeps
<1>3. CASE ~Claims(t, r)
  BY <1>2, <1>3, QuietStep DEF Grants
<1>4. CASE Claims(t, r)
  <2> DEFINE g == [request |-> r, at |-> now]
  <2>1. tokens[t] # Absent /\ tokens[t].state = "issued" /\ tokens[t].request = r
    BY <1>4 DEF Claims
  <2>2. r = Purpose(t) /\ grants[t] = <<>> /\ ~Unissued(t)
    BY <2>1 DEF GrantInv
  <2>3. now <= born[t] + TTL
    <3>1. tokens[t].expires = born[t] + TTL /\ ~(now > tokens[t].expires)
      BY <1>4, <2>1 DEF GrantInv, Claims, Expired
    <3>2. now \in Nat /\ born[t] \in Nat /\ TTL \in Nat
      BY AdmissionAssumption DEF TypeOK
    <3> QED BY <3>1, <3>2
  <2>4. grants' = [grants EXCEPT ![t] = <<g>>]
    BY <1>4, <2>2 DEF Grants
  <2>5. ASSUME NEW u \in Token \ {t}
        PROVE  grants'[u] = grants[u] /\ born'[u] = born[u]
    BY <2>4, <1>1
  <2>6. /\ grants'[t] = <<g>> /\ g.request = Purpose(t)' /\ g.at <= born'[t] + TTL
        /\ tokens'[t].state # "issued"
    BY <1>1, <1>2, <1>4, <2>2, <2>3, <2>4 DEF Purpose, RequestOf
  <2>7. ASSUME NEW u \in Token
        PROVE  /\ Unissued(u)' => tokens'[u] = Absent /\ grants'[u] = <<>>
               /\ tokens'[u] # Absent =>
                    /\ tokens'[u].request = Purpose(u)'
                    /\ tokens'[u].expires = born'[u] + TTL
                    /\ tokens'[u].state = "issued" => grants'[u] = <<>>
    BY <1>2, <2>2, <2>5, <2>6 DEF GrantInv, KeptBy, Purpose, RequestOf
  <2>8. ASSUME NEW u \in Token
        PROVE  /\ Len(grants'[u]) <= 1
               /\ \A n \in DOMAIN grants'[u] :
                    grants'[u][n].request = Purpose(u)' /\ grants'[u][n].at <= born'[u] + TTL
    <3>1. CASE u = t
      <4> HIDE DEF g
      <4>1. Len(<<g>>) = 1 /\ \A n \in DOMAIN <<g>> : <<g>>[n] = g
        OBVIOUS
      <4>2. grants'[u] = <<g>> /\ g.request = Purpose(u)' /\ g.at <= born'[u] + TTL
        BY <2>6, <3>1 DEF Purpose, RequestOf
      <4> QED BY <4>1, <4>2
    <3>2. CASE u # t
      BY <2>5, <3>2 DEF GrantInv, Purpose, RequestOf
    <3> QED BY <3>1, <3>2
  <2> QED BY <2>7, <2>8 DEF GrantInv
<1> QED BY <1>3, <1>4

LEMMA IssueStep ==
  ASSUME TypeOK, GrantInv, NEW t \in Token, Unissued(t),
         tokens' = [tokens EXCEPT ![t] = Issued(Purpose(t))],
         born' = [born EXCEPT ![t] = now], UNCHANGED grants,
         \A u \in Token : Unissued(u)' => Unissued(u) /\ u # t
  PROVE  GrantInv'
<1>1. grants[t] = <<>>
  BY DEF GrantInv
<1>2. tokens'[t] = Issued(Purpose(t)) /\ born'[t] = now
  BY DEF TypeOK
<1>3. \A u \in Token \ {t} : tokens'[u] = tokens[u] /\ born'[u] = born[u]
  BY DEF TypeOK
<1>4. /\ Issued(Purpose(t)).request = Purpose(t)
      /\ Issued(Purpose(t)).expires = now + TTL
  BY DEF Issued
<1>5. Len(<<>>) = 0 /\ DOMAIN <<>> = {}
  OBVIOUS
<1>6. Purpose(t)' = Purpose(t)
  BY DEF Purpose, RequestOf
<1>7. ASSUME NEW u \in Token
      PROVE  /\ Unissued(u)' => tokens'[u] = Absent /\ grants'[u] = <<>>
             /\ tokens'[u] # Absent =>
                  /\ tokens'[u].request = Purpose(u)'
                  /\ tokens'[u].expires = born'[u] + TTL
                  /\ tokens'[u].state = "issued" => grants'[u] = <<>>
             /\ Len(grants'[u]) <= 1
             /\ \A n \in DOMAIN grants'[u] :
                  grants'[u][n].request = Purpose(u)' /\ grants'[u][n].at <= born'[u] + TTL
  <2>1. CASE u = t
    BY <1>1, <1>2, <1>4, <1>5, <1>6, <2>1 DEF Purpose, RequestOf
  <2>2. CASE u # t
    BY <1>3, <2>2 DEF GrantInv, Purpose, RequestOf
  <2> QED BY <2>1, <2>2
<1> QED BY <1>7 DEF GrantInv

LEMMA GrantInvStep == TypeOK /\ GrantInv /\ [Next]_vars => GrantInv'
<1> SUFFICES ASSUME TypeOK, GrantInv, [Next]_vars PROVE GrantInv'
  OBVIOUS
<1> USE DEF storeVars, ghostVars
<1>0. pc \in [Call -> Place] /\ tokens \in [Token -> StoredToken] /\ KeptBy(tokens)
  BY DEF TypeOK, KeptBy
<1>1. ASSUME NEW c \in Call, CallStep(c) PROVE GrantInv'
  <2>0. c \in Token /\ RequestOf(c) \in Requests /\ Purpose(c) = RequestOf(c)
    BY DEF Token, Requests, Purpose
  <2>1. CASE Enter(c) \/ Capabilities(c) \/ SystemInfo(c) \/ UserDeclines(c)
    <3>1. KeptBy(tokens') /\ UNCHANGED <<grants, born>>
      BY <1>0, <2>1 DEF Enter, Capabilities, SystemInfo, UserDeclines, KeptBy
    <3>2. \A t \in Token : Unissued(t)' => Unissued(t)
      BY <1>0, <2>1 DEF Enter, Capabilities, SystemInfo, UserDeclines, GoTo, Unissued
    <3> QED BY <3>1, <3>2, QuietStep
  <2>2. CASE UserAgrees(c)
    <3>1. \A u \in Token : Unissued(u)' => Unissued(u) /\ u # c
      BY <1>0, <2>2 DEF UserAgrees, GoTo, Unissued, TypeOK
    <3>2. Unissued(c)
      BY <2>2 DEF UserAgrees, Unissued
    <3> QED BY <2>0, <2>2, <3>1, <3>2, IssueStep DEF UserAgrees
  <2>3. CASE ClaimToken(c)
    <3>1. \A u \in Token : Unissued(u)' => Unissued(u)
      BY <1>0, <2>3 DEF ClaimToken, GoTo, Unissued
    <3> QED BY <2>0, <2>3, <3>1, ClaimStep DEF ClaimToken
  <2>4. ASSUME NEW s \in {"completed", "failed"}, Finish(c, s) PROVE GrantInv'
    <3>1. KeptBy(tokens') /\ UNCHANGED <<grants, born>>
      BY <1>0, <2>0, <2>4, AfterConsumeKeeps DEF Finish
    <3>2. \A t \in Token : Unissued(t)' => Unissued(t)
      BY <1>0, <2>4 DEF Finish, GoTo, Unissued
    <3> QED BY <3>1, <3>2, QuietStep
  <2> QED BY <1>1, <2>1, <2>2, <2>3, <2>4 DEF CallStep
<1>2. ASSUME NEW t \in Guest, GuestIssues(t) PROVE GrantInv'
  <2>1. t \in Token /\ t \notin Call /\ Purpose(t) = GuestAsks[t]
    BY AdmissionAssumption DEF Token, Purpose
  <2>2. now # MaxTime + 1
    BY AdmissionAssumption DEF TypeOK
  <2>3. \A u \in Token : Unissued(u)' => Unissued(u) /\ u # t
    BY <1>2, <2>1, <2>2 DEF GuestIssues, Unissued, TypeOK
  <2>4. Unissued(t)
    BY <1>2, <2>1 DEF GuestIssues, Unissued
  <2> QED BY <1>2, <2>1, <2>3, <2>4, IssueStep DEF GuestIssues
<1>3. ASSUME NEW t \in Token, NEW r \in Requests, GuestClaims(t, r) PROVE GrantInv'
  BY <1>3, ClaimStep DEF GuestClaims, Unissued
<1>4. ASSUME KeptBy(tokens'), UNCHANGED <<pc, grants, born>> PROVE GrantInv'
  BY <1>4, QuietStep DEF Unissued
<1>5. ASSUME NEW t \in Guest, GuestConsumes(t) PROVE GrantInv'
  BY <1>0, <1>4, <1>5, AfterConsumeKeeps DEF GuestConsumes, Token
<1>6. CASE ExpireStale \/ Cleanup
  BY <1>0, <1>4, <1>6, SweepsKeep DEF ExpireStale, Cleanup
<1>7. CASE RecoverUnknowns \/ Tick \/ UNCHANGED vars
  BY <1>0, <1>4, <1>7 DEF RecoverUnknowns, Tick, vars, KeptBy
<1>8. ASSUME NEW x \in Tool \cup Privilege, MachineChanges(x) PROVE GrantInv'
  BY <1>0, <1>4, <1>8 DEF MachineChanges, KeptBy
<1> QED BY <1>1, <1>2, <1>3, <1>5, <1>6, <1>7, <1>8 DEF Next

LEMMA GrantInvInit == Init => GrantInv
BY DEF Init, GrantInv, Absent

\* A token lets at most one claim through, for its own request and within its time to
\* live, in any order of the operations of the store.
THEOREM GrantsBound == Spec => []GrantsAreBound
<1>1. GrantInv => GrantsAreBound
  BY DEF GrantInv, GrantsAreBound, Purpose
<1> QED BY <1>1, TypeInit, TypeStep, GrantInvInit, GrantInvStep, PTL DEF Spec

-----------------------------------------------------------------------------
(* Starts *)

\* What is known of a call at each place.
StartInvOf(c) ==
  /\ pc[c] \notin {"run", "done"} => records[c] = "none"
  /\ pc[c] = "issued" => c \in consented
  /\ pc[c] \notin {"new", "done"} => AskedOf[c].action \in Action /\ offers \subseteq held[c]
  /\ pc[c] = "system" => seen[c] \subseteq held[c]
  /\ pc[c] \in {"ask", "issued"} => Prerequisites(c) \subseteq held[c]
  /\ records[c] # "none" =>
       /\ RequiresAuth(c) => c \in consented /\ grants[c] # <<>>
       /\ Prerequisites(c) \subseteq held[c]

StartInv == \A c \in Call : StartInvOf(c)

\* What a step leaves alone of another call.
Untouched(c) ==
  /\ pc'[c] = pc[c] /\ records'[c] = records[c] /\ seen'[c] = seen[c]
  /\ held'[c] = held[c] /\ consented \subseteq consented' /\ offers' = offers
  /\ grants[c] # <<>> => grants'[c] # <<>>

LEMMA UntouchedKeeps ==
  ASSUME NEW c \in Call, StartInvOf(c), Untouched(c)
  PROVE  StartInvOf(c)'
BY DEF StartInvOf, Untouched, Prerequisites, RequiresAuth

LEMMA AppendIsNotEmpty ==
  ASSUME NEW S, NEW s \in Seq(S), NEW e \in S
  PROVE  Append(s, e) # <<>>
<1>1. Len(s) \in Nat /\ Len(Append(s, e)) = Len(s) + 1
  OBVIOUS
<1>2. Len(<<>>) = 0
  OBVIOUS
<1> QED BY <1>1, <1>2

\* The entry a claim adds.
LEMMA GrantedEntry ==
  ASSUME TypeOK, NEW t \in Token, NEW r \in Requests
  PROVE  Append(grants[t], [request |-> r, at |-> now]) # <<>>
<1>1. now \in Nat
  BY AdmissionAssumption DEF TypeOK
<1>2. [request |-> r, at |-> now] \in [request : Requests, at : Nat]
  BY <1>1
<1>3. grants[t] \in Seq([request : Requests, at : Nat])
  BY DEF TypeOK
<1> QED BY <1>2, <1>3, AppendIsNotEmpty

LEMMA GrantsGrow ==
  ASSUME TypeOK, NEW t \in Token, NEW r \in Requests, Grants(t, r)
  PROVE  \A u \in Token : grants[u] # <<>> => grants'[u] # <<>>
<1> DEFINE g == [request |-> r, at |-> now]
<1>1. Append(grants[t], g) # <<>>
  BY GrantedEntry
<1>2. DOMAIN grants = Token
  BY DEF TypeOK
<1>3. grants' = grants \/ grants' = [grants EXCEPT ![t] = Append(grants[t], g)]
  BY DEF Grants, g
<1> QED BY <1>1, <1>2, <1>3

LEMMA ClaimGrants ==
  ASSUME TypeOK, NEW t \in Token, NEW r \in Requests, Grants(t, r), Claims(t, r)
  PROVE  grants'[t] # <<>>
<1> DEFINE g == [request |-> r, at |-> now]
<1>1. Append(grants[t], g) # <<>>
  BY GrantedEntry
<1>2. DOMAIN grants = Token
  BY DEF TypeOK
<1>3. grants' = [grants EXCEPT ![t] = Append(grants[t], g)]
  BY DEF Grants, g
<1> QED BY <1>1, <1>2, <1>3

\* The prerequisites are looked up in what the call was told.
LEMMA CheckedAreHeld ==
  ASSUME TypeOK, NEW c \in Call, StartInvOf(c), pc[c] = "system",
         CheckPrerequisites(c, offers \cap Privilege)
  PROVE  Prerequisites(c) \subseteq held[c]
<1>1. Prerequisites(c) \subseteq Tool \cup Privilege
  BY AdmissionAssumption DEF StartInvOf, Prerequisites
<1> QED BY <1>1 DEF StartInvOf, CheckPrerequisites

LEMMA StartInvOfOwnStep ==
  ASSUME TypeOK, NEW c \in Call, StartInvOf(c), CallStep(c)
  PROVE  StartInvOf(c)'
<1> USE DEF TypeOK, StartInvOf, GoTo, Prerequisites, RequiresAuth, storeVars, ghostVars
<1>1. CASE Enter(c)
  BY <1>1 DEF Enter, Accepted
<1>2. CASE Capabilities(c)
  BY <1>2 DEF Capabilities
<1>3. CASE SystemInfo(c)
  <2>1. CASE ~CheckPrerequisites(c, offers \cap Privilege) \/ (RequiresAuth(c) /\ ~AskedOf[c].prompt)
    BY <1>3, <2>1 DEF SystemInfo
  <2>2. CASE CheckPrerequisites(c, offers \cap Privilege) /\ ~(RequiresAuth(c) /\ ~AskedOf[c].prompt)
    <3>1. Prerequisites(c) \subseteq held[c]
      BY <1>3, <2>2, CheckedAreHeld DEF SystemInfo
    <3>2. CASE RequiresAuth(c)
      BY <1>3, <2>2, <3>1, <3>2 DEF SystemInfo
    <3>3. CASE ~RequiresAuth(c)
      BY <1>3, <2>2, <3>1, <3>3 DEF SystemInfo, Started
    <3> QED BY <3>2, <3>3
  <2> QED BY <2>1, <2>2
<1>4. CASE UserDeclines(c)
  BY <1>4 DEF UserDeclines
<1>5. CASE UserAgrees(c)
  BY <1>5 DEF UserAgrees
<1>6. CASE ClaimToken(c)
  <2>1. c \in Token /\ RequestOf(c) \in Requests
    BY DEF Token, Requests
  <2>2. CASE Claims(c, RequestOf(c))
    <3>1. grants'[c] # <<>>
      BY <1>6, <2>1, <2>2, ClaimGrants DEF ClaimToken
    <3> QED BY <1>6, <2>2, <3>1 DEF ClaimToken, Started
  <2>3. CASE ~Claims(c, RequestOf(c))
    BY <1>6, <2>3 DEF ClaimToken, Grants
  <2> QED BY <2>2, <2>3
<1>7. ASSUME NEW s \in {"completed", "failed"}, Finish(c, s) PROVE StartInvOf(c)'
  BY <1>7 DEF Finish, Ended
<1> QED BY <1>1, <1>2, <1>3, <1>4, <1>5, <1>6, <1>7 DEF CallStep

LEMMA StartInvOfOtherStep ==
  ASSUME TypeOK, NEW c \in Call, NEW d \in Call \ {c}, StartInvOf(d), CallStep(c)
  PROVE  StartInvOf(d)'
<1>1. c \in Token /\ d \in Token /\ RequestOf(c) \in Requests
  BY DEF Token, Requests
<1>2. \A u \in Token : grants[u] # <<>> => grants'[u] # <<>>
  BY <1>1, GrantsGrow DEF CallStep, Enter, Capabilities, SystemInfo, UserDeclines, UserAgrees,
     ClaimToken, Finish, ghostVars
<1>3. Untouched(d)
  BY <1>1, <1>2 DEF Untouched, TypeOK, CallStep, Enter, Capabilities, SystemInfo, UserDeclines,
     UserAgrees, ClaimToken, Finish, GoTo, Started, Ended, storeVars, ghostVars
<1> QED BY <1>3, UntouchedKeeps

LEMMA StartInvStep == TypeOK /\ StartInv /\ [Next]_vars => StartInv'
<1> SUFFICES ASSUME TypeOK, StartInv, [Next]_vars, NEW d \in Call PROVE StartInvOf(d)'
  BY DEF StartInv
<1> USE DEF storeVars, ghostVars
<1>0. StartInvOf(d) /\ d \in Token
  BY DEF StartInv, Token
<1>1. ASSUME NEW c \in Call, CallStep(c) PROVE StartInvOf(d)'
  BY <1>0, <1>1, StartInvOfOwnStep, StartInvOfOtherStep
<1>2. ASSUME Untouched(d) PROVE StartInvOf(d)'
  BY <1>0, <1>2, UntouchedKeeps
<1>3. ASSUME NEW t \in Guest, GuestIssues(t) \/ GuestConsumes(t) PROVE StartInvOf(d)'
  BY <1>2, <1>3 DEF GuestIssues, GuestConsumes, Untouched
<1>4. ASSUME NEW t \in Token, NEW r \in Requests, GuestClaims(t, r) PROVE StartInvOf(d)'
  <2>1. grants[d] # <<>> => grants'[d] # <<>>
    BY <1>0, <1>4, GrantsGrow DEF GuestClaims
  <2> QED BY <1>2, <1>4, <2>1 DEF GuestClaims, Untouched
<1>5. CASE ExpireStale \/ Cleanup \/ Tick \/ UNCHANGED vars
  BY <1>2, <1>5 DEF ExpireStale, Cleanup, Tick, vars, Untouched
<1>6. CASE RecoverUnknowns
  BY <1>0, <1>6 DEF RecoverUnknowns, AfterRecoverUnknowns, StartInvOf, Prerequisites, RequiresAuth
<1>7. ASSUME NEW x \in Tool \cup Privilege, MachineChanges(x) PROVE StartInvOf(d)'
  <2>1. /\ held[d] \subseteq held'[d]
        /\ pc[d] \notin {"new", "done"} => offers' \subseteq held'[d]
    BY <1>7 DEF MachineChanges, TypeOK
  <2> QED BY <1>0, <1>7, <2>1 DEF MachineChanges, StartInvOf, Prerequisites, RequiresAuth
<1> QED BY <1>1, <1>3, <1>4, <1>5, <1>6, <1>7 DEF Next

LEMMA StartInvInit == Init => StartInv
BY DEF Init, StartInv, StartInvOf

\* What is started was agreed to by the user of that very call, where its action asks for
\* it, and had what it needs at some time of the call.
THEOREM StartsJustified == Spec => []StartsAreJustified
<1>1. StartInv => StartsAreJustified
  BY DEF StartInv, StartInvOf, StartsAreJustified, RequiresAuth
<1> QED BY <1>1, TypeInit, TypeStep, StartInvInit, StartInvStep, PTL DEF Spec

=============================================================================
