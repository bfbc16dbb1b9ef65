---------------------------- MODULE GateAdmission ----------------------------
(***************************************************************************)
(* ActionGate.execute up to the start of the execution (core/action-gate.ts  *)
(* steps 0 to 9) and the two in-memory stores of a session: calls that share *)
(* a gate check the request, wait for the adapter's capabilities, for its    *)
(* system information and for the user's answer, issue a token and claim it. *)
(* Meanwhile time passes, the machine changes, and whoever holds the stores  *)
(* calls their other operations.  What follows step 9, GateExecution models  *)
(* step by step, is one action here.                                        *)
(*                                                                         *)
(*   new -> caps -> system -> ask -> issued -> run -> done                   *)
(*     \------\--------\-------\-------\-> done                             *)
(*                                                                         *)
(* Code between two awaits is one step, but for issue and claim: the process *)
(* may be suspended between them (a closed laptop), and the token has a time *)
(* to live.  Nothing else of the process runs then.                         *)
(***************************************************************************)
EXTENDS Naturals, Sequences, FiniteSets

CONSTANTS
  Call,       \* the calls of execute
  Guest,      \* tokens that other code issues and claims with the same store
  Action,     \* the actions of the gate
  Definition, \* their definitions
  Tool,       \* tools that prerequisites may name
  Privilege,  \* privileges that prerequisites may name
  AskedOf,    \* [action, raw, goodKey, prompt] of each call
  GuestAsks,  \* the request each guest token is for
  Platform,   \* the adapter's platform
  TTL,        \* TOKEN_TTL_MS, in ticks of the clock
  MaxTime,    \* bound: the clock stops here
  MaxChanges  \* bound: how often the machine changes

Token == Call \cup Guest

ASSUME AdmissionAssumption ==
  /\ Call \cap Guest = {}
  /\ Tool \cap Privilege = {}
  /\ TTL \in Nat /\ MaxTime \in Nat /\ MaxChanges \in Nat
  /\ \A a \in Action : Definition[a].prerequisites \subseteq Tool \cup Privilege

VARIABLES
  pc,        \* where each call stands
  now,       \* the clock
  offers,    \* the tools and privileges the machine has
  changes,   \* how often it changed
  seen,      \* what capabilities() and systemInfo() told each call
  tokens,    \* AuthorizationStore
  records,   \* ActionExecutionStore
  held,      \* ghost: what the machine offered at some time during the call
  born,      \* ghost: when each token was issued
  grants,    \* ghost: the claims each token granted
  consented  \* ghost: the calls whose user said yes

storeVars == <<tokens, records>>
ghostVars == <<held, born, grants, consented>>
vars == <<pc, now, offers, changes, seen, storeVars, ghostVars>>

Level == {"auto_safe", "confirm", "forbidden"}
Place == {"new", "caps", "system", "ask", "issued", "run", "done"}
TokenState == {"issued", "claimed", "consumed", "expired"}
RecordState == {"started", "completed", "failed", "unknown"}
Absent == [state |-> "absent"]

-----------------------------------------------------------------------------
(* The checks of steps 0 to 4. *)

\* sanitizeTarget keeps the characters it allows; too many or none is an error.
\* An absent or empty parameter is the empty target.
SanitizeTarget(raw) == IF raw.given THEN raw.kept ELSE ""
TargetIsValid(raw) == raw.given => raw.kept # "" /\ ~raw.tooLong

RequestOf(c) ==
  [actionId |-> AskedOf[c].action,
   target   |-> SanitizeTarget(AskedOf[c].raw),
   platform |-> Platform]

ValidateAction(a) == Platform \in Definition[a].platforms /\ Definition[a].level # "forbidden"

Accepted(c) ==
  LET a == AskedOf[c].action
  IN /\ AskedOf[c].goodKey
     /\ a \in Action
     /\ Definition[a].level \in Level \ {"forbidden"}
     /\ TargetIsValid(AskedOf[c].raw)
     /\ ValidateAction(a)

\* Mutant: the user is asked when there is somebody to ask.
AsksIfItCan(c) == Definition[AskedOf[c].action].level = "confirm" /\ AskedOf[c].prompt

RequiresAuth(c) == Definition[AskedOf[c].action].level = "confirm"
Prerequisites(c) == Definition[AskedOf[c].action].prerequisites

\* Mutant: privileges are looked up among the installed tools' names only.
CheckToolsOnly(c, privileges) == (Prerequisites(c) \cap Tool) \subseteq seen[c]

CheckPrerequisites(c, privileges) ==
  /\ (Prerequisites(c) \cap Tool) \subseteq seen[c]
  /\ (Prerequisites(c) \cap Privilege) \subseteq privileges

-----------------------------------------------------------------------------
(* AuthorizationStore. *)

\* Mutant: the token is not bound to the request.
IssuedUnbound(request) == [state |-> "issued", request |-> Absent, expires |-> now + TTL]

Issued(request) == [state |-> "issued", request |-> request, expires |-> now + TTL]

Expired(t) == now > tokens[t].expires

\* Mutant: a token that is claimed or consumed can be claimed again.
ClaimsAgain(t, request) ==
  tokens[t] # Absent /\ ~Expired(t) /\ tokens[t].request = request

Claims(t, request) ==
  /\ tokens[t] # Absent
  /\ ~Expired(t)
  /\ tokens[t].state = "issued"
  /\ tokens[t].request = request

\* The store after a claim: expiry is looked at before the state.
AfterClaim(t, request) ==
  IF tokens[t] = Absent THEN tokens
  ELSE IF Expired(t) THEN [tokens EXCEPT ![t].state = "expired"]
  ELSE IF Claims(t, request) THEN [tokens EXCEPT ![t].state = "claimed"]
  ELSE tokens

Grants(t, request) ==
  grants' = IF Claims(t, request)
              THEN [grants EXCEPT ![t] = Append(@, [request |-> request, at |-> now])]
              ELSE grants

AfterConsume(t) ==
  IF tokens[t] # Absent /\ tokens[t].state = "claimed"
    THEN [tokens EXCEPT ![t].state = "consumed"]
    ELSE tokens

AfterExpireStale ==
  [t \in Token |-> IF tokens[t] # Absent /\ tokens[t].state = "issued" /\ Expired(t)
                     THEN [tokens[t] EXCEPT !.state = "expired"] ELSE tokens[t]]

AfterCleanup ==
  [t \in Token |-> IF tokens[t] # Absent /\ tokens[t].state \in {"consumed", "expired"}
                     THEN Absent ELSE tokens[t]]

-----------------------------------------------------------------------------
(* ActionExecutionStore. *)

Started(c) == [records EXCEPT ![c] = "started"]
Ended(c, s) == [records EXCEPT ![c] = IF @ = "started" THEN s ELSE @]
AfterRecoverUnknowns == [c \in Call |-> IF records[c] = "started" THEN "unknown" ELSE records[c]]

-----------------------------------------------------------------------------
(* The steps of a call. *)

\* No call is between two awaits.
EventLoopFree == \A c \in Call : pc[c] # "issued"

GoTo(c, p) == pc' = [pc EXCEPT ![c] = p]

\* Steps 0 to 4, up to the await of capabilities().
Enter(c) ==
  /\ pc[c] = "new" /\ EventLoopFree
  /\ GoTo(c, IF Accepted(c) THEN "caps" ELSE "done")
  /\ held' = [held EXCEPT ![c] = offers]
  /\ UNCHANGED <<now, offers, changes, seen, storeVars, born, grants, consented>>

Capabilities(c) ==
  /\ pc[c] = "caps" /\ EventLoopFree
  /\ GoTo(c, "system")
  /\ seen' = [seen EXCEPT ![c] = offers \cap Tool]
  /\ UNCHANGED <<now, offers, changes, storeVars, ghostVars>>

\* Step 5 and what follows it up to the prompt or the executor.
SystemInfo(c) ==
  /\ pc[c] = "system" /\ EventLoopFree
  /\ IF ~CheckPrerequisites(c, offers \cap Privilege) \/ (RequiresAuth(c) /\ ~AskedOf[c].prompt)
       THEN GoTo(c, "done") /\ UNCHANGED records
       ELSE IF RequiresAuth(c) THEN GoTo(c, "ask") /\ UNCHANGED records
       ELSE GoTo(c, "run") /\ records' = Started(c)
  /\ UNCHANGED <<now, offers, changes, seen, tokens, ghostVars>>

\* The answer is none of sí, si and y, in either case of letters.
UserDeclines(c) ==
  /\ pc[c] = "ask" /\ EventLoopFree
  /\ GoTo(c, "done")
  /\ UNCHANGED <<now, offers, changes, seen, storeVars, ghostVars>>

UserAgrees(c) ==
  /\ pc[c] = "ask" /\ EventLoopFree
  /\ GoTo(c, "issued")
  /\ tokens' = [tokens EXCEPT ![c] = Issued(RequestOf(c))]
  /\ born' = [born EXCEPT ![c] = now]
  /\ consented' = consented \cup {c}
  /\ UNCHANGED <<now, offers, changes, seen, records, held, grants>>

\* Steps 8 and 9: in the same run of the event loop as the issue.
ClaimToken(c) ==
  /\ pc[c] = "issued"
  /\ tokens' = AfterClaim(c, RequestOf(c))
  /\ Grants(c, RequestOf(c))
  /\ IF Claims(c, RequestOf(c))
       THEN GoTo(c, "run") /\ records' = Started(c)
       ELSE GoTo(c, "done") /\ UNCHANGED records
  /\ UNCHANGED <<now, offers, changes, seen, held, born, consented>>

\* Steps 9.5 to 13; every way out of them consumes the token.
Finish(c, s) ==
  /\ pc[c] = "run" /\ EventLoopFree
  /\ GoTo(c, "done")
  /\ records' = Ended(c, s)
  /\ tokens' = IF RequiresAuth(c) THEN AfterConsume(c) ELSE tokens
  /\ UNCHANGED <<now, offers, changes, seen, ghostVars>>

-----------------------------------------------------------------------------
(* Other holders of the stores, the clock and the machine. *)

\* AuthorizationStore.issue, called beside the gate.
GuestIssues(t) ==
  /\ EventLoopFree
  /\ born[t] = MaxTime + 1
  /\ tokens' = [tokens EXCEPT ![t] = Issued(GuestAsks[t])]
  /\ born' = [born EXCEPT ![t] = now]
  /\ UNCHANGED <<pc, now, offers, changes, seen, records, held, grants, consented>>

\* AuthorizationStore.claim of any token for any request.
GuestClaims(t, request) ==
  /\ EventLoopFree
  /\ tokens' = AfterClaim(t, request)
  /\ Grants(t, request)
  /\ UNCHANGED <<pc, now, offers, changes, seen, records, held, born, consented>>

\* AuthorizationStore.consume of a token of its own.
GuestConsumes(t) ==
  /\ EventLoopFree
  /\ tokens' = AfterConsume(t)
  /\ UNCHANGED <<pc, now, offers, changes, seen, records, ghostVars>>

ExpireStale ==
  /\ EventLoopFree
  /\ tokens' = AfterExpireStale
  /\ UNCHANGED <<pc, now, offers, changes, seen, records, ghostVars>>

Cleanup ==
  /\ EventLoopFree
  /\ tokens' = AfterCleanup
  /\ UNCHANGED <<pc, now, offers, changes, seen, records, ghostVars>>

RecoverUnknowns ==
  /\ EventLoopFree
  /\ records' = AfterRecoverUnknowns
  /\ UNCHANGED <<pc, now, offers, changes, seen, tokens, ghostVars>>

Tick ==
  /\ now < MaxTime
  /\ now' = now + 1
  /\ UNCHANGED <<pc, offers, changes, seen, storeVars, ghostVars>>

\* A tool is installed or removed, a privilege granted or lost.
MachineChanges(x) ==
  /\ changes < MaxChanges
  /\ changes' = changes + 1
  /\ offers' = IF x \in offers THEN offers \ {x} ELSE offers \cup {x}
  /\ held' = [c \in Call |-> IF pc[c] \in {"new", "done"} THEN held[c] ELSE held[c] \cup offers']
  /\ UNCHANGED <<pc, now, seen, storeVars, born, grants, consented>>

-----------------------------------------------------------------------------
Init ==
  /\ pc = [c \in Call |-> "new"]
  /\ now = 0
  /\ offers \in SUBSET (Tool \cup Privilege)
  /\ changes = 0
  /\ seen = [c \in Call |-> {}]
  /\ tokens = [t \in Token |-> Absent]
  /\ records = [c \in Call |-> "none"]
  /\ held = [c \in Call |-> {}]
  /\ born = [t \in Token |-> MaxTime + 1]
  /\ grants = [t \in Token |-> <<>>]
  /\ consented = {}

Requests == {RequestOf(c) : c \in Call} \cup {GuestAsks[t] : t \in Guest}

CallStep(c) ==
  \/ Enter(c) \/ Capabilities(c) \/ SystemInfo(c)
  \/ UserDeclines(c) \/ UserAgrees(c) \/ ClaimToken(c)
  \/ \E s \in {"completed", "failed"} : Finish(c, s)

Next ==
  \/ \E c \in Call : CallStep(c)
  \/ \E t \in Guest : GuestIssues(t) \/ GuestConsumes(t)
  \/ \E t \in Token, r \in Requests : GuestClaims(t, r)
  \/ ExpireStale \/ Cleanup \/ RecoverUnknowns
  \/ Tick
  \/ \E x \in Tool \cup Privilege : MachineChanges(x)

Spec == Init /\ [][Next]_vars

-----------------------------------------------------------------------------
StoredToken ==
  {Absent} \cup [state : TokenState, request : Requests, expires : Nat]

\* Every variable keeps its type: the stores of AuthorizationStore and
\* ActionExecutionStore, and the place of each call of execute.
TypeOK ==
  /\ pc \in [Call -> Place]
  /\ now \in 0 .. MaxTime
  /\ offers \subseteq Tool \cup Privilege
  /\ changes \in 0 .. MaxChanges
  /\ seen \in [Call -> SUBSET Tool]
  /\ tokens \in [Token -> StoredToken]
  /\ records \in [Call -> {"none"} \cup RecordState]
  /\ held \in [Call -> SUBSET (Tool \cup Privilege)]
  /\ born \in [Token -> 0 .. MaxTime + 1]
  /\ grants \in [Token -> Seq([request : Requests, at : Nat])]
  /\ consented \subseteq Call

\* A token lets one claim through in its life, however claims, expiry, consume
\* and cleanup follow one another, for the request it was issued for and within
\* its time to live (authorization-store.ts:64-87, "single-use").
GrantsAreBound ==
  \A t \in Token :
    /\ Len(grants[t]) <= 1
    /\ \A n \in DOMAIN grants[t] :
         /\ grants[t][n].request = IF t \in Call THEN RequestOf(t) ELSE GuestAsks[t]
         /\ grants[t][n].at <= born[t] + TTL

\* An action with level confirm is started only by the call whose own user said
\* yes, with a claim of that call's token (action-gate.ts:167-195); and each
\* prerequisite of what is started was there at some time between the call and the
\* start: the gate looks before the prompt and does not look again.
StartsAreJustified ==
  \A c \in Call : records[c] # "none" =>
    /\ Definition[AskedOf[c].action].level = "confirm" => c \in consented /\ grants[c] # <<>>
    /\ Prerequisites(c) \subseteq held[c]

=============================================================================
