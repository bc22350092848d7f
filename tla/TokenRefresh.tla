---------------------------- MODULE TokenRefresh ----------------------------
(***************************************************************************)
(* The OAuth tokens of one connection: the row in Postgres, the remote     *)
(* clients that were built from it and keep a copy, the provider that      *)
(* issues tokens, and the writes that carry a client's new tokens back to  *)
(* the row after an event nobody waits for.                                *)
(*                                                                         *)
(* A refresh token is a number, and so is each answer of the provider.  A  *)
(* client serves one request or activity and makes several calls, some of  *)
(* them at once.  What a call does with its access token is left out.      *)
(***************************************************************************)
EXTENDS Naturals, FiniteSets

CONSTANTS
  Clients,        \* remote clients alive at once, in any process
  Calls,          \* calls under way at once, of one client or of several
  Policies,       \* the refresh policies of the providers of this instance
  Rotating,       \* those whose provider may replace a refresh token when it is used
  Lifetime,       \* how long the provider accepts an access token
  Threshold,      \* REFRESH_TOKEN_THRESHOLD_MS
  Delay,          \* the longest a request, the use of a token or a write of tokens takes
  MaxClock, MaxIssued, MaxGrants  \* bounds

ASSUME TokenConstants ==
  /\ Lifetime \in Nat /\ Threshold \in Nat /\ Delay \in Nat
  /\ Threshold > 2 * Delay /\ Lifetime >= Threshold + 2 * Delay
  /\ MaxClock \in Nat /\ MaxIssued \in Nat /\ MaxGrants \in Nat

(* What a remote client does about its tokens: when it asks for new ones ("early",      *)
(* "expired", "rejected" by the provider, or on "every" call), whether the answer also  *)
(* holds a refresh token, whether it records the true expiry, whether it has a second      *)
(* client inside with tokens of its own, one that can refresh them or one that only fails, *)
(* and whether some of its calls send the token it has without looking at it.              *)
Policy == [due : {"early", "expired", "rejected", "every"}, returns : BOOLEAN,
           records : BOOLEAN, inner : {"none", "works", "fails"}, unchecked : BOOLEAN]

Usual == [due |-> "early", returns |-> TRUE, records |-> TRUE, inner |-> "none",
          unchecked |-> FALSE]
Pipedrive == Usual
(* A user read back. *)
Hubspot == [Usual EXCEPT !.unchecked = TRUE]
(* Passthrough requests. *)
Gong == [Usual EXCEPT !.unchecked = TRUE]
(* Any record read back but a sequence, and of a sequence the count of its steps. *)
Salesloft == [Usual EXCEPT !.inner = "works", !.unchecked = TRUE]
(* The inner client asks at a path without a host. *)
Outreach == [Usual EXCEPT !.inner = "fails"]
(* Passthrough requests. *)
MsDynamics == [Usual EXCEPT !.due = "expired", !.unchecked = TRUE]
(* The access token is tried first, but for passthrough requests. *)
Salesforce == [Usual EXCEPT !.due = "rejected", !.returns = FALSE, !.records = FALSE]
(* The code relies on a refresh token in each answer. *)
Pardot == [Usual EXCEPT !.due = "every", !.records = FALSE]
(* Client credentials in the place of a refresh token; expires_in is read as milliseconds. *)
Marketo == [Usual EXCEPT !.returns = FALSE, !.records = FALSE]

ASSUME PolicyConstants ==
  /\ Rotating \subseteq Policies /\ Policies \subseteq Policy
  /\ \A q \in Rotating : q.returns

(* until: the time the provider stops accepting the access token; expiresAt: the *)
(* time recorded for that, 0 when it is null.                                    *)
Tokens == [refresh : Nat, until : Nat, expiresAt : Nat]
NoTokens == [refresh |-> 0, until |-> 0, expiresAt |-> 0]

Client == [built : BOOLEAN, creds : Tokens, api : Tokens, shared : BOOLEAN]
NoClient == [built |-> FALSE, creds |-> NoTokens, api |-> NoTokens, shared |-> TRUE]

Call == [stage : {"idle", "asking", "granted", "refused", "ready", "unchecked"},
         client : Clients \cup {"none"}, holder : {"own", "api"}, asked : Nat, got : Tokens, at : Nat]
NoCall == [stage |-> "idle", client |-> "none", holder |-> "own",
           asked |-> 0, got |-> NoTokens, at |-> 0]

(* A write on its way to the row: refresh is 0 while it is undefined. *)
Write == [id : Nat, stage : {"new", "read"}, tokens : Tokens, at : Nat]

VARIABLES
  policy, rotates, \* of the provider, chosen once
  clock,
  accepted,   \* the refresh tokens the provider accepts
  issued,     \* the number of its answers so far
  stored,     \* the credentials in the connection's row
  client,     \* Clients -> the client and the tokens it holds
  call,       \* Calls -> where the call is
  writes,     \* runs of updateConnectionWithNewTokens under way
  lost,       \* history: an answer or a write of this grant was lost to a crash or an error
  grants      \* the times the customer has withdrawn the grant or connected again

provider == <<accepted, issued>>
ends == <<policy, rotates, grants>>
vars == <<clock, provider, stored, client, call, writes, lost, ends>>

Init ==
  /\ policy \in Policies
  /\ rotates \in BOOLEAN /\ (rotates => policy \in Rotating)
  /\ clock = 1 /\ accepted = {1} /\ issued = 1
  /\ stored = [refresh |-> 1, until |-> 1 + Threshold,
               expiresAt |-> IF policy.records THEN 1 + Threshold ELSE 0]
  /\ client = [x \in Clients |-> NoClient]
  /\ call = [p \in Calls |-> NoCall]
  /\ writes = {} /\ lost = FALSE /\ grants = 0

-----------------------------------------------------------------------------
(* Time, the customer, the network *)

(* What is under way is over within the delay. *)
Tick ==
  /\ clock < MaxClock
  /\ \A p \in Calls : call[p].stage # "idle" => clock < call[p].at + Delay
  /\ \A w \in writes : clock < w.at + Delay
  /\ clock' = clock + 1
  /\ UNCHANGED <<provider, stored, client, call, writes, lost, ends>>

Revoke ==
  /\ accepted # {} /\ grants < MaxGrants
  /\ accepted' = {} /\ grants' = grants + 1
  /\ UNCHANGED <<policy, rotates, clock, issued, stored, client, call, writes, lost>>

(* The OAuth callback: the row is there already, so the upsert replaces its credentials. *)
(* A person takes longer than what is under way when the grant is given.                *)
Reconnect ==
  LET n == issued + 1
  IN /\ grants < MaxGrants /\ issued < MaxIssued
     /\ writes = {} /\ \A p \in Calls : call[p].stage \notin {"asking", "granted"}
     /\ grants' = grants + 1 /\ issued' = n
     /\ accepted' = accepted \cup {n}
     /\ stored' = [refresh |-> n, until |-> clock + Lifetime,
                   expiresAt |-> IF policy.records THEN clock + Lifetime ELSE 0]
     /\ lost' = FALSE
     /\ UNCHANGED <<policy, rotates, clock, client, call, writes>>

Revoked == accepted = {}
Lose == ~lost /\ lost' = TRUE

-----------------------------------------------------------------------------
(* Remote clients *)

(* getRemoteClient: a new client copies the credentials of the row. Its inner client, if *)
(* it has one, is given the same object.                                                 *)
Build(x) ==
  /\ \A p \in Calls : call[p].stage = "idle" \/ call[p].client # x
  /\ client' = [client EXCEPT ![x] = [built |-> TRUE, creds |-> stored, api |-> NoTokens,
                                      shared |-> TRUE]]
  /\ UNCHANGED <<clock, provider, stored, call, writes, lost, ends>>

Held(x, holder) ==
  IF holder = "own" \/ client[x].shared THEN client[x].creds ELSE client[x].api

(* Wrong: a token is good until it has expired. *)
DueWhenExpired(t) ==
  \/ policy.due = "every"
  \/ policy.due \in {"early", "expired"} /\ (t.expiresAt = 0 \/ t.expiresAt <= clock)
  \/ policy.due = "rejected" /\ t.until <= clock

Due(t) ==
  \/ policy.due = "every"
  \/ policy.due = "early" /\ (t.expiresAt = 0 \/ t.expiresAt < clock + Threshold)
  \/ policy.due = "expired" /\ t.expiresAt <= clock
  \/ policy.due = "rejected" /\ t.until <= clock

(* Both holders ask with the refresh token of the outer one. *)
Ask(p, x, holder) ==
  call' = [call EXCEPT ![p] = [NoCall EXCEPT !.stage = "asking", !.client = x,
             !.holder = holder, !.asked = client[x].creds.refresh, !.at = clock]]

(* A call goes out with the access token that is there. *)
Send(p, x, holder, stage) ==
  call' = [call EXCEPT ![p] = [NoCall EXCEPT !.stage = stage, !.client = x, !.holder = holder,
                                             !.at = clock]]

(* maybeRefreshAccessToken of the client or its openapi middleware, and the call. *)
Begin(p, x, holder) ==
  /\ client[x].built /\ call[p].stage = "idle"
  /\ holder = "api" => policy.inner # "none"
  /\ IF Due(Held(x, holder))
     THEN Ask(p, x, holder) /\ (holder = "api" => policy.inner = "works")
     ELSE Send(p, x, holder, "ready")
  /\ UNCHANGED <<clock, provider, stored, client, writes, lost, ends>>

(* A call of a function that does not come by maybeRefreshAccessToken. *)
BeginUnchecked(p, x) ==
  /\ client[x].built /\ call[p].stage = "idle" /\ policy.unchecked
  /\ Send(p, x, "own", "unchecked")
  /\ UNCHANGED <<clock, provider, stored, client, writes, lost, ends>>

(* A passthrough request to Salesforce asks first. *)
BeginPassthrough(p, x) ==
  /\ client[x].built /\ call[p].stage = "idle" /\ policy.due = "rejected"
  /\ Ask(p, x, "own")
  /\ UNCHANGED <<clock, provider, stored, client, writes, lost, ends>>

(* The provider answers: with a new refresh token in the place of the one it was shown *)
(* if it rotates them, and otherwise with the same one or none.                        *)
Grant(p) ==
  LET n == issued + 1
      refresh == IF rotates THEN n ELSE call[p].asked
  IN /\ call[p].stage = "asking" /\ call[p].asked \in accepted
     /\ issued < MaxIssued
     /\ issued' = n
     /\ accepted' = IF rotates THEN (accepted \ {call[p].asked}) \cup {n} ELSE accepted
     /\ call' = [call EXCEPT ![p].stage = "granted", ![p].asked = 0,
                             ![p].got = [refresh |-> IF policy.returns THEN refresh ELSE 0,
                                         until |-> clock + Lifetime, expiresAt |-> 0]]
     /\ UNCHANGED <<clock, stored, client, writes, lost, ends>>

Refuse(p) ==
  /\ call[p].stage = "asking" /\ call[p].asked \notin accepted
  /\ call' = [call EXCEPT ![p].stage = "refused"]
  /\ UNCHANGED <<clock, provider, stored, client, writes, lost, ends>>

(* The provider cannot be reached. *)
Fail(p) ==
  /\ call[p].stage = "asking"
  /\ call' = [call EXCEPT ![p] = NoCall]
  /\ UNCHANGED <<clock, provider, stored, client, writes, lost, ends>>

Adopt(held, got) == [got EXCEPT !.refresh = IF @ = 0 THEN held.refresh ELSE @]

(* Wrong: the event carries the refresh token only. *)
NewWriteOfRefresh(got) == [id |-> issued, stage |-> "new", tokens |-> [refresh |-> got.refresh],
                           at |-> clock]

NewWrite(got) == [id |-> issued, stage |-> "new", tokens |-> got, at |-> clock]

(* The answer says how long the token lasts, and the time is counted from its arrival. *)
Dated(got) ==
  [got EXCEPT !.expiresAt = IF policy.records THEN clock + Lifetime
                            ELSE IF policy.due = "early" THEN clock ELSE 0]

(* Wrong: the event is emitted by one of the two holders only. *)
ReceiveWithoutEvent(p) ==
  LET x == call[p].client
      got == Dated(call[p].got)
  IN /\ call[p].stage = "granted"
     /\ call' = [call EXCEPT ![p].stage = "ready", ![p].got = NoTokens, ![p].at = clock]
     /\ IF call[p].holder = "own"
        THEN /\ client' = [client EXCEPT ![x].creds = Adopt(@, got)]
             /\ writes' = writes \cup {NewWrite(got)}
        ELSE /\ client' = [client EXCEPT ![x].api = got, ![x].shared = FALSE]
             /\ UNCHANGED writes
     /\ UNCHANGED <<clock, provider, stored, lost, ends>>

(* The holder that asked keeps the answer, and emits token_refreshed. The inner client  *)
(* has a variable of its own, which from now on is no longer the outer one's object.    *)
Receive(p) ==
  LET x == call[p].client
      got == Dated(call[p].got)
  IN /\ call[p].stage = "granted"
     /\ call' = [call EXCEPT ![p].stage = "ready", ![p].got = NoTokens, ![p].at = clock]
     /\ client' = IF call[p].holder = "own"
                  THEN [client EXCEPT ![x].creds = Adopt(@, got)]
                  ELSE [client EXCEPT ![x].api = got, ![x].shared = FALSE]
     /\ writes' = writes \cup {NewWrite(got)}
     /\ UNCHANGED <<clock, provider, stored, lost, ends>>

(* The request fails or the process dies after the provider has answered. *)
LoseAnswer(p) ==
  /\ call[p].stage = "granted" /\ Lose
  /\ call' = [call EXCEPT ![p] = NoCall]
  /\ UNCHANGED <<clock, provider, stored, client, writes, ends>>

Finish(p) ==
  /\ call[p].stage \in {"ready", "refused", "unchecked"}
  /\ call' = [call EXCEPT ![p] = NoCall]
  /\ UNCHANGED <<clock, provider, stored, client, writes, lost, ends>>

-----------------------------------------------------------------------------
(* updateConnectionWithNewTokens *)

(* Wrong: an answer without a refresh token clears the stored one. *)
ReadRowAndForget(w) ==
  /\ w.stage = "new"
  /\ writes' = (writes \ {w}) \cup {[w EXCEPT !.stage = "read"]}
  /\ UNCHANGED <<clock, provider, stored, client, call, lost, ends>>

(* It reads the row, for the refresh token if it was not given one ... *)
ReadRow(w) ==
  /\ w.stage = "new"
  /\ writes' = (writes \ {w}) \cup
       {[w EXCEPT !.stage = "read", !.tokens = Adopt(stored, w.tokens)]}
  /\ UNCHANGED <<clock, provider, stored, client, call, lost, ends>>

(* ... and writes what it has, whatever the row holds by then ... *)
UpdateRow(w) ==
  /\ w.stage = "read"
  /\ stored' = w.tokens
  /\ writes' = writes \ {w}
  /\ UNCHANGED <<clock, provider, client, call, lost, ends>>

(* ... or fails, after its retries or with its process, and nobody is told. *)
LoseWrite(w) ==
  /\ w \in writes /\ Lose
  /\ writes' = writes \ {w}
  /\ UNCHANGED <<clock, provider, stored, client, call, ends>>

-----------------------------------------------------------------------------
CallStep(p) == Grant(p) \/ Refuse(p) \/ Fail(p) \/ Receive(p) \/ Finish(p)
WriteStep == \E w \in writes : ReadRow(w) \/ UpdateRow(w)

Next ==
  \/ Tick \/ Revoke \/ Reconnect
  \/ \E x \in Clients : Build(x)
  \/ \E p \in Calls :
       \/ \E x \in Clients : \/ \E holder \in {"own", "api"} : Begin(p, x, holder)
                             \/ BeginUnchecked(p, x) \/ BeginPassthrough(p, x)
       \/ CallStep(p) \/ LoseAnswer(p)
  \/ WriteStep
  \/ \E w \in writes : LoseWrite(w)

Spec == Init /\ [][Next]_vars

-----------------------------------------------------------------------------
(* Properties *)

(* Every variable keeps its type, and the provider accepts only tokens it has issued. *)
TypeOK ==
  /\ policy \in Policy /\ rotates \in BOOLEAN /\ clock \in Nat
  /\ accepted \subseteq 1..issued /\ issued \in Nat
  /\ stored \in Tokens
  /\ client \in [Clients -> Client]
  /\ call \in [Calls -> Call]
  /\ \A w \in writes : w \in Write
  /\ lost \in BOOLEAN /\ grants \in Nat

(* The connection is never stranded: as long as the grant stands and nothing was lost, a *)
(* refresh token the provider accepts is in the row or on its way to it, through every   *)
(* rotation, every refresh of several clients at once, and every reconnection.           *)
Usable(n) == n \in accepted
NeverStranded ==
  ~Revoked /\ ~lost =>
    \/ Usable(stored.refresh)
    \/ \E w \in writes : Usable(w.tokens.refresh)
    \/ \E p \in Calls : call[p].stage = "granted" /\ Usable(call[p].got.refresh)

(* A call that goes out after a look at its token carries one the provider still takes, for *)
(* clients that refresh ahead of the expiry they have recorded: the threshold covers the    *)
(* time between check and use, in whichever holder the token is.  Nothing of the kind holds *)
(* of the calls that go out unchecked.                                                      *)
AccessIsLive ==
  \A p \in Calls :
    call[p].stage = "ready" /\ policy.due = "early" =>
      Held(call[p].client, call[p].holder).until > clock

(* If the provider does not rotate refresh tokens, nobody is refused while the grant that *)
(* the client was built from stands: a refused call means that the customer withdrew it.  *)
RefusedOnlyIfWithdrawn ==
  ~rotates /\ grants = 0 /\ ~Revoked => \A p \in Calls : call[p].stage # "refused"

=============================================================================
