----------------------- MODULE TokenRefreshInvariant -----------------------
(***************************************************************************)
(* The inductive invariants behind the safety of TokenRefresh: one for the *)
(* times of access tokens, one for the refresh tokens of a provider that   *)
(* rotates them, one for those of a provider that does not.                *)
(***************************************************************************)
EXTENDS TokenRefresh

(* What TypeOK leaves open: a call under way is of a client that was built. *)
Typed ==
  /\ TypeOK
  /\ \A p \in Calls : call[p].stage # "idle" => call[p].client \in Clients

(* What is under way has begun at most Delay ago. *)
InTime ==
  /\ \A p \in Calls : call[p].stage # "idle" => call[p].at <= clock /\ clock <= call[p].at + Delay
  /\ \A w \in writes : w.at <= clock /\ clock <= w.at + Delay

(* Clients that refresh ahead: the expiry they know is at most Delay late, and the token *)
(* of a call that goes out was checked, or has come since, so it outlives the call.      *)
Sound(t) == t.expiresAt <= t.until + Delay
Outlives(p) == Held(call[p].client, call[p].holder).until + Delay >= call[p].at + Threshold
AccessKept ==
  policy.due = "early" =>
    /\ Sound(stored) /\ \A w \in writes : Sound(w.tokens)
    /\ \A x \in Clients : Sound(client[x].creds) /\ Sound(client[x].api)
    /\ \A p \in Calls : call[p].stage = "granted" => call[p].got.until >= call[p].at + Lifetime
    /\ \A p \in Calls : call[p].stage = "ready" => Outlives(p)

Asking(p) == call[p].stage = "asking"
Granted(p) == call[p].stage = "granted"
Carried(w) == w.tokens.refresh

(* A provider that keeps refresh tokens, until the customer does something: one token, *)
(* wherever there is any.                                                              *)
FirstGrant ==
  ~rotates /\ grants = 0 =>
    /\ accepted = {1} /\ stored.refresh = 1
    /\ \A x \in Clients : client[x].built => client[x].creds.refresh = 1
    /\ \A w \in writes : Carried(w) \in {0, 1} /\ (w.stage = "read" => Carried(w) = 1)
    /\ \A p \in Calls : /\ call[p].stage # "refused"
                        /\ Asking(p) => call[p].asked = 1
                        /\ Granted(p) => call[p].got.refresh \in {0, 1}

(* Such a provider keeps the token of the row, and of every write, until the grant goes. *)
RowKept ==
  ~rotates /\ ~Revoked =>
    /\ stored.refresh \in accepted
    /\ \A w \in writes : Carried(w) \in accepted \/ (Carried(w) = 0 /\ w.stage = "new")
    /\ \A p \in Calls : Granted(p) => call[p].got.refresh \in accepted \cup {0}

(* The rest is about a provider that replaces the token it is shown.  That works because *)
(* its clients know when an access token expires and ask for no other much earlier: the  *)
(* write of an answer has landed when its own refresh token is shown for the first time. *)
RotatesByTheClock == \A q \in Rotating : q.records /\ q.due \in {"early", "expired"}

IssuedBefore ==
  /\ stored.refresh <= issued
  /\ \A x \in Clients : client[x].creds.refresh <= issued
  /\ \A w \in writes : Carried(w) <= issued
  /\ \A p \in Calls : call[p].asked <= issued /\ call[p].got.refresh <= issued

(* An answer is new to everybody, and a write is new to the row and to other writes. *)
AnswersAreNew ==
  \A p \in Calls : Granted(p) =>
    /\ call[p].got.refresh \notin {0, stored.refresh}
    /\ \A w \in writes : call[p].got.refresh # Carried(w)
    /\ \A x \in Clients : call[p].got.refresh # client[x].creds.refresh
    /\ \A q \in Calls : /\ Asking(q) => call[p].got.refresh # call[q].asked
                        /\ Granted(q) /\ q # p => call[p].got.refresh # call[q].got.refresh
WritesAreNew ==
  /\ \A w \in writes : Carried(w) \notin {0, stored.refresh}
  /\ \A v, w \in writes : Carried(v) = Carried(w) => v = w

(* No token dies on its way to the row ... *)
FlightsAlive ==
  ~Revoked => /\ \A w \in writes : Carried(w) \in accepted
              /\ \A p \in Calls : Granted(p) => call[p].got.refresh \in accepted

(* ... because who holds it has no reason to show it yet. *)
NotShownYet ==
  \A w \in writes :
    /\ \A x \in Clients : client[x].built /\ client[x].creds.refresh = Carried(w) =>
         client[x].creds.expiresAt >= w.at + Lifetime
    /\ \A p \in Calls : Asking(p) /\ call[p].asked \in accepted => call[p].asked # Carried(w)

(* A client whose token is used up has had its one answer, or its inner client has. *)
OneAnswerEach ==
  /\ \A x \in Clients : ~client[x].shared => client[x].creds.refresh \notin accepted
  /\ \A p \in Calls : Granted(p) =>
       /\ client[call[p].client].creds.refresh \notin accepted
       /\ client[call[p].client].shared
       /\ \A q \in Calls : Granted(q) /\ call[q].client = call[p].client => q = p
  /\ \A p \in Calls : Asking(p) /\ call[p].asked \in accepted =>
       call[p].asked = client[call[p].client].creds.refresh

Rotation ==
  rotates =>
    /\ policy \in Rotating
    /\ IssuedBefore /\ AnswersAreNew /\ WritesAreNew /\ FlightsAlive /\ NotShownYet /\ OneAnswerEach
    /\ NeverStranded

=============================================================================
