------------------------- MODULE TokenRefreshProofs -------------------------
(* Proofs about the tokens of a connection, for any number of clients and calls, any mix *)
(* of policies and any times that keep TokenConstants.                                   *)
EXTENDS TokenRefreshInvariant, TLAPS

-----------------------------------------------------------------------------
(* Types *)

LEMMA DatedIsTokens == ASSUME clock \in Nat, NEW t \in Tokens PROVE Dated(t) \in Tokens
BY TokenConstants DEF Dated, Tokens

LEMMA AdoptIsTokens == ASSUME NEW s \in Tokens, NEW t \in Tokens PROVE Adopt(s, t) \in Tokens
BY DEF Adopt, Tokens

LEMMA InitTyped == Init => Typed
<1> SUFFICES ASSUME Init PROVE Typed
  OBVIOUS
<1>1. policy \in Policy /\ rotates \in BOOLEAN /\ clock = 1 /\ issued = 1 /\ accepted = {1}
  BY PolicyConstants DEF Init
<1>2. stored \in Tokens
  BY TokenConstants DEF Init, Tokens
<1>3. client \in [Clients -> Client]
  BY DEF Init, Client, NoClient, Tokens, NoTokens
<1>4. call \in [Calls -> Call] /\ \A p \in Calls : call[p].stage = "idle"
  BY DEF Init, Call, NoCall, Tokens, NoTokens
<1>5. accepted \subseteq 1..issued
  BY <1>1
<1>6. writes = {} /\ lost = FALSE /\ grants = 0
  BY DEF Init
<1> QED
  BY <1>1, <1>2, <1>3, <1>4, <1>5, <1>6 DEF Typed, TypeOK

LEMMA BeginTyped ==
  ASSUME Typed, NEW p \in Calls, NEW x \in Clients, NEW holder \in {"own", "api"},
         Begin(p, x, holder) \/ BeginUnchecked(p, x) \/ BeginPassthrough(p, x)
  PROVE Typed'
<1> USE DEF Typed, TypeOK
<1>1. UNCHANGED <<clock, provider, stored, client, writes, lost, ends>>
  BY DEF Begin, BeginUnchecked, BeginPassthrough
<1>2. PICK c \in Call : c.client \in Clients /\ call' = [call EXCEPT ![p] = c]
  <2>1. client[x].creds.refresh \in Nat /\ NoTokens \in Tokens
    BY DEF Client, Tokens, NoTokens
  <2>2. ASSUME NEW h \in {"own", "api"}, Ask(p, x, h)
        PROVE  \E c \in Call : c.client \in Clients /\ call' = [call EXCEPT ![p] = c]
    <3> DEFINE c == [NoCall EXCEPT !.stage = "asking", !.client = x, !.holder = h,
                                   !.asked = client[x].creds.refresh, !.at = clock]
    <3>1. c \in Call /\ c.client \in Clients
      BY <2>1 DEF NoCall, Call
    <3>2. call' = [call EXCEPT ![p] = c]
      BY <2>2 DEF Ask
    <3> QED
      BY <3>1, <3>2
  <2>3. ASSUME NEW h \in {"own", "api"}, NEW s \in {"ready", "unchecked"}, Send(p, x, h, s)
        PROVE  \E c \in Call : c.client \in Clients /\ call' = [call EXCEPT ![p] = c]
    <3> DEFINE c == [NoCall EXCEPT !.stage = s, !.client = x, !.holder = h, !.at = clock]
    <3>1. c \in Call /\ c.client \in Clients
      BY <2>1 DEF NoCall, Call
    <3>2. call' = [call EXCEPT ![p] = c]
      BY <2>3 DEF Send
    <3> QED
      BY <3>1, <3>2
  <2> QED
    BY <2>2, <2>3 DEF Begin, BeginUnchecked, BeginPassthrough
<1>4. call' \in [Calls -> Call]
  BY <1>2
<1> QED
  BY <1>1, <1>2, <1>4 DEF provider, ends

LEMMA CallStepTyped ==
  ASSUME Typed, NEW p \in Calls, CallStep(p) \/ LoseAnswer(p)
  PROVE Typed'
<1> USE DEF Typed, TypeOK
<1>1. call[p] \in Call /\ NoCall \in Call
  BY DEF Call, NoCall, Tokens, NoTokens
<1>2. CASE Grant(p)
  BY <1>1, <1>2, TokenConstants DEF Grant, Call, Tokens, ends, Write
<1>3. CASE Refuse(p)
  BY <1>1, <1>3 DEF Refuse, Call, provider, ends, Write
<1>4. CASE Fail(p) \/ Finish(p) \/ LoseAnswer(p)
  BY <1>1, <1>4 DEF Fail, Finish, LoseAnswer, Lose, Call, NoCall, provider, ends, Write
<1>5. CASE Receive(p)
  <2> DEFINE x == call[p].client
             got == Dated(call[p].got)
  <2>1. got \in Tokens /\ x \in Clients
    BY <1>1, <1>5, DatedIsTokens DEF Receive, Call
  <2>2. Adopt(client[x].creds, got) \in Tokens
    BY <2>1, AdoptIsTokens DEF Client
  <2>3. client' \in [Clients -> Client]
    BY <1>5, <2>1, <2>2 DEF Receive, Client
  <2>4. call' \in [Calls -> Call] /\ (\A q \in Calls : call'[q].client = call[q].client)
    BY <1>1, <1>5 DEF Receive, Call, Tokens, NoTokens
  <2>5. \A w \in writes' : w \in Write
    BY <1>5, <2>1 DEF Receive, NewWrite, Write
  <2> QED
    BY <1>5, <2>1, <2>3, <2>4, <2>5 DEF Receive, provider, ends
<1> QED
  BY <1>2, <1>3, <1>4, <1>5 DEF CallStep

LEMMA NextTyped == Typed /\ [Next]_vars => Typed'
<1> SUFFICES ASSUME Typed, [Next]_vars PROVE Typed'
  OBVIOUS
<1> USE DEF Typed, TypeOK
<1>1. CASE Tick \/ Revoke
  <2>1. UNCHANGED <<policy, rotates, issued, stored, client, call, writes, lost>>
    BY <1>1 DEF Tick, Revoke, provider, ends
  <2>2. clock' \in Nat /\ grants' \in Nat
    BY <1>1 DEF Tick, Revoke, provider, ends
  <2>3. accepted' \subseteq accepted
    BY <1>1 DEF Tick, Revoke, provider
  <2> QED
    BY <2>1, <2>2, <2>3
<1>2. CASE Reconnect
  <2>1. UNCHANGED <<policy, rotates, clock, client, call, writes>>
    BY <1>2 DEF Reconnect
  <2>2. grants' \in Nat /\ issued' \in Nat
    BY <1>2 DEF Reconnect
  <2>5. lost' \in BOOLEAN
    BY <1>2, Zenon DEF Reconnect
  <2>4. accepted' \subseteq 1..issued'
    <3>1. accepted' = accepted \cup {issued + 1} /\ issued' = issued + 1
      BY <1>2 DEF Reconnect
    <3>2. 1..issued \subseteq 1..(issued + 1) /\ issued + 1 \in 1..(issued + 1)
      OBVIOUS
    <3> QED
      BY <3>1, <3>2
  <2>3. stored' \in Tokens
    BY <1>2, TokenConstants DEF Reconnect, Tokens
  <2> QED
    BY <2>1, <2>2, <2>3, <2>4, <2>5
<1>3. CASE \E x \in Clients : Build(x)
  BY <1>3 DEF Build, Client, Tokens, NoTokens, provider, ends, Write
<1>4. CASE WriteStep
  <2>1. PICK w \in writes : ReadRow(w) \/ UpdateRow(w)
    BY <1>4 DEF WriteStep
  <2>2. Adopt(stored, w.tokens) \in Tokens /\ w \in Write
    BY AdoptIsTokens DEF Write
  <2>3. CASE ReadRow(w)
    BY <2>2, <2>3 DEF ReadRow, Write, provider, ends
  <2>4. CASE UpdateRow(w)
    BY <2>2, <2>4 DEF UpdateRow, Write, provider, ends
  <2> QED
    BY <2>1, <2>3, <2>4
<1>5. CASE \E w \in writes : LoseWrite(w)
  BY <1>5 DEF LoseWrite, Lose, provider, ends
<1>6. CASE UNCHANGED vars
  BY <1>6 DEF vars, provider, ends
<1> QED
  BY <1>1, <1>2, <1>3, <1>4, <1>5, <1>6, BeginTyped, CallStepTyped DEF Next

(* Every variable keeps its type, and no refresh token is accepted that was not issued. *)
THEOREM TypeCorrect == Spec => []TypeOK
<1>1. Typed => TypeOK
  BY DEF Typed
<1> QED
  BY <1>1, InitTyped, NextTyped, PTL DEF Spec

-----------------------------------------------------------------------------
(* Time *)

LEMMA InitInTime == Init => InTime
BY DEF Init, InTime, NoCall

LEMMA NextInTime == Typed /\ InTime /\ [Next]_vars => InTime'
<1> SUFFICES ASSUME Typed, InTime, [Next]_vars PROVE InTime'
  OBVIOUS
<1> USE TokenConstants DEF Typed, TypeOK, InTime
<1>1. CASE Tick
  <2>1. clock' = clock + 1 /\ call' = call /\ writes' = writes
    BY <1>1 DEF Tick
  <2>2. \A p \in Calls : call[p].stage # "idle" => clock + 1 <= call[p].at + Delay /\ call[p].at \in Nat
    BY <1>1 DEF Tick, Call
  <2>3. \A w \in writes : clock + 1 <= w.at + Delay /\ w.at \in Nat
    BY <1>1 DEF Tick, Write
  <2> QED
    BY <2>1, <2>2, <2>3
<1>2. CASE UNCHANGED <<clock, call, writes>>
  BY <1>2
<1>3. ASSUME NEW p \in Calls, NEW c, UNCHANGED <<clock, writes>>, call' = [call EXCEPT ![p] = c],
             c.stage # "idle" => c.at = clock \/ (c.at = call[p].at /\ call[p].stage # "idle")
      PROVE  InTime'
  <2>1. call'[p] = c /\ \A q \in Calls : q # p => call'[q] = call[q]
    BY <1>3
  <2> QED
    BY <1>3, <2>1
<1>4. ASSUME NEW p \in Calls, NEW x \in Clients,
             (\E holder \in {"own", "api"} : Begin(p, x, holder)) \/ BeginUnchecked(p, x) \/ BeginPassthrough(p, x)
      PROVE  InTime'
  <2>1. UNCHANGED <<clock, writes>>
    BY <1>4 DEF Begin, BeginUnchecked, BeginPassthrough
  <2>2. ASSUME NEW h, Ask(p, x, h) PROVE InTime'
    BY <2>1, <2>2, <1>3 DEF Ask, NoCall
  <2>3. ASSUME NEW h, NEW s \in {"ready", "unchecked"}, Send(p, x, h, s)
        PROVE  InTime'
    BY <2>1, <2>3, <1>3 DEF Send, NoCall
  <2> QED
    BY <1>4, <2>2, <2>3 DEF Begin, BeginUnchecked, BeginPassthrough
<1>5. ASSUME NEW p \in Calls, Grant(p) \/ Refuse(p) \/ Fail(p) \/ Finish(p) \/ LoseAnswer(p)
      PROVE  InTime'
  <2>1. UNCHANGED <<clock, writes>> /\ (call[p].stage # "idle" \/ call' = [call EXCEPT ![p] = NoCall])
    BY <1>5 DEF Grant, Refuse, Fail, Finish, LoseAnswer
  <2>2. CASE Grant(p) \/ Refuse(p)
    <3>1. call[p] \in Call /\ call[p].stage = "asking"
      BY <2>2 DEF Grant, Refuse
    <3>2. call'[p].at = call[p].at /\ call' = [call EXCEPT ![p] = call'[p]]
      BY <2>2, <3>1 DEF Grant, Refuse, Call
    <3> QED
      BY <2>1, <3>1, <3>2, <1>3
  <2>3. CASE call' = [call EXCEPT ![p] = NoCall]
    BY <2>1, <2>3, <1>3 DEF NoCall
  <2> QED
    BY <1>5, <2>2, <2>3 DEF Fail, Finish, LoseAnswer
<1>6. ASSUME NEW p \in Calls, Receive(p) PROVE InTime'
  <2>1. clock' = clock /\ call[p] \in Call
    BY <1>6 DEF Receive
  <2> DEFINE w == NewWrite(Dated(call[p].got))
  <2>2. writes' = writes \cup {w} /\ w.at = clock
    BY <1>6 DEF Receive, NewWrite
  <2> HIDE DEF w
  <2>3. call'[p].at = clock /\ \A q \in Calls : q # p => call'[q] = call[q]
    BY <1>6, <2>1 DEF Receive, Call
  <2> QED
    BY <2>1, <2>2, <2>3
<1>7. CASE WriteStep
  <2>1. PICK w \in writes : ReadRow(w) \/ UpdateRow(w)
    BY <1>7 DEF WriteStep
  <2>2. CASE ReadRow(w)
    <3> DEFINE r == [w EXCEPT !.stage = "read", !.tokens = Adopt(stored, w.tokens)]
    <3>1. r.at = w.at
      BY DEF Write
    <3>2. writes' = (writes \ {w}) \cup {r} /\ UNCHANGED <<clock, call>>
      BY <2>2 DEF ReadRow
    <3> HIDE DEF r
    <3> QED
      BY <3>1, <3>2
  <2>3. CASE UpdateRow(w)
    BY <2>3 DEF UpdateRow
  <2> QED
    BY <2>1, <2>2, <2>3
<1>8. CASE \E w \in writes : LoseWrite(w)
  BY <1>8 DEF LoseWrite
<1>9. CASE Revoke \/ Reconnect \/ (\E x \in Clients : Build(x)) \/ UNCHANGED vars
  BY <1>9, <1>2 DEF Revoke, Reconnect, Build, vars
<1> QED
  BY <1>1, <1>4, <1>5, <1>6, <1>7, <1>8, <1>9 DEF Next, CallStep

-----------------------------------------------------------------------------
(* Access tokens *)

LEMMA InitAccessKept == Init => AccessKept
<1> SUFFICES ASSUME Init PROVE AccessKept
  OBVIOUS
<1>1. Sound(NoTokens)
  BY TokenConstants DEF Sound, NoTokens
<1>2. Sound(stored)
  BY TokenConstants DEF Init, Sound
<1> QED
  BY <1>1, <1>2 DEF Init, AccessKept, NoClient, NoCall

(* A token that is not due has all of the threshold before it, less the delay of its answer. *)
LEMMA BeginAccessKept ==
  ASSUME Typed, InTime, AccessKept, NEW p \in Calls, NEW x \in Clients, NEW holder \in {"own", "api"},
         Begin(p, x, holder) \/ BeginUnchecked(p, x) \/ BeginPassthrough(p, x)
  PROVE  AccessKept'
<1> SUFFICES ASSUME policy.due = "early" PROVE AccessKept'
  BY DEF Begin, BeginUnchecked, BeginPassthrough, ends, AccessKept
<1>1. UNCHANGED <<policy, stored, client, writes, clock>>
  BY DEF Begin, BeginUnchecked, BeginPassthrough, ends
<1>2. \A y, h : Held(y, h)' = Held(y, h)
  BY <1>1 DEF Held
<1>3. \A q \in Calls : q # p => call'[q] = call[q]
  BY DEF Begin, BeginUnchecked, BeginPassthrough, Ask, Send, Typed, TypeOK
<1>4. CASE call'[p].stage \in {"asking", "unchecked"}
  BY <1>1, <1>2, <1>3, <1>4 DEF AccessKept, Outlives
<1>5. CASE call'[p].stage \notin {"asking", "unchecked"}
  <2>1. ~Due(Held(x, holder)) /\ Send(p, x, holder, "ready")
    <3>1. ASSUME NEW h, Ask(p, x, h) PROVE FALSE
      BY <1>5, <3>1 DEF Ask, NoCall, Typed, TypeOK
    <3>2. ~Send(p, x, "own", "unchecked")
      BY <1>5 DEF Send, NoCall, Typed, TypeOK
    <3> QED
      BY <3>1, <3>2 DEF Begin, BeginUnchecked, BeginPassthrough
  <2>2. /\ call'[p].stage = "ready" /\ call'[p].client = x /\ call'[p].holder = holder
        /\ call'[p].at = clock
    BY <2>1 DEF Send, NoCall, Typed, TypeOK
  <2>3. Held(x, holder) \in Tokens /\ Sound(Held(x, holder))
    BY DEF Held, AccessKept, Typed, TypeOK, Client
  <2>4. Held(x, holder).until + Delay >= clock + Threshold
    BY <2>1, <2>3, TokenConstants DEF Due, Sound, Tokens, Typed, TypeOK
  <2>5. Outlives(p)'
    BY <1>1, <1>2, <2>2, <2>4 DEF Outlives
  <2> QED
    BY <1>1, <1>2, <1>3, <2>2, <2>5 DEF AccessKept, Outlives
<1> QED
  BY <1>4, <1>5

(* The answer of the provider is as old as its call at most. *)
LEMMA ReceiveAccessKept ==
  ASSUME Typed, InTime, AccessKept, NEW p \in Calls, Receive(p), policy.due = "early"
  PROVE  AccessKept'
<1> DEFINE got == Dated(call[p].got)
<1>0. PICK x \in Clients : x = call[p].client
  BY DEF Receive, Typed, TypeOK
<1>1. UNCHANGED <<policy, stored, clock>>
  BY DEF Receive, ends
<1>2. got \in Tokens
  BY DatedIsTokens DEF Receive, Call, Typed, TypeOK
<1>3. got.until = call[p].got.until /\ got.expiresAt <= clock + Lifetime
  BY TokenConstants DEF Dated, Typed, TypeOK, Call, Tokens
<1>4. call[p].at \in Nat /\ clock \in Nat /\ clock <= call[p].at + Delay
       /\ call[p].got.until \in Nat /\ call[p].got.until >= call[p].at + Lifetime
  BY DEF Receive, InTime, AccessKept, Typed, TypeOK, Call, Tokens
<1>5. got.until + Delay >= clock + Lifetime
  BY <1>3, <1>4, TokenConstants
<1>6. Sound(got) /\ got.until + Delay >= clock + Threshold
  BY <1>2, <1>3, <1>4, <1>5, TokenConstants DEF Sound, Tokens
<1> HIDE DEF got
<1>7. \A y \in Clients : y # x => client'[y] = client[y]
  BY <1>0 DEF Receive, Typed, TypeOK
<1>8. /\ call[p].holder = "own" => /\ client'[x].creds = Adopt(client[x].creds, got)
                                  /\ client'[x].api = client[x].api
                                  /\ client'[x].shared = client[x].shared
      /\ call[p].holder # "own" => /\ client'[x].creds = client[x].creds
                                  /\ client'[x].api = got
                                  /\ ~client'[x].shared
  <2>1. client[x] \in Client
    BY DEF Typed, TypeOK
  <2>2. CASE call[p].holder = "own"
    <3>1. client' = [client EXCEPT ![x].creds = Adopt(@, got)]
      BY <1>0, <2>2 DEF Receive, got
    <3>2. client'[x] = [client[x] EXCEPT !.creds = Adopt(client[x].creds, got)]
      BY <1>2, <3>1 DEF Typed, TypeOK
    <3> QED
      BY <2>1, <2>2, <3>2 DEF Client
  <2>3. CASE call[p].holder # "own"
    <3>1. client' = [client EXCEPT ![x].api = got, ![x].shared = FALSE]
      BY <1>0, <2>3 DEF Receive, got
    <3>2. client'[x] = [client[x] EXCEPT !.api = got, !.shared = FALSE]
      BY <1>2, <3>1 DEF Typed, TypeOK
    <3> QED
      BY <2>1, <2>3, <3>2 DEF Client
  <2> QED
    BY <2>2, <2>3
<1>9. Adopt(client[x].creds, got).until = got.until /\ Sound(Adopt(client[x].creds, got))
  BY <1>2, <1>6 DEF Adopt, Sound, Tokens
<1>10. \A y \in Clients : Sound(client'[y].creds) /\ Sound(client'[y].api)
  BY <1>2, <1>6, <1>7, <1>8, <1>9 DEF AccessKept, Typed, TypeOK, Client
<1>11. \A w \in writes' : Sound(w.tokens)
  BY <1>6 DEF Receive, NewWrite, AccessKept, got
<1>12. \A q \in Calls : q # p => call'[q] = call[q]
  BY DEF Receive, Typed, TypeOK
<1>13. call'[p].stage = "ready" /\ call'[p].client = x /\ call'[p].holder = call[p].holder /\ call'[p].at = clock
  BY <1>0 DEF Receive, Typed, TypeOK, Call
(* Whatever x holds from now on is what it held, or this answer. *)
<1>14. ASSUME NEW h \in {"own", "api"}
       PROVE  /\ Held(x, h)' = Held(x, h) \/ Held(x, h)'.until = got.until
              /\ h = call[p].holder => Held(x, h)'.until = got.until
  <2>1. Held(x, "own") = client[x].creds /\ Held(x, "own")' = client'[x].creds
    BY DEF Held
  <2>2. CASE h = "own"
    BY <1>8, <1>9, <2>1, <2>2
  <2>3. CASE h = "api" /\ client[x].shared
    <3>1. Held(x, h) = client[x].creds
      BY <2>3 DEF Held
    <3>2. CASE call[p].holder = "own"
      <4>1. Held(x, h)' = client'[x].creds
        BY <1>8, <2>3, <3>2 DEF Held
      <4> QED
        BY <1>8, <1>9, <2>3, <3>2, <4>1
    <3>3. CASE call[p].holder # "own"
      <4>1. Held(x, h)' = client'[x].api
        BY <1>8, <2>3, <3>3 DEF Held
      <4> QED
        BY <1>8, <3>3, <4>1
    <3> QED
      BY <3>2, <3>3
  <2>4. CASE h = "api" /\ ~client[x].shared
    <3>1. Held(x, h) = client[x].api
      BY <2>4 DEF Held
    <3>2. Held(x, h)' = client'[x].api
      <4>1. ~client'[x].shared
        BY <1>8, <2>4
      <4> QED
        BY <2>4, <4>1 DEF Held
    <3> QED
      BY <1>8, <2>4, <3>1, <3>2
  <2> QED
    BY <2>2, <2>3, <2>4
<1>15. ASSUME NEW q \in Calls, call'[q].stage = "ready", q # p PROVE Outlives(q)'
  <2>1. call'[q] = call[q] /\ call[q] \in Call /\ call[q].client \in Clients /\ Outlives(q) /\ call[q].at <= clock
    BY <1>12, <1>15 DEF AccessKept, InTime, Typed, TypeOK
  <2>2. CASE Held(call[q].client, call[q].holder)' = Held(call[q].client, call[q].holder)
    BY <2>1, <2>2 DEF Outlives
  <2>3. CASE Held(call[q].client, call[q].holder)'.until = got.until
    BY <1>2, <1>4, <1>6, <2>1, <2>3, TokenConstants DEF Outlives, Call, Tokens
  <2>4. CASE call[q].client # x
    BY <1>7, <2>1, <2>2, <2>4 DEF Held
  <2> QED
    BY <1>14, <2>1, <2>2, <2>3, <2>4 DEF Call
<1>16. Outlives(p)'
  <2>1. PICK h \in {"own", "api"} : h = call[p].holder
    BY DEF Typed, TypeOK, Call
  <2>2. Held(x, h)'.until = got.until
    BY <1>14, <2>1
  <2> QED
    BY <1>6, <1>13, <2>1, <2>2 DEF Outlives
<1>17. \A q \in Calls : call'[q].stage = "granted" => call'[q].got.until >= call'[q].at + Lifetime
  BY <1>12, <1>13 DEF AccessKept
<1> QED
  BY <1>1, <1>10, <1>11, <1>13, <1>15, <1>16, <1>17 DEF AccessKept, Sound

LEMMA NextAccessKept == Typed /\ InTime /\ AccessKept /\ [Next]_vars => AccessKept'
<1> SUFFICES ASSUME Typed, InTime, AccessKept, [Next]_vars PROVE AccessKept'
  OBVIOUS
<1>1. policy' = policy
  BY DEF Next, vars, ends, Tick, Revoke, Reconnect, Build, Begin, BeginUnchecked, BeginPassthrough, CallStep,
         Grant, Refuse, Fail, Receive, Finish, LoseAnswer, WriteStep, ReadRow, UpdateRow, LoseWrite
<1> SUFFICES ASSUME policy.due = "early" PROVE AccessKept'
  BY <1>1 DEF AccessKept
<1> USE TokenConstants DEF AccessKept
<1>2. CASE UNCHANGED <<stored, client, call>> /\ writes' \subseteq writes
  <2>1. \A x, h : Held(x, h)' = Held(x, h)
    BY <1>2 DEF Held
  <2> QED
    BY <1>1, <1>2, <2>1 DEF Outlives, Sound
<1>3. CASE Reconnect
  <2>1. UNCHANGED <<client, call, writes>>
    BY <1>3 DEF Reconnect
  <2>2. Sound(stored)'
    BY <1>3 DEF Reconnect, Sound, Typed, TypeOK
  <2>3. \A x, h : Held(x, h)' = Held(x, h)
    BY <2>1 DEF Held
  <2> QED
    BY <1>1, <2>1, <2>2, <2>3 DEF Outlives, Sound
<1>4. ASSUME NEW x \in Clients, Build(x) PROVE AccessKept'
  <2>1. UNCHANGED <<stored, call, writes>>
    BY <1>4 DEF Build
  <2>2. \A y \in Clients : y # x => client'[y] = client[y]
    BY <1>4 DEF Build
  <2>3. client'[x].creds = stored /\ client'[x].api = NoTokens
    BY <1>4 DEF Build, Typed, TypeOK
  <2>4. Sound(NoTokens)
    BY DEF Sound, NoTokens
  <2>5. ASSUME NEW p \in Calls, call[p].stage = "ready" PROVE Outlives(p)'
    <3>1. PICK y \in Clients : y = call[p].client
      BY <2>5 DEF Typed
    <3>2. y # x
      BY <1>4, <2>5, <3>1 DEF Build
    <3>3. \A h : Held(y, h)' = Held(y, h)
      BY <2>2, <3>2 DEF Held
    <3> QED
      BY <2>1, <2>5, <3>1, <3>3 DEF Outlives
  <2> QED
    BY <1>1, <2>1, <2>2, <2>3, <2>4, <2>5 DEF Sound
<1>5. ASSUME NEW p \in Calls, Grant(p) \/ Refuse(p) \/ Fail(p) \/ Finish(p) \/ LoseAnswer(p)
      PROVE  AccessKept'
  <2>1. UNCHANGED <<stored, client, writes>>
    BY <1>5 DEF Grant, Refuse, Fail, Finish, LoseAnswer
  <2>2. \A x, h : Held(x, h)' = Held(x, h)
    BY <2>1 DEF Held
  <2>3. \A q \in Calls : q # p => call'[q] = call[q]
    BY <1>5 DEF Grant, Refuse, Fail, Finish, LoseAnswer, Typed, TypeOK
  <2>4. call'[p].stage # "ready"
    BY <1>5 DEF Grant, Refuse, Fail, Finish, LoseAnswer, NoCall, Typed, TypeOK, Call
  <2>5. call'[p].stage = "granted" => call'[p].got.until >= call'[p].at + Lifetime
    <3>1. CASE Grant(p)
      <4>1. call'[p].at = call[p].at /\ call'[p].got.until = clock + Lifetime
        BY <3>1 DEF Grant, Typed, TypeOK, Call
      <4>2. call[p].at <= clock /\ call[p].at \in Nat /\ clock \in Nat
        BY <3>1 DEF Grant, InTime, Typed, TypeOK, Call
      <4> QED
        BY <4>1, <4>2
    <3>2. CASE ~Grant(p)
      BY <1>5, <3>2 DEF Refuse, Fail, Finish, LoseAnswer, NoCall, Typed, TypeOK, Call
    <3> QED
      BY <3>1, <3>2
  <2> QED
    BY <1>1, <2>1, <2>2, <2>3, <2>4, <2>5 DEF Outlives, Sound
<1>6. CASE WriteStep
  <2>1. PICK w \in writes : ReadRow(w) \/ UpdateRow(w)
    BY <1>6 DEF WriteStep
  <2>2. UNCHANGED <<client, call>>
    BY <2>1 DEF ReadRow, UpdateRow
  <2>3. \A x, h : Held(x, h)' = Held(x, h)
    BY <2>2 DEF Held
  <2>4. CASE ReadRow(w)
    <3> DEFINE r == [w EXCEPT !.stage = "read", !.tokens = Adopt(stored, w.tokens)]
    <3>1. r.tokens.until = w.tokens.until /\ r.tokens.expiresAt = w.tokens.expiresAt
      BY DEF Adopt, Typed, TypeOK, Write, Tokens
    <3>2. writes' = (writes \ {w}) \cup {r} /\ stored' = stored
      BY <2>4 DEF ReadRow
    <3> HIDE DEF r
    <3> QED
      BY <1>1, <2>2, <2>3, <3>1, <3>2 DEF Outlives, Sound
  <2>5. CASE UpdateRow(w)
    <3>1. stored' = w.tokens /\ writes' \subseteq writes
      BY <2>5 DEF UpdateRow
    <3> QED
      BY <1>1, <2>2, <2>3, <3>1 DEF Outlives, Sound
  <2> QED
    BY <2>1, <2>4, <2>5
<1>7. CASE Tick \/ Revoke \/ (\E w \in writes : LoseWrite(w)) \/ UNCHANGED vars
  BY <1>2, <1>7 DEF Tick, Revoke, LoseWrite, vars
<1> QED
  BY <1>3, <1>4, <1>5, <1>6, <1>7, BeginAccessKept, ReceiveAccessKept DEF Next, CallStep

(* A client that refreshes ahead, and looks, sends out no access token the provider has given *)
(* up: the threshold outlasts the time from the check to the use, in whichever holder it is.  *)
(* Calls that skip maybeRefreshAccessToken (BeginUnchecked) are not among them.               *)
THEOREM CallsGoOutAlive == Spec => []AccessIsLive
<1>1. Typed /\ InTime /\ AccessKept => AccessIsLive
  <2> SUFFICES ASSUME Typed, InTime, AccessKept, policy.due = "early",
                      NEW p \in Calls, call[p].stage = "ready"
               PROVE  Held(call[p].client, call[p].holder).until > clock
    BY DEF AccessIsLive
  <2>1. Held(call[p].client, call[p].holder).until + Delay >= call[p].at + Threshold
    BY DEF AccessKept, Outlives
  <2>2. Held(call[p].client, call[p].holder) \in Tokens /\ call[p].at \in Nat /\ clock \in Nat
    BY DEF Held, Typed, TypeOK, Call, Client
  <2>3. clock <= call[p].at + Delay
    BY DEF InTime
  <2> QED
    BY <2>1, <2>2, <2>3, TokenConstants DEF Tokens
<1> QED
  BY <1>1, InitTyped, NextTyped, InitInTime, NextInTime, InitAccessKept, NextAccessKept, PTL DEF Spec

-----------------------------------------------------------------------------
(* A provider that keeps refresh tokens *)

LEMMA InitFirstGrant == Init => FirstGrant
BY DEF Init, FirstGrant, NoClient, NoCall, Asking, Granted

LEMMA NextFirstGrant == Typed /\ FirstGrant /\ [Next]_vars => FirstGrant'
<1> SUFFICES ASSUME Typed, FirstGrant, [Next]_vars, ~rotates', grants' = 0 PROVE FirstGrant'
  BY DEF FirstGrant
<1>1. rotates' = rotates /\ grants = 0 /\ ~Revoke /\ ~Reconnect
  <2>1. CASE Revoke \/ Reconnect
    BY <2>1 DEF Revoke, Reconnect, Typed, TypeOK
  <2>2. CASE ~Revoke /\ ~Reconnect
    BY <2>2 DEF Next, vars, ends, Tick, Build, Begin, BeginUnchecked, BeginPassthrough, CallStep,
         Grant, Refuse, Fail, Receive, Finish, LoseAnswer, WriteStep, ReadRow, UpdateRow, LoseWrite
  <2> QED
    BY <2>1, <2>2
<1> USE <1>1 DEF FirstGrant, Asking, Granted, Carried
<1>2. CASE Tick \/ (\E w \in writes : LoseWrite(w)) \/ UNCHANGED vars
  BY <1>2 DEF Tick, LoseWrite, vars, provider
<1>3. ASSUME NEW x \in Clients, Build(x) PROVE FirstGrant'
  <2>1. UNCHANGED <<accepted, stored, call, writes>>
    BY <1>3 DEF Build, provider
  <2>2. client'[x].creds = stored /\ \A y \in Clients : y # x => client'[y] = client[y]
    BY <1>3 DEF Build, Typed, TypeOK
  <2> QED
    BY <2>1, <2>2
<1>4. ASSUME NEW p \in Calls, NEW x \in Clients,
             (\E holder \in {"own", "api"} : Begin(p, x, holder)) \/ BeginUnchecked(p, x) \/ BeginPassthrough(p, x)
      PROVE  FirstGrant'
  <2>1. UNCHANGED <<accepted, stored, client, writes>> /\ client[x].built
    BY <1>4 DEF Begin, BeginUnchecked, BeginPassthrough, provider
  <2>2. \A q \in Calls : q # p => call'[q] = call[q]
    BY <1>4 DEF Begin, BeginUnchecked, BeginPassthrough, Ask, Send, Typed, TypeOK
  <2>3. ASSUME NEW h, Ask(p, x, h) PROVE FirstGrant'
    <3>1. call'[p].stage = "asking" /\ call'[p].asked = client[x].creds.refresh
      BY <2>3 DEF Ask, NoCall, Typed, TypeOK
    <3> QED
      BY <2>1, <2>2, <3>1
  <2>4. ASSUME NEW h, NEW s \in {"ready", "unchecked"}, Send(p, x, h, s)
        PROVE  FirstGrant'
    <3>1. call'[p].stage = s
      BY <2>4 DEF Send, NoCall, Typed, TypeOK
    <3> QED
      BY <2>1, <2>2, <3>1
  <2> QED
    BY <1>4, <2>3, <2>4 DEF Begin, BeginUnchecked, BeginPassthrough
<1>5. ASSUME NEW p \in Calls, Grant(p) \/ Refuse(p) \/ Fail(p) \/ Finish(p) \/ LoseAnswer(p)
      PROVE  FirstGrant'
  <2>1. UNCHANGED <<accepted, stored, client, writes>>
    BY <1>5 DEF Grant, Refuse, Fail, Finish, LoseAnswer, provider
  <2>2. \A q \in Calls : q # p => call'[q] = call[q]
    BY <1>5 DEF Grant, Refuse, Fail, Finish, LoseAnswer, Typed, TypeOK
  <2>3. ~Refuse(p)
    BY DEF Refuse
  <2>4. CASE Grant(p)
    <3>1. call'[p].stage = "granted"
      BY <2>4 DEF Grant, Typed, TypeOK, Call
    <3>2. call'[p].got.refresh \in {0, call[p].asked} /\ call[p].asked = 1
      BY <2>4 DEF Grant, Typed, TypeOK, Call
    <3> QED
      BY <2>1, <2>2, <3>1, <3>2
  <2>5. CASE call' = [call EXCEPT ![p] = NoCall]
    BY <2>1, <2>2, <2>5 DEF NoCall, Typed, TypeOK
  <2> QED
    BY <1>5, <2>3, <2>4, <2>5 DEF Fail, Finish, LoseAnswer
<1>6. ASSUME NEW p \in Calls, Receive(p) PROVE FirstGrant'
  <2> DEFINE got == Dated(call[p].got)
  <2>0. PICK x \in Clients : x = call[p].client
    BY <1>6 DEF Receive, Typed
  <2>1. UNCHANGED <<accepted, stored>>
    BY <1>6 DEF Receive, provider
  <2>2. got \in Tokens /\ got.refresh \in {0, 1}
    BY <1>6, DatedIsTokens DEF Receive, Dated, Typed, TypeOK, Call, Tokens
  <2>3. \A y \in Clients : y # x => client'[y] = client[y]
    BY <1>6, <2>0 DEF Receive, Typed, TypeOK
  <2>4. client'[x].built => client'[x].creds.refresh = 1
    <3>1. client[x] \in Client
      BY DEF Typed, TypeOK
    <3>2. client'[x].built = client[x].built /\ client'[x].creds \in {client[x].creds, Adopt(client[x].creds, got)}
      BY <1>6, <2>0, <3>1 DEF Receive, Typed, TypeOK, Client
    <3>3. client[x].creds.refresh = 1 => Adopt(client[x].creds, got).refresh = 1
      BY <2>2, <3>1 DEF Adopt, Client, Tokens
    <3> HIDE DEF got
    <3> QED
      BY <3>2, <3>3
  <2>5. \A w \in writes' : Carried(w) \in {0, 1} /\ (w.stage = "read" => Carried(w) = 1)
    BY <1>6, <2>2 DEF Receive, NewWrite
  <2>6. call'[p].stage = "ready" /\ \A q \in Calls : q # p => call'[q] = call[q]
    BY <1>6 DEF Receive, Typed, TypeOK, Call
  <2> QED
    BY <2>1, <2>3, <2>4, <2>5, <2>6
<1>7. CASE WriteStep
  <2>1. PICK w \in writes : ReadRow(w) \/ UpdateRow(w)
    BY <1>7 DEF WriteStep
  <2>2. UNCHANGED <<accepted, client, call>>
    BY <2>1 DEF ReadRow, UpdateRow, provider
  <2>3. CASE ReadRow(w)
    <3> DEFINE r == [w EXCEPT !.stage = "read", !.tokens = Adopt(stored, w.tokens)]
    <3>1. Carried(r) = 1
      BY DEF Adopt, Typed, TypeOK, Write, Tokens
    <3>2. writes' = (writes \ {w}) \cup {r} /\ stored' = stored
      BY <2>3 DEF ReadRow
    <3> HIDE DEF r
    <3> QED
      BY <2>2, <3>1, <3>2
  <2>4. CASE UpdateRow(w)
    BY <2>2, <2>4 DEF UpdateRow
  <2> QED
    BY <2>1, <2>3, <2>4
<1> QED
  BY <1>2, <1>3, <1>4, <1>5, <1>6, <1>7 DEF Next, CallStep

(* Where refresh tokens are kept, a refusal means that the customer withdrew the grant: no *)
(* client, answer or write ever puts another token in the place of the first.              *)
THEOREM RefusalsAreWithdrawals == Spec => []RefusedOnlyIfWithdrawn
<1>1. FirstGrant => RefusedOnlyIfWithdrawn
  BY DEF FirstGrant, RefusedOnlyIfWithdrawn
<1> QED
  BY <1>1, InitTyped, NextTyped, InitFirstGrant, NextFirstGrant, PTL DEF Spec

-----------------------------------------------------------------------------
(* The row, with a provider that keeps refresh tokens *)

LEMMA InitRowKept == Init => RowKept
BY DEF Init, RowKept, NoCall, Granted

LEMMA NextRowKept == Typed /\ RowKept /\ [Next]_vars => RowKept'
<1> SUFFICES ASSUME Typed, RowKept, [Next]_vars, ~rotates', ~Revoked' PROVE RowKept'
  BY DEF RowKept
<1>1. rotates' = rotates
  BY DEF Next, vars, ends, Tick, Revoke, Reconnect, Build, Begin, BeginUnchecked, BeginPassthrough, CallStep,
         Grant, Refuse, Fail, Receive, Finish, LoseAnswer, WriteStep, ReadRow, UpdateRow, LoseWrite
<1> USE <1>1 DEF RowKept, Granted, Carried, Revoked
<1>2. CASE Revoke
  BY <1>2 DEF Revoke
<1>3. CASE Reconnect
  <2>1. stored'.refresh = issued + 1 /\ accepted' = accepted \cup {issued + 1}
    BY <1>3 DEF Reconnect
  <2>2. writes' = {} /\ call' = call /\ \A p \in Calls : call[p].stage # "granted"
    BY <1>3 DEF Reconnect
  <2> QED
    BY <2>1, <2>2
<1>4. CASE UNCHANGED <<accepted, stored, writes>> /\ \A p \in Calls : Granted(p)' => call'[p] = call[p]
  BY <1>4
<1>5. CASE Tick \/ (\E x \in Clients : Build(x)) \/ UNCHANGED vars
  BY <1>4, <1>5 DEF Tick, Build, vars, provider
<1>6. ASSUME NEW p \in Calls, NEW x \in Clients,
             (\E holder \in {"own", "api"} : Begin(p, x, holder)) \/ BeginUnchecked(p, x) \/ BeginPassthrough(p, x)
      PROVE  RowKept'
  <2>1. UNCHANGED <<accepted, stored, writes>>
    BY <1>6 DEF Begin, BeginUnchecked, BeginPassthrough, provider
  <2>2. \A q \in Calls : q # p => call'[q] = call[q]
    BY <1>6 DEF Begin, BeginUnchecked, BeginPassthrough, Ask, Send, Typed, TypeOK
  <2>3. call'[p].stage # "granted"
    <3>1. ASSUME NEW h, Ask(p, x, h) PROVE call'[p].stage = "asking"
      BY <3>1 DEF Ask, NoCall, Typed, TypeOK
    <3>2. ASSUME NEW h, NEW s \in {"ready", "unchecked"}, Send(p, x, h, s)
          PROVE  call'[p].stage = s
      BY <3>2 DEF Send, NoCall, Typed, TypeOK
    <3> QED
      BY <1>6, <3>1, <3>2 DEF Begin, BeginUnchecked, BeginPassthrough
  <2> QED
    BY <1>4, <2>1, <2>2, <2>3
<1>7. ASSUME NEW p \in Calls, Grant(p) PROVE RowKept'
  <2>1. UNCHANGED <<accepted, stored, writes>> /\ call[p].asked \in accepted
    BY <1>7 DEF Grant
  <2>2. \A q \in Calls : q # p => call'[q] = call[q]
    BY <1>7 DEF Grant, Typed, TypeOK
  <2>3. call'[p].got.refresh \in {0, call[p].asked}
    BY <1>7 DEF Grant, Typed, TypeOK, Call
  <2> QED
    BY <2>1, <2>2, <2>3
<1>8. ASSUME NEW p \in Calls, Refuse(p) \/ Fail(p) \/ Finish(p) \/ LoseAnswer(p) PROVE RowKept'
  <2>1. UNCHANGED <<accepted, stored, writes>>
    BY <1>8 DEF Refuse, Fail, Finish, LoseAnswer, provider
  <2>2. \A q \in Calls : q # p => call'[q] = call[q]
    BY <1>8 DEF Refuse, Fail, Finish, LoseAnswer, Typed, TypeOK
  <2>3. call'[p].stage # "granted"
    BY <1>8 DEF Refuse, Fail, Finish, LoseAnswer, NoCall, Typed, TypeOK, Call
  <2> QED
    BY <1>4, <2>1, <2>2, <2>3
<1>9. ASSUME NEW p \in Calls, Receive(p) PROVE RowKept'
  <2> DEFINE w == NewWrite(Dated(call[p].got))
  <2>1. UNCHANGED <<accepted, stored>> /\ writes' = writes \cup {w}
    BY <1>9 DEF Receive, provider
  <2>2. Carried(w) = call[p].got.refresh /\ w.stage = "new"
    BY <1>9 DEF NewWrite, Dated, Typed, TypeOK, Call, Tokens
  <2>3. call'[p].stage = "ready" /\ \A q \in Calls : q # p => call'[q] = call[q]
    BY <1>9 DEF Receive, Typed, TypeOK, Call
  <2>4. call[p].stage = "granted"
    BY <1>9 DEF Receive
  <2> HIDE DEF w
  <2> QED
    BY <2>1, <2>2, <2>3, <2>4
<1>10. CASE WriteStep
  <2>1. PICK w \in writes : ReadRow(w) \/ UpdateRow(w)
    BY <1>10 DEF WriteStep
  <2>2. UNCHANGED <<accepted, call>>
    BY <2>1 DEF ReadRow, UpdateRow, provider
  <2>3. CASE ReadRow(w)
    <3> DEFINE r == [w EXCEPT !.stage = "read", !.tokens = Adopt(stored, w.tokens)]
    <3>1. Carried(r) \in accepted
      BY <2>2 DEF Adopt, Typed, TypeOK, Write, Tokens
    <3>2. writes' = (writes \ {w}) \cup {r} /\ stored' = stored
      BY <2>3 DEF ReadRow
    <3> HIDE DEF r
    <3> QED
      BY <2>2, <3>1, <3>2
  <2>4. CASE UpdateRow(w)
    BY <2>2, <2>4 DEF UpdateRow
  <2> QED
    BY <2>1, <2>3, <2>4
<1>11. CASE \E w \in writes : LoseWrite(w)
  BY <1>11 DEF LoseWrite, provider
<1> QED
  BY <1>2, <1>3, <1>5, <1>6, <1>7, <1>8, <1>9, <1>10, <1>11 DEF Next, CallStep

-----------------------------------------------------------------------------
(* Rotation *)

LEMMA InitRotation == Init => Rotation
BY DEF Init, Rotation, IssuedBefore, AnswersAreNew, WritesAreNew, FlightsAlive, NotShownYet,
       OneAnswerEach, NeverStranded, Usable, Revoked, NoClient, NoCall, NoTokens, Asking, Granted

(* A client asks: it does not hold the token of a write, or not for long enough yet. *)
LEMMA AskRotation ==
  ASSUME Typed, InTime, Rotation, RotatesByTheClock, rotates,
         NEW p \in Calls, NEW x \in Clients, NEW holder \in {"own", "api"},
         Begin(p, x, holder) \/ BeginUnchecked(p, x) \/ BeginPassthrough(p, x)
  PROVE  Rotation'
<1> USE DEF Rotation, Asking, Granted, Carried
<1>1. UNCHANGED <<accepted, issued, stored, client, writes, lost, policy>>
      /\ client[x].built /\ call[p].stage = "idle"
  BY DEF Begin, BeginUnchecked, BeginPassthrough, provider, ends
<1>2. \A q \in Calls : q # p => call'[q] = call[q]
  BY DEF Begin, BeginUnchecked, BeginPassthrough, Ask, Send, Typed, TypeOK
<1>3. ASSUME NEW h, Ask(p, x, h) PROVE Rotation'
  <2>1. /\ call'[p].stage = "asking" /\ call'[p].asked = client[x].creds.refresh
        /\ call'[p].client = x /\ call'[p].got.refresh = 0
    BY <1>3 DEF Ask, NoCall, NoTokens, Typed, TypeOK
  <2>2. Begin(p, x, holder) /\ Due(Held(x, holder))
    <3>1. ~BeginPassthrough(p, x)
      BY DEF BeginPassthrough, RotatesByTheClock
    <3>2. ASSUME NEW k, NEW s \in {"ready", "unchecked"}, Send(p, x, k, s) PROVE FALSE
      <4>1. DOMAIN call = Calls
        BY DEF Typed, TypeOK
      <4>2. call'[p].stage = s
        BY <3>2, <4>1 DEF Send, NoCall
      <4> QED
        BY <2>1, <4>2
    <3>3. ~Send(p, x, holder, "ready") /\ ~Send(p, x, "own", "unchecked")
      BY <3>2
    <3> QED
      BY <3>1, <3>3 DEF Begin, BeginUnchecked
  <2>3. ASSUME client[x].creds.refresh \in accepted, NEW w \in writes,
               Carried(w) = client[x].creds.refresh
        PROVE  FALSE
    <3>1. client[x].shared
      BY <2>3 DEF OneAnswerEach
    <3>2. Held(x, holder) = client[x].creds
      BY <3>1 DEF Held
    <3>3. client[x].creds.expiresAt >= w.at + Lifetime
      BY <1>1, <2>3 DEF NotShownYet
    <3>4. clock <= w.at + Delay /\ clock \in Nat /\ w.at \in Nat /\ client[x].creds.expiresAt \in Nat
      BY DEF InTime, Typed, TypeOK, Write, Client, Tokens
    <3>5. \/ client[x].creds.expiresAt = 0 \/ client[x].creds.expiresAt < clock + Threshold
          \/ client[x].creds.expiresAt <= clock
      BY <2>2, <3>2 DEF Due, RotatesByTheClock
    <3> QED
      BY <3>3, <3>4, <3>5, TokenConstants
  <2>4. IssuedBefore'
    BY <1>1, <1>2, <2>1 DEF IssuedBefore, Typed, TypeOK
  <2>5. AnswersAreNew' /\ WritesAreNew'
    BY <1>1, <1>2, <2>1 DEF AnswersAreNew, WritesAreNew
  <2>6. FlightsAlive'
    BY <1>1, <1>2, <2>1 DEF FlightsAlive, Revoked
  <2>7. NotShownYet'
    BY <1>1, <1>2, <2>1, <2>3 DEF NotShownYet
  <2>8. OneAnswerEach'
    BY <1>1, <1>2, <2>1 DEF OneAnswerEach
  <2>9. NeverStranded'
    BY <1>1, <1>2, <2>1 DEF NeverStranded, Usable, Revoked
  <2> QED
    BY <1>1, <2>4, <2>5, <2>6, <2>7, <2>8, <2>9
<1>4. ASSUME NEW h, NEW s \in {"ready", "unchecked"}, Send(p, x, h, s)
      PROVE  Rotation'
  <2>1. call'[p].stage = s /\ call'[p].asked = 0 /\ call'[p].got.refresh = 0
    BY <1>4 DEF Send, NoCall, NoTokens, Typed, TypeOK
  <2>2. IssuedBefore'
    BY <1>1, <1>2, <2>1 DEF IssuedBefore, Typed, TypeOK
  <2>3. AnswersAreNew' /\ WritesAreNew' /\ FlightsAlive'
    BY <1>1, <1>2, <2>1 DEF AnswersAreNew, WritesAreNew, FlightsAlive, Revoked
  <2>4. NotShownYet' /\ OneAnswerEach'
    BY <1>1, <1>2, <2>1 DEF NotShownYet, OneAnswerEach
  <2>5. NeverStranded'
    BY <1>1, <1>2, <2>1 DEF NeverStranded, Usable, Revoked
  <2> QED
    BY <1>1, <2>2, <2>3, <2>4, <2>5
<1> QED
  BY <1>3, <1>4 DEF Begin, BeginUnchecked, BeginPassthrough

(* The provider replaces a token that is in no write and no answer. *)
LEMMA GrantRotation ==
  ASSUME Typed, Rotation, NEW p \in Calls, Grant(p), rotates
  PROVE  Rotation'
<1> DEFINE n == issued + 1
           m == call[p].asked
<1> USE DEF Rotation, Asking, Granted, Carried
<1>1. UNCHANGED <<stored, client, writes, lost, policy>> /\ issued' = n /\ issued \in Nat
  BY DEF Grant, ends, Typed, TypeOK
<1>2. accepted' = (accepted \ {m}) \cup {n} /\ m \in accepted /\ call[p].stage = "asking"
  BY DEF Grant
<1>3. \A q \in Calls : q # p => call'[q] = call[q]
  BY DEF Grant, Typed, TypeOK
<1>4. policy.returns
  BY PolicyConstants
<1>5. /\ call'[p].stage = "granted" /\ call'[p].asked = 0 /\ call'[p].got.refresh = n
      /\ call'[p].client = call[p].client
  BY <1>4 DEF Grant, Typed, TypeOK, Call
<1>6. /\ stored.refresh \in Nat /\ stored.refresh < n
      /\ \A x \in Clients : client[x].creds.refresh \in Nat /\ client[x].creds.refresh < n
      /\ \A w \in writes : Carried(w) \in Nat /\ Carried(w) < n
      /\ \A q \in Calls : /\ call[q].asked \in Nat /\ call[q].asked < n
                          /\ call[q].got.refresh \in Nat /\ call[q].got.refresh < n
  BY DEF IssuedBefore, Typed, TypeOK, Client, Write, Call, Tokens
<1> HIDE DEF n
<1>7. n \in Nat /\ n # 0
  BY <1>1 DEF n
<1>8. IssuedBefore'
  BY <1>1, <1>3, <1>5, <1>6, <1>7 DEF IssuedBefore
<1>9. AnswersAreNew' /\ WritesAreNew'
  <2>1. WritesAreNew'
    BY <1>1 DEF WritesAreNew
  <2>2. \A q \in Calls : call'[q].stage = "asking" => q # p
    BY <1>5
  <2>3. ASSUME NEW q \in Calls, call'[q].stage = "granted", q # p
        PROVE  /\ call'[q].got.refresh \notin {0, stored.refresh} /\ call'[q].got.refresh # n
               /\ \A w \in writes : call'[q].got.refresh # Carried(w)
               /\ \A x \in Clients : call'[q].got.refresh # client[x].creds.refresh
               /\ \A r \in Calls : r # p =>
                    /\ call[r].stage = "asking" => call'[q].got.refresh # call[r].asked
                    /\ call[r].stage = "granted" /\ r # q => call'[q].got.refresh # call[r].got.refresh
    BY <1>3, <1>6, <2>3 DEF AnswersAreNew
  <2>4. AnswersAreNew'
    BY <1>1, <1>3, <1>5, <1>6, <1>7, <2>2, <2>3 DEF AnswersAreNew
  <2> QED
    BY <2>1, <2>4
<1>10. FlightsAlive'
  <2>1. accepted # {}
    BY <1>2
  <2>2. \A w \in writes : Carried(w) \in accepted /\ Carried(w) # m
    BY <1>2, <2>1 DEF FlightsAlive, NotShownYet, Revoked
  <2>3. \A q \in Calls : call[q].stage = "granted" =>
          call[q].got.refresh \in accepted /\ call[q].got.refresh # m
    BY <1>2, <2>1 DEF FlightsAlive, AnswersAreNew, Revoked
  <2> QED
    BY <1>1, <1>2, <1>3, <1>5, <2>2, <2>3 DEF FlightsAlive
<1>11. NotShownYet'
  BY <1>1, <1>2, <1>3, <1>5, <1>6 DEF NotShownYet
<1>12. OneAnswerEach'
  <2>1. m = client[call[p].client].creds.refresh /\ call[p].client \in Clients
    BY <1>2 DEF OneAnswerEach, Typed
  <2>2. client[call[p].client].shared
    BY <1>2, <2>1 DEF OneAnswerEach
  <2>3. \A q \in Calls : call[q].stage = "granted" => call[q].client # call[p].client
    BY <1>2, <2>1 DEF OneAnswerEach
  <2>4. \A x \in Clients : client[x].creds.refresh \notin accepted => client[x].creds.refresh \notin accepted'
    BY <1>2, <1>6
  <2>5. m \notin accepted'
    BY <1>2, <1>6
  <2>6. \A x \in Clients : ~client'[x].shared => client'[x].creds.refresh \notin accepted'
    BY <1>1, <2>4 DEF OneAnswerEach
  <2>7. \A q \in Calls : call'[q].stage = "granted" =>
          /\ client'[call'[q].client].creds.refresh \notin accepted'
          /\ client'[call'[q].client].shared
          /\ \A r \in Calls : call'[r].stage = "granted" /\ call'[r].client = call'[q].client => r = q
    <3>1. ASSUME NEW q \in Calls, q # p, call[q].stage = "granted"
          PROVE  /\ client[call[q].client].creds.refresh \notin accepted'
                 /\ client[call[q].client].shared
                 /\ \A r \in Calls : call[r].stage = "granted" /\ call[r].client = call[q].client => r = q
      BY <2>4, <3>1 DEF OneAnswerEach, Typed
    <3> QED
      BY <1>1, <1>3, <1>5, <2>1, <2>2, <2>3, <2>5, <3>1
  <2>8. \A q \in Calls : call'[q].stage = "asking" /\ call'[q].asked \in accepted' =>
          call'[q].asked = client'[call'[q].client].creds.refresh
    BY <1>1, <1>2, <1>3, <1>5, <1>6 DEF OneAnswerEach
  <2> QED
    BY <2>6, <2>7, <2>8 DEF OneAnswerEach
<1>13. NeverStranded'
  BY <1>2, <1>5 DEF NeverStranded, Usable
<1> QED
  BY <1>1, <1>8, <1>9, <1>10, <1>11, <1>12, <1>13

(* The answer becomes the client's token and a write of it. *)
LEMMA ReceiveRotation ==
  ASSUME Typed, InTime, Rotation, RotatesByTheClock, NEW p \in Calls, Receive(p), rotates
  PROVE  Rotation'
<1> DEFINE got == Dated(call[p].got)
           w == NewWrite(got)
<1> USE DEF Rotation, Asking, Granted, Carried
<1>1. PICK x \in Clients : x = call[p].client
  BY DEF Receive, Typed
<1>2. PICK n \in Nat : n = call[p].got.refresh
  BY DEF Typed, TypeOK, Call, Tokens
<1>3. UNCHANGED <<stored, accepted, issued, lost, policy, clock>> /\ call[p].stage = "granted"
  BY DEF Receive, provider, ends
<1>4. got \in Tokens /\ got.refresh = n /\ got.expiresAt = clock + Lifetime
  <2>1. policy.records
    BY DEF RotatesByTheClock
  <2> QED
    BY <1>2, <2>1, DatedIsTokens DEF Dated, Typed, TypeOK, Call, Tokens
<1>5. writes' = writes \cup {w} /\ Carried(w) = n /\ w.at = clock
  BY <1>4 DEF Receive, NewWrite
<1>6. /\ n \notin {0, stored.refresh} /\ \A v \in writes : n # Carried(v)
      /\ \A y \in Clients : n # client[y].creds.refresh
      /\ \A q \in Calls : /\ call[q].stage = "asking" => n # call[q].asked
                          /\ call[q].stage = "granted" /\ q # p => n # call[q].got.refresh
  BY <1>2, <1>3 DEF AnswersAreNew
<1>7. /\ client[x].creds.refresh \notin accepted /\ client[x].shared
      /\ \A q \in Calls : call[q].stage = "granted" /\ call[q].client = x => q = p
  BY <1>1, <1>3 DEF OneAnswerEach
<1>8. /\ \A y \in Clients : y # x => client'[y] = client[y]
      /\ client'[x].built = client[x].built
  BY <1>1 DEF Receive, Typed, TypeOK, Client
<1>9. \/ /\ client'[x].creds.refresh = n /\ client'[x].creds.expiresAt = clock + Lifetime
         /\ client'[x].shared = client[x].shared
      \/ client'[x].creds = client[x].creds /\ ~client'[x].shared
  <2>1. client[x] \in Client
    BY DEF Typed, TypeOK
  <2>2. CASE call[p].holder = "own"
    <3>1. client' = [client EXCEPT ![x].creds = Adopt(@, got)]
      BY <1>1, <2>2 DEF Receive
    <3>2. client'[x] = [client[x] EXCEPT !.creds = Adopt(client[x].creds, got)]
      BY <3>1 DEF Typed, TypeOK
    <3>3. /\ Adopt(client[x].creds, got).refresh = n
          /\ Adopt(client[x].creds, got).expiresAt = clock + Lifetime
      BY <1>4, <1>6 DEF Adopt, Tokens
    <3> HIDE DEF got
    <3> QED
      BY <2>1, <3>2, <3>3 DEF Client
  <2>3. CASE call[p].holder # "own"
    <3>1. client' = [client EXCEPT ![x].api = got, ![x].shared = FALSE]
      BY <1>1, <2>3 DEF Receive
    <3>2. client'[x] = [client[x] EXCEPT !.api = got, !.shared = FALSE]
      BY <3>1 DEF Typed, TypeOK
    <3> HIDE DEF got
    <3> QED
      BY <2>1, <3>2 DEF Client
  <2> QED
    BY <2>2, <2>3
<1>10. /\ call'[p].stage = "ready" /\ call'[p].asked = call[p].asked /\ call'[p].got.refresh = 0
       /\ \A q \in Calls : q # p => call'[q] = call[q]
  BY DEF Receive, Typed, TypeOK, Call, NoTokens
<1> HIDE DEF w, got
<1>11. n <= issued
  BY <1>2 DEF IssuedBefore
<1>12. IssuedBefore'
  <2>1. \A y \in Clients : client'[y].creds.refresh <= issued
    BY <1>8, <1>9, <1>11 DEF IssuedBefore
  <2>2. issued \in Nat
    BY DEF Typed, TypeOK
  <2> QED
    BY <1>3, <1>5, <1>10, <1>11, <2>1, <2>2 DEF IssuedBefore
<1>13. WritesAreNew'
  BY <1>3, <1>5, <1>6 DEF WritesAreNew
<1>14. AnswersAreNew'
  <2>1. ASSUME NEW q \in Calls, q # p, call[q].stage = "granted", NEW y \in Clients
        PROVE  call[q].got.refresh # client'[y].creds.refresh
    BY <1>6, <1>8, <1>9, <2>1 DEF AnswersAreNew
  <2> QED
    BY <1>3, <1>5, <1>6, <1>10, <2>1 DEF AnswersAreNew
<1>15. FlightsAlive'
  BY <1>2, <1>3, <1>5, <1>10 DEF FlightsAlive, Revoked
<1>16. NotShownYet'
  <2>1. ASSUME NEW v \in writes', NEW y \in Clients, client'[y].built, client'[y].creds.refresh = Carried(v)
        PROVE  client'[y].creds.expiresAt >= v.at + Lifetime
    <3>1. CASE v = w
      <4>1. y = x /\ client'[x].creds.expiresAt = clock + Lifetime
        BY <1>5, <1>6, <1>8, <1>9, <2>1, <3>1
      <4>2. clock + Lifetime >= clock + Lifetime
        BY TokenConstants DEF Typed, TypeOK
      <4> QED
        BY <1>5, <3>1, <4>1, <4>2
    <3>2. CASE v # w
      <4>1. v \in writes /\ client'[y].creds = client[y].creds /\ client[y].built
        BY <1>5, <1>6, <1>8, <1>9, <2>1, <3>2
      <4> QED
        BY <2>1, <4>1 DEF NotShownYet
    <3> QED
      BY <3>1, <3>2
  <2>2. ASSUME NEW v \in writes', NEW q \in Calls, call'[q].stage = "asking", call'[q].asked \in accepted
        PROVE  call'[q].asked # Carried(v)
    BY <1>5, <1>6, <1>10, <2>2 DEF NotShownYet
  <2> QED
    BY <1>3, <2>1, <2>2 DEF NotShownYet
<1>17. OneAnswerEach'
  <2>1. \A y \in Clients : ~client'[y].shared => client'[y].creds.refresh \notin accepted
    BY <1>7, <1>8, <1>9 DEF OneAnswerEach
  <2>2. \A q \in Calls : call'[q].stage = "granted" =>
          q # p /\ call'[q] = call[q] /\ call[q].client \in Clients /\ call[q].client # x
    BY <1>7, <1>10 DEF Typed
  <2>3. \A q \in Calls : call'[q].stage = "granted" =>
          /\ client'[call'[q].client].creds.refresh \notin accepted
          /\ client'[call'[q].client].shared
          /\ \A r \in Calls : call'[r].stage = "granted" /\ call'[r].client = call'[q].client => r = q
    BY <1>8, <2>2 DEF OneAnswerEach
  <2>4. \A q \in Calls : call'[q].stage = "asking" /\ call'[q].asked \in accepted =>
          call'[q].asked = client'[call'[q].client].creds.refresh
    BY <1>7, <1>8, <1>10 DEF OneAnswerEach, Typed
  <2> QED
    BY <1>3, <2>1, <2>3, <2>4 DEF OneAnswerEach
<1>18. NeverStranded'
  BY <1>2, <1>3, <1>5 DEF NeverStranded, FlightsAlive, Usable, Revoked
<1> QED
  BY <1>3, <1>12, <1>13, <1>14, <1>15, <1>16, <1>17, <1>18

LEMMA OtherCallStepsRotation ==
  ASSUME Typed, Rotation, rotates, NEW p \in Calls,
         Refuse(p) \/ Fail(p) \/ Finish(p) \/ LoseAnswer(p)
  PROVE  Rotation'
<1> USE DEF Rotation, Asking, Granted, Carried
<1>1. UNCHANGED <<accepted, issued, stored, client, writes, policy>>
  BY DEF Refuse, Fail, Finish, LoseAnswer, provider, ends
<1>2. \A q \in Calls : q # p => call'[q] = call[q]
  BY DEF Refuse, Fail, Finish, LoseAnswer, Typed, TypeOK
<1>3. call'[p].stage \notin {"asking", "granted"}
  BY DEF Refuse, Fail, Finish, LoseAnswer, NoCall, Typed, TypeOK, Call
<1>4. call'[p].asked \in {0, call[p].asked} /\ call'[p].got.refresh \in {0, call[p].got.refresh}
  BY DEF Refuse, Fail, Finish, LoseAnswer, NoCall, NoTokens, Typed, TypeOK, Call
<1>5. IssuedBefore'
  BY <1>1, <1>2, <1>4 DEF IssuedBefore, Typed, TypeOK
<1>6. AnswersAreNew' /\ WritesAreNew' /\ FlightsAlive'
  BY <1>1, <1>2, <1>3 DEF AnswersAreNew, WritesAreNew, FlightsAlive, Revoked
<1>7. NotShownYet' /\ OneAnswerEach'
  BY <1>1, <1>2, <1>3 DEF NotShownYet, OneAnswerEach
<1>8. NeverStranded'
  <2>1. CASE LoseAnswer(p)
    BY <2>1 DEF LoseAnswer, Lose, NeverStranded
  <2>2. CASE ~LoseAnswer(p)
    <3>1. lost' = lost /\ call[p].stage # "granted"
      BY <2>2 DEF Refuse, Fail, Finish
    <3> QED
      BY <1>1, <1>2, <3>1 DEF NeverStranded, Usable, Revoked
  <2> QED
    BY <2>1, <2>2
<1> QED
  BY <1>1, <1>5, <1>6, <1>7, <1>8

(* A write lands with a token that is alive, whatever the row holds by then. *)
LEMMA WriteRotation == ASSUME Typed, Rotation, rotates, WriteStep PROVE Rotation'
<1> USE DEF Rotation, Asking, Granted, Carried
<1>1. PICK w \in writes : ReadRow(w) \/ UpdateRow(w)
  BY DEF WriteStep
<1>2. UNCHANGED <<accepted, issued, client, call, policy, lost>>
  BY <1>1 DEF ReadRow, UpdateRow, provider, ends
<1>3. CASE ReadRow(w)
  <2> DEFINE r == [w EXCEPT !.stage = "read", !.tokens = Adopt(stored, w.tokens)]
  <2>1. Carried(r) = Carried(w) /\ r.at = w.at
    BY DEF WritesAreNew, Adopt, Typed, TypeOK, Write, Tokens
  <2>2. writes' = (writes \ {w}) \cup {r} /\ stored' = stored
    BY <1>3 DEF ReadRow
  <2> HIDE DEF r
  <2>3. IssuedBefore' /\ AnswersAreNew'
    BY <1>2, <2>1, <2>2 DEF IssuedBefore, AnswersAreNew
  <2>4. WritesAreNew' /\ FlightsAlive'
    BY <1>2, <2>1, <2>2 DEF WritesAreNew, FlightsAlive, Revoked
  <2>5. NotShownYet' /\ OneAnswerEach'
    BY <1>2, <2>1, <2>2 DEF NotShownYet, OneAnswerEach
  <2>6. NeverStranded'
    BY <1>2, <2>1, <2>2 DEF NeverStranded, Usable, Revoked
  <2> QED
    BY <1>2, <2>3, <2>4, <2>5, <2>6
<1>4. CASE UpdateRow(w)
  <2>1. stored' = w.tokens /\ writes' = writes \ {w}
    BY <1>4 DEF UpdateRow
  <2>2. IssuedBefore' /\ AnswersAreNew' /\ WritesAreNew' /\ FlightsAlive'
    BY <1>2, <2>1 DEF IssuedBefore, AnswersAreNew, WritesAreNew, FlightsAlive, Revoked
  <2>3. NotShownYet' /\ OneAnswerEach'
    BY <1>2, <2>1 DEF NotShownYet, OneAnswerEach
  <2>4. NeverStranded'
    BY <1>2, <2>1 DEF NeverStranded, FlightsAlive, Usable, Revoked
  <2> QED
    BY <1>2, <2>2, <2>3, <2>4
<1> QED
  BY <1>1, <1>3, <1>4

LEMMA NextRotation ==
  ASSUME RotatesByTheClock PROVE Typed /\ InTime /\ Rotation /\ [Next]_vars => Rotation'
<1> SUFFICES ASSUME Typed, InTime, Rotation, [Next]_vars, rotates' PROVE Rotation'
  BY DEF Rotation
<1>1. rotates' = rotates /\ policy' = policy
  BY DEF Next, vars, ends, Tick, Revoke, Reconnect, Build, Begin, BeginUnchecked, BeginPassthrough, CallStep,
         Grant, Refuse, Fail, Receive, Finish, LoseAnswer, WriteStep, ReadRow, UpdateRow, LoseWrite
<1>2. rotates
  BY <1>1
<1> USE <1>1, <1>2 DEF Asking, Granted, Carried
<1>3. CASE UNCHANGED <<provider, stored, client, call, lost, writes>>
  BY <1>3 DEF Rotation, provider, IssuedBefore, AnswersAreNew, WritesAreNew, FlightsAlive, NotShownYet,
              OneAnswerEach, NeverStranded, Usable, Revoked
<1>4. CASE Tick \/ UNCHANGED vars
  BY <1>3, <1>4 DEF Tick, vars
<1>5. CASE Revoke
  <2>1. accepted' = {} /\ UNCHANGED <<issued, stored, client, call, lost, writes>>
    BY <1>5 DEF Revoke
  <2> QED
    BY <2>1 DEF Rotation, IssuedBefore, AnswersAreNew, WritesAreNew, FlightsAlive, NotShownYet,
                OneAnswerEach, NeverStranded, Revoked
<1>6. CASE Reconnect
  <2> DEFINE n == issued + 1
  <2>1. /\ accepted' = accepted \cup {n} /\ stored'.refresh = n /\ issued' = n /\ issued \in Nat
        /\ UNCHANGED <<client, call, writes>> /\ writes = {}
        /\ \A p \in Calls : call[p].stage \notin {"asking", "granted"}
    BY <1>6 DEF Reconnect, Typed, TypeOK
  <2>2. IssuedBefore'
    BY <2>1 DEF Rotation, IssuedBefore, Typed, TypeOK, Client, Call, Tokens
  <2>3. \A x \in Clients : client[x].creds.refresh # n
    BY <2>1 DEF Rotation, IssuedBefore, Typed, TypeOK, Client, Tokens
  <2> HIDE DEF n
  <2>4. AnswersAreNew' /\ WritesAreNew' /\ FlightsAlive' /\ NotShownYet'
    BY <2>1 DEF AnswersAreNew, WritesAreNew, FlightsAlive, NotShownYet
  <2>5. OneAnswerEach'
    BY <2>1, <2>3 DEF Rotation, OneAnswerEach
  <2>6. NeverStranded'
    BY <2>1 DEF NeverStranded, Usable
  <2> QED
    BY <2>2, <2>4, <2>5, <2>6 DEF Rotation
<1>7. ASSUME NEW x \in Clients, Build(x) PROVE Rotation'
  <2>1. UNCHANGED <<accepted, issued, stored, call, writes, lost>>
        /\ \A p \in Calls : call[p].stage = "idle" \/ call[p].client # x
    BY <1>7 DEF Build, provider
  <2>2. /\ client'[x].creds = stored /\ client'[x].shared
        /\ \A y \in Clients : y # x => client'[y] = client[y]
    BY <1>7 DEF Build, Typed, TypeOK
  <2>3. IssuedBefore' /\ WritesAreNew' /\ FlightsAlive' /\ NeverStranded'
    BY <2>1, <2>2 DEF Rotation, IssuedBefore, WritesAreNew, FlightsAlive, NeverStranded, Usable, Revoked
  <2>4. AnswersAreNew'
    BY <2>1, <2>2 DEF Rotation, AnswersAreNew
  <2>5. NotShownYet'
    BY <2>1, <2>2 DEF Rotation, NotShownYet, WritesAreNew
  <2>6. OneAnswerEach'
    BY <2>1, <2>2 DEF Rotation, OneAnswerEach, Typed
  <2> QED
    BY <2>3, <2>4, <2>5, <2>6 DEF Rotation
<1>8. CASE \E w \in writes : LoseWrite(w)
  <2>1. /\ writes' \subseteq writes /\ lost'
        /\ UNCHANGED <<accepted, issued, stored, client, call>>
    BY <1>8 DEF LoseWrite, Lose, provider
  <2> QED
    BY <2>1 DEF Rotation, IssuedBefore, AnswersAreNew, WritesAreNew, FlightsAlive, NotShownYet,
                OneAnswerEach, NeverStranded, Revoked
<1> QED
  BY <1>4, <1>5, <1>6, <1>7, <1>8, AskRotation, GrantRotation, ReceiveRotation,
     OtherCallStepsRotation, WriteRotation DEF Next, CallStep

(* A connection is not stranded while the grant stands and nothing gets lost, however many *)
(* clients refresh at once: updateConnectionWithNewTokens, which is not atomic, puts no dead *)
(* token over a live one, because no answer is used up before it has reached the row.       *)
THEOREM ConnectionsStayUsable == ASSUME RotatesByTheClock PROVE Spec => []NeverStranded
<1>1. RowKept /\ Rotation => NeverStranded
  BY DEF RowKept, Rotation, NeverStranded, Usable
<1> QED
  BY <1>1, InitTyped, NextTyped, InitInTime, NextInTime, InitRowKept, NextRowKept,
     InitRotation, NextRotation, PTL DEF Spec

=============================================================================
