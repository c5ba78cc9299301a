---------------------------- MODULE SessionsProofs ----------------------------
(* Sessions, for any browsers, requests, lifetimes, limits and clock.         *)
EXTENDS Sessions, SequenceTheorems, FiniteSetTheorems, WellFoundedInduction, TLAPS

(* No sentinel is a token. *)
LEMMA Sentinels ==
  /\ None \notin Nat /\ Keep \notin Nat /\ Clear \notin Nat
  /\ None # Keep /\ None # Clear /\ Keep # Clear /\ Token \subseteq Nat
  /\ MaxSessions \in Nat \ {0} /\ MaxTokens \in Nat \ {0} /\ Ttl \in Nat
BY SentinelsAssumption, LimitsAssumption DEF Token

(* Sessions issued are numbered from one; a login adds the next. *)
LEMMA IssuedTokens ==
  ASSUME StoreInv
  PROVE  /\ Len(expiry) \in Nat /\ Issued = 1 .. Len(expiry) /\ Issued \subseteq Token
         /\ \A t \in Issued : expiry[t] \in Nat
         /\ sessions \subseteq Nat /\ Len(expiry) + 1 \notin Issued /\ None \notin Issued
<1>1. Len(expiry) \in Nat /\ Issued = 1 .. Len(expiry) /\ \A t \in Issued : expiry[t] \in Nat
  BY LenProperties DEF StoreInv, Issued
<1>2. QED
  BY <1>1, Sentinels DEF StoreInv, Token

LEMMA NewToken ==
  ASSUME StoreInv, expiry' = Append(expiry, now + Ttl)
  PROVE  /\ expiry' \in Seq(Nat) /\ Len(expiry') = Len(expiry) + 1
         /\ Issued' = Issued \cup {Len(expiry) + 1}
         /\ \A t \in Issued : expiry'[t] = expiry[t]
         /\ expiry'[Len(expiry) + 1] = now + Ttl
<1>1. now + Ttl \in Nat /\ expiry \in Seq(Nat)
  BY Sentinels DEF StoreInv
<1>2. /\ expiry' \in Seq(Nat) /\ Len(expiry') = Len(expiry) + 1
      /\ \A i \in 1 .. Len(expiry) : expiry'[i] = expiry[i]
      /\ expiry'[Len(expiry) + 1] = now + Ttl
  BY <1>1, AppendProperties
<1>3. Len(expiry) \in Nat /\ Issued = 1 .. Len(expiry) /\ Issued' = 1 .. Len(expiry')
  BY <1>1, <1>2, LenProperties DEF Issued
<1>4. QED
  BY <1>2, <1>3

(* Dropping the oldest drops no session that fewer than MaxSessions - 1     *)
(* later ones are stored of.                                                *)
LEMMA RoomKeepsYoung ==
  ASSUME NEW n \in Nat, NEW store \in SUBSET (1 .. n), NEW t \in store, t \notin WithRoom(store)
  PROVE  n - t >= MaxSessions - 1
<1> DEFINE later == { o \in store : o > t }
<1>0. t \in Nat /\ t <= n /\ \A o \in store : o \in Nat /\ o <= n
  OBVIOUS
<1>1. later \in SUBSET ((t + 1) .. n) /\ t \in Nat /\ t <= n
  <2>1. \A o \in later : o \in (t + 1) .. n
    BY <1>0
  <2>2. QED
    BY <1>0, <2>1
<1>2. IsFiniteSet((t + 1) .. n) /\ Cardinality((t + 1) .. n) = n - t
  BY <1>1, FS_Interval
<1>3. Cardinality(later) <= n - t /\ Cardinality(later) \in Nat
  BY <1>1, <1>2, FS_Subset, FS_CardinalityType
<1>4. ~(Cardinality(later) < MaxSessions - 1)
  BY DEF WithRoom
<1>5. QED
  BY <1>1, <1>3, <1>4, Sentinels

(* Every non-empty set of natural numbers has a least element. *)
LEMMA LeastNatural ==
  ASSUME NEW S \in SUBSET Nat, S # {}
  PROVE  \E m \in S : \A n \in S : m <= n
<1>1. PICK m \in S : \A n \in S : ~ (<<n, m>> \in OpToRel(<, Nat))
  BY NatLessThanWellFounded, WFMin, Zenon
<1>2. ASSUME NEW n \in S, n < m PROVE FALSE
  <2>1. <<n, m>> \in OpToRel(<, Nat)
    BY <1>2, SMT DEF OpToRel
  <2>2. QED
    BY <1>1, <2>1
<1>3. QED
  BY <1>2

(* A store that has just been made room in is never full. *)
LEMMA RoomIsMade ==
  ASSUME NEW store \in SUBSET Nat, IsFiniteSet(store)
  PROVE  /\ IsFiniteSet(WithRoom(store)) /\ Cardinality(WithRoom(store)) \in Nat
         /\ Cardinality(WithRoom(store)) <= MaxSessions - 1
<1> DEFINE kept == WithRoom(store)
<1>1. kept \subseteq store /\ IsFiniteSet(kept) /\ Cardinality(kept) \in Nat
  BY FS_Subset, FS_CardinalityType DEF WithRoom
<1>2. CASE kept = {}
  BY <1>2, FS_EmptySet, Sentinels
<1>3. CASE kept # {}
  <2>1. PICK m \in kept : \A t \in kept : m <= t
    <3>1. \E m \in kept : \A t \in kept : m <= t
      BY <1>1, <1>3, LeastNatural
    <3>2. QED
      BY <3>1
  <2> DEFINE later == { o \in store : o > m }
  <2>2. IsFiniteSet(later) /\ Cardinality(later) \in Nat /\ Cardinality(later) < MaxSessions - 1
    BY <1>1, <2>1, FS_Subset, FS_CardinalityType DEF WithRoom
  <2>3. kept \subseteq later \cup {m}
    <3>1. \A t \in kept : t \in store /\ t \in Nat /\ m \in Nat
      BY <1>1, <2>1
    <3>2. \A t \in kept : t = m \/ t > m
      BY <2>1, <3>1
    <3> HIDE DEF kept
    <3>3. QED
      BY <3>1, <3>2
  <2> HIDE DEF kept, later
  <2>4. IsFiniteSet(later \cup {m}) /\ Cardinality(later \cup {m}) <= Cardinality(later) + 1
        /\ Cardinality(later \cup {m}) \in Nat
    <3>1. /\ IsFiniteSet(later \cup {m})
          /\ Cardinality(later \cup {m}) = IF m \in later THEN Cardinality(later) ELSE Cardinality(later) + 1
      BY <2>2, FS_AddElement, Zenon
    <3>2. QED
      BY <2>2, <3>1
  <2>5. Cardinality(kept) <= Cardinality(later \cup {m})
    BY <2>3, <2>4, FS_Subset
  <2>6. QED
    BY <1>1, <2>2, <2>4, <2>5, Sentinels DEF kept
<1>4. QED
  BY <1>2, <1>3

----------------------------------------------------------------------------
(* The store.                                                              *)

(* What a login creates. *)
LEMMA CreateStep ==
  ASSUME StoreInv, NEW existing \in Issued \cup {None}, Create(existing), now' = now
  PROVE  /\ StoreInv'
         /\ \A t \in Issued \cup {None} : Known(t)' => Known(t) /\ t # existing
<1> DEFINE n == Len(expiry)  store == Pruned(sessions) \ {existing}
<1>1. /\ n \in Nat /\ Issued = 1 .. n /\ \A t \in Issued : expiry[t] \in Nat
      /\ n + 1 \notin Issued /\ None \notin Issued /\ None # n + 1
  BY IssuedTokens, Sentinels
<1>2. /\ sessions' = WithRoom(store) \cup {n + 1} /\ n < MaxTokens
      /\ expiry' = Append(expiry, now + Ttl)
      /\ ended' = IF existing = None THEN ended ELSE ended \cup {existing}
  BY DEF Create
<1>3. /\ expiry' \in Seq(Nat) /\ Len(expiry') = n + 1 /\ Issued' = Issued \cup {n + 1}
      /\ \A t \in Issued : expiry'[t] = expiry[t]
      /\ expiry'[n + 1] = now + Ttl
  BY <1>2, NewToken
<1>4. /\ store \subseteq sessions /\ existing \notin store /\ WithRoom(store) \subseteq store
      /\ \A t \in store : expiry[t] > now
      /\ sessions \subseteq Issued /\ ended \subseteq Issued /\ sessions \cap ended = {}
  BY DEF Pruned, WithRoom, StoreInv
<1>5. store \in SUBSET (1 .. n)
  BY <1>1, <1>4
<1> HIDE DEF n, store
<1>6. ASSUME NEW t \in Issued', Live(t)'
      PROVE  t \in sessions' \/ Len(expiry') - t >= MaxSessions
  <2>1. CASE t = n + 1
    BY <1>2, <2>1
  <2>2. CASE t \in Issued
    <3>1. t \notin ended /\ t # existing /\ now < expiry[t] /\ t \in Nat
      BY <1>1, <1>2, <1>3, <1>6, <2>2 DEF Live
    <3>2. CASE t \in sessions
      <4>1. t \in store
        BY <3>1, <3>2, <1>1, <2>2 DEF store, Pruned, StoreInv
      <4>2. CASE t \notin WithRoom(store)
        <5>1. n - t >= MaxSessions - 1
          BY <1>1, <1>5, <4>1, <4>2, RoomKeepsYoung
        <5>2. QED
          BY <1>1, <1>3, <3>1, <5>1, Sentinels
      <4>3. QED
        BY <1>2, <4>2
    <3>3. CASE t \notin sessions
      <4>1. n - t >= MaxSessions
        BY <2>2, <3>1, <3>3 DEF n, StoreInv, Live
      <4>2. QED
        BY <1>1, <1>3, <3>1, <4>1, Sentinels
    <3>4. QED
      BY <3>2, <3>3
  <2>3. QED
    BY <1>3, <2>1, <2>2
<1>7. sessions' \subseteq Issued' /\ ended' \subseteq Issued' /\ sessions' \cap ended' = {}
  BY <1>1, <1>2, <1>3, <1>4
<1>8. StoreInv'
  BY <1>1, <1>2, <1>3, <1>6, <1>7, Sentinels DEF StoreInv
<1>9. ASSUME NEW t \in Issued \cup {None}, Known(t)'
      PROVE  Known(t) /\ t # existing
  <2>1. t \in sessions' /\ t # n + 1
    BY <1>1, <1>9 DEF Known, Pruned
  <2>2. t \in store
    BY <1>2, <1>4, <2>1
  <2>3. QED
    BY <1>4, <2>2 DEF store, Known
<1>10. QED
  BY <1>8, <1>9

(* Everything else only removes sessions. *)
LEMMA RemoveStep ==
  ASSUME StoreInv, UNCHANGED expiry, now' \in Nat, now' >= now,
         sessions' \subseteq sessions, ended \subseteq ended', ended' \subseteq Issued,
         sessions' \cap ended' = {},
         \A t \in sessions \ sessions' : expiry[t] <= now' \/ t \in ended'
  PROVE  StoreInv' /\ \A t \in Issued \cup {None} : Known(t)' => Known(t)
<1>1. /\ Len(expiry) \in Nat /\ \A t \in Issued : expiry[t] \in Nat /\ now \in Nat
      /\ Issued' = Issued
  BY IssuedTokens DEF StoreInv, Issued
<1>2. ASSUME NEW t \in Issued, Live(t)'
      PROVE  t \in sessions' \/ Len(expiry) - t >= MaxSessions
  <2>1. t \notin ended /\ now < expiry[t] /\ ~(expiry[t] <= now') /\ t \notin ended'
    BY <1>1, <1>2 DEF Live
  <2>2. t \in sessions \/ Len(expiry) - t >= MaxSessions
    BY <2>1 DEF StoreInv, Live
  <2>3. QED
    BY <2>1, <2>2
<1>3. StoreInv'
  BY <1>1, <1>2 DEF StoreInv
<1>4. ASSUME NEW t \in Issued \cup {None}, Known(t)' PROVE Known(t)
  <2>1. t \in sessions /\ t \in Issued /\ expiry[t] > now'
    BY <1>4 DEF Known, Pruned, StoreInv
  <2>2. QED
    BY <1>1, <2>1 DEF Known, Pruned
<1>5. QED
  BY <1>3, <1>4

LEMMA StoreStep ==
  ASSUME IInv, [Next]_vars
  PROVE  /\ StoreInv' /\ Issued \subseteq Issued'
         /\ \A t \in Issued \cup {None} : Known(t)' => Known(t)
<1>0. StoreInv /\ now \in Nat /\ \A t \in Issued : expiry[t] \in Nat
  BY IssuedTokens DEF IInv, StoreInv
<1>1. CASE UNCHANGED <<now, sessions, expiry, ended>>
  BY <1>0, <1>1, RemoveStep DEF StoreInv, Issued
<1>2. CASE UNCHANGED <<now, expiry, ended>> /\ sessions' = Pruned(sessions)
  <2>1. \A t \in sessions \ sessions' : expiry[t] <= now
    BY <1>0, <1>2 DEF Pruned, StoreInv
  <2>2. QED
    BY <1>0, <1>2, <2>1, RemoveStep DEF Pruned, StoreInv, Issued
<1>3. ASSUME NEW r \in Requests, Logout(r) PROVE StoreInv' /\ Issued \subseteq Issued' /\ \A t \in Issued \cup {None} : Known(t)' => Known(t)
  <2>1. /\ sessions' = Pruned(sessions) \ {requests[r].cookie} /\ UNCHANGED <<now, expiry>>
        /\ ended' = ended \cup {requests[r].cookie} /\ requests[r].cookie \in sessions
    BY <1>3 DEF Logout, Passes, Known, Pruned
  <2>2. \A t \in sessions \ sessions' : expiry[t] <= now \/ t \in ended'
    BY <1>0, <2>1 DEF Pruned, StoreInv
  <2>3. sessions' \subseteq sessions /\ sessions' \cap ended' = {} /\ ended' \subseteq Issued /\ ended \subseteq ended'
    BY <1>0, <2>1 DEF Pruned, StoreInv
  <2>4. QED
    BY <1>0, <2>1, <2>2, <2>3, RemoveStep DEF Issued
<1>4. ASSUME NEW r \in Requests, LoginSucceeds(r) PROVE StoreInv' /\ Issued \subseteq Issued' /\ \A t \in Issued \cup {None} : Known(t)' => Known(t)
  <2>1. /\ requests[r] # None /\ requests[r].phase = "inside" /\ requests[r].kind = "login"
        /\ Create(requests[r].session) /\ now' = now
    BY <1>4 DEF LoginSucceeds, Inside
  <2>2. requests[r].session \in Issued \cup {None}
    BY <2>1 DEF IInv, GoodRequest
  <2>3. Issued' = Issued \cup {Len(expiry) + 1}
    BY <1>0, <2>1, NewToken DEF Create
  <2>4. QED
    BY <1>0, <2>1, <2>2, <2>3, CreateStep
<1>5. CASE Tick
  BY <1>0, <1>5, RemoveStep DEF Tick, server, StoreInv, Issued
<1>6. CASE Restart
  BY <1>0, <1>6, RemoveStep DEF Restart, StoreInv, Issued
<1>7. QED
  BY <1>1, <1>2, <1>3, <1>4, <1>5, <1>6
  DEF Next, Send, Deliver, Unavailable, Open, Refuse, Admit, Finish, Me, TurnAway, AttachLogin,
      LoginFails, LoseCookie, Looked, vars, server

----------------------------------------------------------------------------
(* Requests.                                                               *)

LEMMA GoodStays ==
  ASSUME NEW q, GoodRequest(q), Issued \subseteq Issued',
         \A t \in Issued \cup {None} : Known(t)' => Known(t)
  PROVE  GoodRequest(q)'
BY DEF GoodRequest

(* One request moves on and the others stay. *)
LEMMA OneMoves ==
  ASSUME IInv, [Next]_vars, NEW r \in Requests, NEW q, requests' = [requests EXCEPT ![r] = q],
         GoodRequest(q)', q \in Request \cup Response \cup {None}
  PROVE  /\ requests' \in [Requests -> Request \cup Response \cup {None}]
         /\ \A p \in Requests : GoodRequest(requests[p])'
<1>1. requests \in [Requests -> Request \cup Response \cup {None}] /\ \A p \in Requests : GoodRequest(requests[p])
  BY DEF IInv
<1>2. \A p \in Requests : requests'[p] = IF p = r THEN q ELSE requests[p]
  BY <1>1
<1>3. \A p \in Requests : p # r => GoodRequest(requests[p])'
  BY <1>1, <1>2, StoreStep, GoodStays
<1>4. GoodRequest(requests[r])'
  BY <1>2
<1>5. QED
  BY <1>1, <1>3, <1>4

RequestsInv == /\ requests \in [Requests -> Request \cup Response \cup {None}]
               /\ \A p \in Requests : GoodRequest(requests[p])

LEMMA AnswerStep ==
  ASSUME IInv, [Next]_vars, NEW r \in Requests, requests[r] # None, NEW cookie, NEW page,
         NEW c, c = requests[r].cookie,
         Answer(r, cookie, page), cookie \in Issued' \cup {Keep, Clear}, page \in Token \cup {None, Keep},
         cookie # Keep => ~Known(c)'
  PROVE  RequestsInv'
<1>0. PICK q : q = [ browser |-> requests[r].browser, cookie |-> c, phase |-> "answered",
                     cookie_out |-> cookie, csrf_out |-> page ]
  OBVIOUS
<1>1. /\ requests[r].browser \in Browsers /\ requests[r].cookie \in Issued \cup {None}
      /\ requests[r].cookie \in Token \cup {None}
      /\ Issued \subseteq Issued' /\ Issued' \subseteq Token
  <2>1. GoodRequest(requests[r])
    BY DEF IInv
  <2>2. requests[r] \in Request \cup Response /\ requests[r].cookie \in Issued \cup {None}
    BY <2>1 DEF GoodRequest
  <2>3. requests[r].browser \in Browsers /\ requests[r].cookie \in Token \cup {None}
    BY <2>2 DEF Request, Response
  <2>4. StoreInv' /\ Issued \subseteq Issued'
    BY StoreStep
  <2>5. Issued' \subseteq Token
    BY <2>4, LenProperties, Sentinels DEF StoreInv, Issued, Token
  <2>6. QED
    BY <2>2, <2>3, <2>4, <2>5
<1>2. q \in Response
  BY <1>0, <1>1 DEF Response
<1>3. requests' = [requests EXCEPT ![r] = q]
  BY <1>0 DEF Answer, IInv
<1>4. q.cookie = c /\ q.phase = "answered" /\ q.cookie_out = cookie
  BY <1>0
<1>5. GoodRequest(q)'
  BY <1>1, <1>2, <1>4 DEF GoodRequest
<1>6. QED
  BY <1>2, <1>3, <1>5, OneMoves DEF RequestsInv

LEMMA EnterStep ==
  ASSUME IInv, [Next]_vars, NEW r \in Requests, NEW kinds, Sent(r, kinds), NEW session, Enter(r, session),
         NEW c, c = requests[r].cookie,
         session = c \/ (session = None /\ (requests[r].kind = "login" => ~Known(c)'))
  PROVE  RequestsInv'
<1>0. PICK q : q = [requests[r] EXCEPT !.phase = "inside", !.session = session]
  OBVIOUS
<1>1. /\ requests[r] # None /\ requests[r].phase = "sent" /\ GoodRequest(requests[r])
      /\ Issued \subseteq Issued'
  BY StoreStep DEF Sent, IInv
<1>2. requests[r] \in Request /\ requests[r].cookie \in Issued \cup {None}
  BY <1>1 DEF GoodRequest, Response
<1>3. session \in Token \cup {None}
  BY <1>2 DEF Request
<1>4. /\ q \in Request /\ q.phase = "inside" /\ q.session = session
      /\ q.cookie = c /\ q.kind = requests[r].kind
  BY <1>0, <1>2, <1>3 DEF Request
<1>5. requests' = [requests EXCEPT ![r] = q]
  BY <1>0 DEF Enter, IInv
<1>6. GoodRequest(q)'
  BY <1>1, <1>2, <1>4 DEF GoodRequest
<1>7. QED
  BY <1>4, <1>5, <1>6, OneMoves DEF RequestsInv

LEMMA RequestsStep == IInv /\ [Next]_vars => RequestsInv'
<1> SUFFICES ASSUME IInv, [Next]_vars PROVE RequestsInv'
  OBVIOUS
<1>0. /\ \A t \in Issued \cup {None} : Known(t)' => Known(t)
      /\ StoreInv /\ Issued \subseteq Issued' /\ Issued \subseteq Token /\ Len(expiry) \in Nat
      /\ None \notin Issued /\ ~Known(None) /\ Keep # Clear
  BY StoreStep, IssuedTokens, Sentinels DEF IInv, Known, Pruned, StoreInv
<1>1. ASSUME NEW r \in Requests, requests[r] # None
      PROVE  /\ GoodRequest(requests[r])
             /\ \E c \in Issued \cup {None} : c = requests[r].cookie
  BY <1>1 DEF IInv, GoodRequest
<1>2. ASSUME NEW r \in Requests, NEW b \in Browsers, NEW kind \in Kinds, Send(r, b, kind) PROVE RequestsInv'
  <2>1. PICK q : q = [ browser |-> b, kind |-> kind, cookie |-> jar[b],
                       csrf |-> IF kind \in Unsafe THEN csrf[b] ELSE None, phase |-> "sent", session |-> None ]
    OBVIOUS
  <2>2. jar[b] \in Issued \cup {None} /\ jar[b] \in Token \cup {None} /\ csrf[b] \in Token \cup {None}
    BY <1>0 DEF IInv
  <2>3. q \in Request /\ q.cookie \in Issued \cup {None} /\ q.phase = "sent"
    BY <2>1, <2>2 DEF Request
  <2>4. GoodRequest(q)'
    BY <1>0, <2>3 DEF GoodRequest
  <2>5. requests' = [requests EXCEPT ![r] = q]
    BY <1>2, <2>1 DEF Send
  <2>6. QED
    BY <2>3, <2>4, <2>5, OneMoves DEF RequestsInv
<1>3. ASSUME NEW r \in Requests, Deliver(r) PROVE RequestsInv'
  <2>1. requests' = [requests EXCEPT ![r] = None]
    BY <1>3 DEF Deliver
  <2>2. GoodRequest(None)'
    BY DEF GoodRequest
  <2>3. QED
    BY <2>1, <2>2, OneMoves DEF RequestsInv
<1>4. ASSUME NEW r \in Requests, requests[r] # None, NEW page \in Token \cup {None, Keep}, Answer(r, Keep, page)
      PROVE  RequestsInv'
  BY <1>1, <1>4, AnswerStep
<1>5. ASSUME NEW r \in Requests, NEW page \in {None, Keep}, NEW c, c = requests[r].cookie, requests[r] # None,
             ~Known(c)', Answer(r, Clear, page)
      PROVE  RequestsInv'
  BY <1>5, AnswerStep
<1>6. ASSUME NEW r \in Requests, Unavailable(r) \/ Finish(r) \/ TurnAway(r) PROVE RequestsInv'
  BY <1>4, <1>6 DEF Unavailable, Finish, TurnAway, Sent, Inside
<1>7. ASSUME NEW r \in Requests, Open(r) PROVE RequestsInv'
  <2>1. CASE requests[r].kind \in {"read", "write"}
    BY <1>1, <1>7, <2>1, EnterStep DEF Open, Sent
  <2>2. CASE requests[r].kind \notin {"read", "write"}
    BY <1>4, <1>7, <2>2 DEF Open, Sent
  <2>3. QED
    BY <2>1, <2>2
<1>8. ASSUME NEW r \in Requests, Refuse(r) PROVE RequestsInv'
  <2>1. requests[r] # None
    BY <1>8 DEF Refuse, Sent
  <2>2. PICK c \in Issued \cup {None} : c = requests[r].cookie
    BY <1>1, <2>1
  <2>3. CASE Known(c)
    BY <1>4, <1>8, <2>1, <2>2, <2>3 DEF Refuse
  <2>4. CASE ~Known(c)
    BY <1>0, <1>4, <1>5, <1>8, <2>1, <2>2, <2>4 DEF Refuse
  <2>5. QED
    BY <2>3, <2>4
<1>9. ASSUME NEW r \in Requests, Admit(r) PROVE RequestsInv'
  <2>1. requests[r] # None
    BY <1>9 DEF Admit, Sent
  <2>2. PICK c \in Issued \cup {None} : c = requests[r].cookie
    BY <1>1, <2>1
  <2>3. QED
    BY <1>9, <2>2, EnterStep DEF Admit
<1>10. ASSUME NEW r \in Requests, Me(r) PROVE RequestsInv'
  <2>1. requests[r] # None /\ Answer(r, Keep, requests[r].cookie)
    BY <1>10 DEF Me, Sent
  <2>2. PICK c \in Issued \cup {None} : c = requests[r].cookie
    BY <1>1, <2>1
  <2>3. QED
    BY <1>0, <1>4, <2>1, <2>2
<1>11. ASSUME NEW r \in Requests, Logout(r) PROVE RequestsInv'
  <2>1. requests[r] # None /\ Answer(r, Clear, None) /\ sessions' = Pruned(sessions) \ {requests[r].cookie}
    BY <1>11 DEF Logout, Sent
  <2>2. PICK c \in Issued \cup {None} : c = requests[r].cookie
    BY <1>1, <2>1
  <2>3. ~Known(c)'
    BY <2>1, <2>2 DEF Known, Pruned
  <2>4. QED
    BY <1>5, <2>1, <2>2, <2>3
<1>12. ASSUME NEW r \in Requests, AttachLogin(r) PROVE RequestsInv'
  <2>1. requests[r] # None /\ Sent(r, {"login"})
    BY <1>12 DEF AttachLogin, Sent
  <2>2. PICK c \in Issued \cup {None} : c = requests[r].cookie
    BY <1>1, <2>1
  <2>3. CASE Known(c)
    BY <1>12, <2>1, <2>2, <2>3, EnterStep DEF AttachLogin
  <2>4. CASE ~Known(c)
    BY <1>0, <1>12, <2>1, <2>2, <2>4, EnterStep DEF AttachLogin
  <2>5. QED
    BY <2>3, <2>4
<1>13. ASSUME NEW r \in Requests, LoginSucceeds(r) PROVE RequestsInv'
  <2>1. /\ requests[r] # None /\ requests[r].phase = "inside" /\ requests[r].kind = "login"
        /\ Create(requests[r].session) /\ now' = now /\ Answer(r, Len(expiry) + 1, None)
    BY <1>13 DEF LoginSucceeds, Inside
  <2>2. PICK c \in Issued \cup {None} : c = requests[r].cookie
    BY <1>1, <2>1
  <2>3. requests[r].session = c \/ (requests[r].session = None /\ ~Known(c))
    BY <1>1, <2>1, <2>2 DEF GoodRequest
  <2>4. PICK session \in Issued \cup {None} : session = requests[r].session
    BY <2>2, <2>3
  <2>5. ~Known(c)'
    BY <1>0, <2>1, <2>3, <2>4, CreateStep
  <2>6. PICK new : new = Len(expiry) + 1
    OBVIOUS
  <2>7. new \in Issued'
    BY <1>0, <2>1, <2>6, NewToken DEF Create
  <2>8. QED
    BY <2>1, <2>2, <2>5, <2>6, <2>7, AnswerStep
<1>14. ASSUME NEW r \in Requests, LoginFails(r) PROVE RequestsInv'
  <2>1. /\ requests[r] # None /\ requests[r].phase = "inside" /\ requests[r].kind = "login"
        /\ Answer(r, IF BadCookie(requests[r]) THEN Clear ELSE Keep, Keep)
    BY <1>14 DEF LoginFails, Inside
  <2>2. PICK c \in Issued \cup {None} : c = requests[r].cookie
    BY <1>1, <2>1
  <2>3. CASE BadCookie(requests[r])
    <3>1. ~Known(c)
      BY <1>0, <1>1, <2>1, <2>2, <2>3 DEF GoodRequest, BadCookie
    <3>2. QED
      BY <1>0, <1>5, <2>1, <2>2, <2>3, <3>1
  <2>4. CASE ~BadCookie(requests[r])
    BY <1>4, <2>1, <2>4
  <2>5. QED
    BY <2>3, <2>4
<1>15. CASE Restart
  BY <1>15 DEF Restart, RequestsInv, GoodRequest
<1>16. CASE UNCHANGED requests
  <2>1. \A r \in Requests : GoodRequest(requests[r])'
    BY <1>0, <1>16, GoodStays DEF IInv
  <2>2. QED
    BY <1>16, <2>1 DEF RequestsInv, IInv
<1>17. QED
  BY <1>2, <1>3, <1>6, <1>7, <1>8, <1>9, <1>10, <1>11, <1>12, <1>13, <1>14, <1>15, <1>16
  DEF Next, Tick, LoseCookie, vars

LEMMA BrowsersStep ==
  IInv /\ [Next]_vars => jar' \in [Browsers -> Issued' \cup {None}] /\ csrf' \in [Browsers -> Token \cup {None}]
<1> SUFFICES ASSUME IInv, [Next]_vars
             PROVE  jar' \in [Browsers -> Issued' \cup {None}] /\ csrf' \in [Browsers -> Token \cup {None}]
  OBVIOUS
<1>0. Issued \subseteq Issued'
  BY StoreStep
<1>1. CASE UNCHANGED browsers
  BY <1>0, <1>1 DEF browsers, IInv
<1>2. ASSUME NEW r \in Requests, Deliver(r)
      PROVE  jar' \in [Browsers -> Issued' \cup {None}] /\ csrf' \in [Browsers -> Token \cup {None}]
  <2>1. PICK q : q = requests[r]
    OBVIOUS
  <2>2. q # None /\ q.phase = "answered" /\ GoodRequest(q)
    BY <1>2, <2>1 DEF Deliver, IInv
  <2>3. q \in Response /\ q.cookie_out \in Issued \cup {Keep, Clear}
    BY <2>2 DEF GoodRequest, Request
  <2>4. jar' = CASE q.cookie_out = Keep  -> jar
                 [] q.cookie_out = Clear -> [jar EXCEPT ![q.browser] = None]
                 [] OTHER                -> [jar EXCEPT ![q.browser] = q.cookie_out]
    BY <1>2, <2>1 DEF Deliver
  <2>5. csrf' = IF q.csrf_out = Keep THEN csrf ELSE [csrf EXCEPT ![q.browser] = q.csrf_out]
    BY <1>2, <2>1 DEF Deliver
  <2>6. csrf' \in [Browsers -> Token \cup {None}]
    BY <2>3, <2>5 DEF Response, IInv
  <2>7. jar' \in [Browsers -> Issued \cup {None}]
    BY <2>3, <2>4, Sentinels DEF IInv
  <2>8. QED
    BY <1>0, <2>6, <2>7
<1>3. ASSUME NEW b \in Browsers, LoseCookie(b)
      PROVE  jar' \in [Browsers -> Issued' \cup {None}] /\ csrf' \in [Browsers -> Token \cup {None}]
  BY <1>0, <1>3 DEF LoseCookie, IInv
<1>4. QED
  BY <1>1, <1>2, <1>3
  DEF Next, Send, Unavailable, Open, Refuse, Admit, Finish, Me, Logout, TurnAway, AttachLogin,
      LoginSucceeds, LoginFails, Tick, Restart, vars

----------------------------------------------------------------------------
(* Theorems.                                                               *)

(* The invariant that ties the store, the requests under way and the       *)
(* cookies of the browsers together is inductive.                          *)
THEOREM SessionsInvariant == Spec => []IInv
<1>1. Init => IInv
  <2> SUFFICES ASSUME Init PROVE IInv
    OBVIOUS
  <2>1. <<>> \in Seq(Nat) /\ Len(<<>>) = 0 /\ DOMAIN <<>> = {}
    BY EmptySeq
  <2>2. Issued = {} /\ StoreInv
    BY <2>1, Sentinels DEF Init, StoreInv, Issued
  <2>3. QED
    BY <2>2 DEF Init, IInv, GoodRequest
<1>2. IInv /\ [Next]_vars => IInv'
  BY StoreStep, RequestsStep, BrowsersStep DEF IInv, RequestsInv
<1>3. QED
  BY <1>1, <1>2, PTL DEF Spec

(* For any lifetime and any limit: no session but a live one is known, and  *)
(* a live one gives way to MaxSessions later logins only.                   *)
THEOREM StoreTheorem == Spec => []StoreIsExact
<1>1. IInv => StoreIsExact
  <2> SUFFICES ASSUME IInv PROVE StoreIsExact
    OBVIOUS
  <2>1. StoreInv /\ now \in Nat /\ \A t \in Issued : expiry[t] \in Nat
    BY IssuedTokens DEF IInv, StoreInv
  <2>2. QED
    BY <2>1 DEF StoreIsExact, StoreInv, Known, Pruned, Live
<1>2. QED
  BY <1>1, SessionsInvariant, PTL

(* However long an answer is under way, the cookie it takes away or         *)
(* replaces is no longer that of a session.                                 *)
THEOREM CookieTheorem == Spec => []CookieChangeEndsSession
<1>1. IInv => CookieChangeEndsSession
  BY DEF IInv, GoodRequest, CookieChangeEndsSession
<1>2. QED
  BY <1>1, SessionsInvariant, PTL

(* Only the request itself changes what becomes of it. *)
LEMMA OwnStep ==
  ASSUME IInv, [Next]_vars, NEW r \in Requests, requests'[r] \notin {requests[r], None}
  PROVE  \/ \E b \in Browsers, kind \in Kinds : Send(r, b, kind)
         \/ Unavailable(r) \/ Open(r) \/ Refuse(r) \/ Admit(r) \/ Finish(r) \/ Me(r) \/ Logout(r)
         \/ TurnAway(r) \/ AttachLogin(r) \/ LoginSucceeds(r) \/ LoginFails(r)
<1>1. requests \in [Requests -> Request \cup Response \cup {None}]
  BY DEF IInv
<1>2. ~Restart /\ ~UNCHANGED requests
  BY DEF Restart
<1>3. ASSUME NEW p \in Requests, p # r, requests'[r] # requests[r]
      PROVE  /\ ~Deliver(p) /\ ~Unavailable(p) /\ ~Open(p) /\ ~Refuse(p) /\ ~Admit(p) /\ ~Finish(p)
             /\ ~Me(p) /\ ~Logout(p) /\ ~TurnAway(p) /\ ~AttachLogin(p) /\ ~LoginSucceeds(p) /\ ~LoginFails(p)
             /\ \A b \in Browsers, kind \in Kinds : ~Send(p, b, kind)
  <2>1. \A q : requests' # [requests EXCEPT ![p] = q]
    BY <1>1, <1>3
  <2>2. (\A cookie, page : ~Answer(p, cookie, page)) /\ \A session : ~Enter(p, session)
    BY <1>1, <1>3 DEF Answer, Enter
  <2>3. QED
    BY <2>1, <2>2 DEF Deliver, Unavailable, Open, Refuse, Admit, Finish, Me, Logout, TurnAway, AttachLogin,
       LoginSucceeds, LoginFails, Send
<1>4. ~Deliver(r)
  BY <1>1 DEF Deliver
<1>5. ~Tick /\ ~(\E b \in Browsers : LoseCookie(b)) /\ ~UNCHANGED vars
  BY <1>2 DEF Tick, LoseCookie, vars
<1>6. QED
  BY <1>2, <1>3, <1>4, <1>5 DEF Next

(* No request is served for a session that has ended, or with the CSRF      *)
(* token of another one.                                                    *)
THEOREM ServingTheorem == Spec => OnlyLiveSessionsServe
<1>1. ASSUME IInv, [Next]_vars, NEW r \in Requests, Reaches(r)
      PROVE  LET q == requests[r] IN
             /\ mode = "ready" /\ Live(q.cookie)
             /\ q.kind \in Unsafe => q.csrf = q.cookie
             /\ Inside(r, Kinds)' => requests'[r].session = q.cookie
  <2>1. /\ requests[r].phase = "sent" /\ requests[r].kind # "login" /\ mode # "disabled"
        /\ requests'[r] \notin {requests[r], None} /\ requests[r] # None
        /\ Inside(r, Kinds)' \/ requests'[r].csrf_out \in Token \/ ended' # ended
    BY <1>1 DEF Reaches, Sent
  <2>2. /\ requests \in [Requests -> Request \cup Response \cup {None}]
        /\ StoreInv /\ None \notin Token /\ Keep \notin Token
    BY <1>1, Sentinels DEF IInv
  <2>3. Unavailable(r) \/ Refuse(r) \/ Admit(r) \/ Me(r) \/ Logout(r)
    BY <1>1, <2>1, OwnStep DEF Send, Open, Finish, TurnAway, Sent, Inside, AttachLogin, LoginSucceeds, LoginFails
  <2>4. ASSUME NEW cookie, NEW page \in {Keep, None}, Answer(r, cookie, page), ended' = ended
        PROVE  FALSE
    <3>1. requests'[r].phase = "answered" /\ requests'[r].csrf_out = page
      BY <2>2, <2>4 DEF Answer
    <3>2. QED
      BY <2>1, <2>2, <2>4, <3>1 DEF Inside
  <2>5. Admit(r) \/ Me(r) \/ Logout(r)
    BY <2>3, <2>4 DEF Unavailable, Refuse, server
  <2>6. mode = "ready" /\ Passes(requests[r])
    BY <2>5 DEF Admit, Me, Logout
  <2>7. Live(requests[r].cookie)
    BY <2>2, <2>6 DEF Passes, Known, Pruned, StoreInv, Live
  <2>8. Inside(r, Kinds)' => requests'[r].session = requests[r].cookie
    <3>1. CASE Admit(r)
      <4>1. requests'[r] = [requests[r] EXCEPT !.phase = "inside", !.session = requests[r].cookie]
        BY <2>2, <3>1 DEF Admit, Enter
      <4>2. requests[r] \in Request
        BY <2>1, <2>2 DEF Response
      <4>3. QED
        BY <4>1, <4>2 DEF Request
    <3>2. CASE Me(r) \/ Logout(r)
      <4>1. requests'[r].phase = "answered"
        BY <2>2, <3>2 DEF Me, Logout, Answer
      <4>2. QED
        BY <4>1 DEF Inside
    <3>3. QED
      BY <2>5, <3>1, <3>2
  <2>9. QED
    BY <2>6, <2>7, <2>8 DEF Passes
<1>2. IInv /\ [Next]_vars => [\A r \in Requests :
       LET q == requests[r] IN
         Reaches(r) => /\ mode = "ready"
                       /\ Live(q.cookie)
                       /\ q.kind \in Unsafe => q.csrf = q.cookie
                       /\ Inside(r, Kinds)' => requests'[r].session = q.cookie]_vars
  BY <1>1
<1>3. QED
  BY <1>2, SessionsInvariant, PTL DEF Spec, OnlyLiveSessionsServe

(* The store never holds more than MaxSessions sessions. *)
LEMMA BoundStep ==
  ASSUME IInv, [Next]_vars, Cardinality(sessions) <= MaxSessions
  PROVE  Cardinality(sessions') <= MaxSessions
<1>1. /\ IsFiniteSet(sessions) /\ Cardinality(sessions) \in Nat
      /\ StoreInv /\ sessions \in SUBSET Nat /\ Len(expiry) \in Nat
  <2>1. StoreInv /\ Len(expiry) \in Nat /\ sessions \subseteq 1 .. Len(expiry) /\ sessions \subseteq Nat
    BY IssuedTokens DEF IInv, StoreInv
  <2>2. IsFiniteSet(1 .. Len(expiry))
    BY <2>1, FS_Interval
  <2>3. QED
    BY <2>1, <2>2, FS_Subset, FS_CardinalityType
<1>2. CASE sessions' \subseteq sessions
  <2>1. Cardinality(sessions') <= Cardinality(sessions) /\ Cardinality(sessions') \in Nat
    BY <1>1, <1>2, FS_Subset, FS_CardinalityType
  <2>2. QED
    BY <1>1, <2>1, Sentinels
<1>3. ASSUME NEW r \in Requests, LoginSucceeds(r) PROVE Cardinality(sessions') <= MaxSessions
  <2>1. PICK store : store = Pruned(sessions) \ {requests[r].session}
    OBVIOUS
  <2>2. PICK kept : kept = WithRoom(store)
    OBVIOUS
  <2>3. sessions' = kept \cup {Len(expiry) + 1}
    BY <1>3, <2>1, <2>2 DEF LoginSucceeds, Create
  <2>4. store \in SUBSET Nat /\ IsFiniteSet(store)
    BY <1>1, <2>1, FS_Subset DEF Pruned
  <2>5. IsFiniteSet(kept) /\ Cardinality(kept) \in Nat /\ Cardinality(kept) <= MaxSessions - 1
    BY <2>2, <2>4, RoomIsMade
  <2>6. Cardinality(kept \cup {Len(expiry) + 1})
          = IF Len(expiry) + 1 \in kept THEN Cardinality(kept) ELSE Cardinality(kept) + 1
    BY <2>5, FS_AddElement, Zenon
  <2>7. QED
    BY <2>3, <2>5, <2>6, Sentinels
<1>4. QED
  BY <1>1, <1>2, <1>3
  DEF Next, Send, Deliver, Unavailable, Open, Refuse, Admit, Finish, Me, Logout, TurnAway, AttachLogin,
      LoginFails, LoseCookie, Tick, Restart, Looked, Pruned, vars, server

(* Every reachable state is well typed, and the store is never overfull. *)
THEOREM TypeCorrect == Spec => []TypeOK
<1> DEFINE Extra == /\ now \in 0 .. MaxTime /\ mode \in {"disabled", "invalid", "ready"}
                    /\ Cardinality(sessions) <= MaxSessions
<1>1. Init => Extra
  BY FS_EmptySet, LimitsAssumption DEF Init
<1>2. IInv /\ Extra /\ [Next]_vars => Extra'
  <2> SUFFICES ASSUME IInv, Extra, [Next]_vars PROVE Extra'
    OBVIOUS
  <2>1. now' \in 0 .. MaxTime
    BY LimitsAssumption DEF Next, Send, Deliver, Unavailable, Open, Refuse, Admit, Finish, Me, Logout, TurnAway,
       AttachLogin, LoginSucceeds, LoginFails, LoseCookie, Tick, Restart, vars
  <2>2. mode' \in {"disabled", "invalid", "ready"}
    BY DEF Next, Send, Deliver, Unavailable, Open, Refuse, Admit, Finish, Me, Logout, TurnAway,
       AttachLogin, LoginSucceeds, LoginFails, LoseCookie, Tick, Restart, vars, server
  <2>3. Cardinality(sessions') <= MaxSessions
    BY BoundStep
  <2>4. QED
    BY <2>1, <2>2, <2>3
<1>3. IInv /\ Extra => TypeOK
  <2> SUFFICES ASSUME IInv, Extra PROVE TypeOK
    OBVIOUS
  <2>1. StoreInv /\ Issued \subseteq Token
    BY IssuedTokens DEF IInv
  <2>2. QED
    BY <2>1 DEF IInv, StoreInv, TypeOK
<1> HIDE DEF Extra
<1>4. QED
  BY <1>1, <1>2, <1>3, SessionsInvariant, PTL DEF Spec
=============================================================================
