-------------------------- MODULE LoginGateProofs --------------------------
(* One password check at a time, each failure counted against its sender,   *)
(* and neither bound passed nor block cut short, for any clients, proxies,  *)
(* headers, limits and clock.                                               *)
EXTENDS LoginGate, SequenceTheorems, FiniteSetTheorems, WellFoundedInduction, TLAPS

LEMMA InitSlot == Init => IInv
<1>1. <<>> \in Seq(Requests \cup {None}) /\ Len(<<>>) = 0
  BY EmptySeq
<1>2. QED
  BY <1>1 DEF Init, IInv, SlotIsHeldByCheck

(* A cancelled login leaves its check in place. *)
LEMMA ForgetWaiter ==
  ASSUME NEW S, NEW s \in Seq(S), NEW e \in S, NEW t, NEW u,
         u = [i \in DOMAIN s |-> IF s[i] = t THEN e ELSE s[i]]
  PROVE  u \in Seq(S) /\ Len(u) = Len(s)
<1>1. Len(s) \in Nat /\ DOMAIN s = 1 .. Len(s) /\ \A i \in 1 .. Len(s) : s[i] \in S
  BY LenProperties
<1>2. u \in [1 .. Len(s) -> S]
  BY <1>1
<1>3. QED
  BY <1>1, <1>2, SeqDef, LenProperties

LEMMA NextSlot == IInv /\ [Next]_vars => IInv'
<1> SUFFICES ASSUME IInv, [Next]_vars PROVE IInv'
  OBVIOUS
<1> USE DEF IInv
<1>1. ASSUME NEW r \in Requests, Authenticate(r) PROVE IInv'
  <2>1. ~busy /\ busy' = TRUE /\ executor' = Append(executor, r)
    BY <1>1 DEF Authenticate, Admits
  <2>2. executor' \in Seq(Requests \cup {None}) /\ Len(executor') = Len(executor) + 1
    BY <2>1, AppendProperties
  <2>3. QED
    BY <2>1, <2>2 DEF SlotIsHeldByCheck
<1>2. ASSUME NEW r \in Requests, Cancel(r) PROVE IInv'
  <2>1. /\ busy' = busy
        /\ executor' = [i \in DOMAIN executor |->
                          IF executor[i] = r THEN None ELSE executor[i]]
    BY <1>2 DEF Cancel
  <2>2. None \in Requests \cup {None} /\ r \in Requests \cup {None}
    OBVIOUS
  <2>3. executor' \in Seq(Requests \cup {None}) /\ Len(executor') = Len(executor)
    <3> DEFINE S == Requests \cup {None}
    <3>1. executor \in Seq(S) /\ None \in S /\ r \in S
      BY <2>2
    <3> HIDE DEF S
    <3>2. executor' \in Seq(S) /\ Len(executor') = Len(executor)
      BY <2>1, <3>1, ForgetWaiter
    <3>3. QED
      BY <3>2 DEF S
  <2>4. QED
    BY <2>1, <2>3 DEF SlotIsHeldByCheck
<1>3. ASSUME Done PROVE IInv'
  <2>1. executor # <<>> /\ busy' = FALSE /\ executor' = Tail(executor)
    BY <1>3 DEF Done
  <2>2. executor' \in Seq(Requests \cup {None}) /\ Len(executor') = Len(executor) - 1
    BY <2>1, HeadTailProperties
  <2>3. Len(executor) = 1
    <3>1. Len(executor) # 0
      BY <2>1, EmptySeq
    <3>2. QED
      BY <3>1 DEF SlotIsHeldByCheck
  <2>4. Len(executor') = 0
    BY <2>2, <2>3
  <2>5. SlotIsHeldByCheck'
    BY <2>1, <2>4 DEF SlotIsHeldByCheck
  <2>6. QED
    BY <2>1, <2>2, <2>5
<1>4. ASSUME NEW r \in Requests,
             \/ \E sender \in Clients \ Proxies, path \in Paths, claimed \in Claims :
                  Arrive(r, sender, path, claimed)
             \/ Malformed(r) \/ CannotSubmit(r) \/ Refuse(r) \/ Resume(r)
      PROVE  UNCHANGED <<busy, executor>>
  BY <1>4 DEF Arrive, Malformed, CannotSubmit, Refuse, Resume, verifier
<1>5. CASE Tick
  BY <1>5 DEF Tick, SlotIsHeldByCheck
<1>6. ASSUME UNCHANGED <<busy, executor>> PROVE IInv'
  BY <1>6 DEF SlotIsHeldByCheck
<1>7. CASE UNCHANGED vars
  BY <1>6, <1>7 DEF vars, verifier
<1>8. QED
  BY <1>1, <1>2, <1>3, <1>4, <1>5, <1>6, <1>7 DEF Next

(* The verifier's slot is held exactly by the one running check. *)
THEOREM SlotTheorem == Spec => []SlotIsHeldByCheck
<1>1. IInv => SlotIsHeldByCheck
  BY DEF IInv
<1>2. QED
  BY <1>1, InitSlot, NextSlot, PTL DEF Spec

----------------------------------------------------------------------------
(* Who is counted.                                                         *)

(* What effective_client_ip makes of a login that came through path. *)
WalksTo(sender, path, claimed) ==
  \A chain, peer, hops :
    chain = <<sender>> \o path /\ peer = Last(chain) /\ hops = claimed \o Front(chain) =>
      /\ peer \in Clients
      /\ EffectiveClient(peer, hops) = IF path = <<>> \/ Readable(hops) THEN sender ELSE peer

(* The walk from the right ends at the sender, whatever stands before it.  *)
LEMMA WalkEndsAtSender ==
  ASSUME NEW sender \in Clients \ Proxies, NEW path \in Seq(Proxies),
         NEW claimed \in Seq(Clients \cup {None})
  PROVE  WalksTo(sender, path, claimed)
<1> SUFFICES ASSUME NEW chain, NEW peer, NEW hops,
                    chain = <<sender>> \o path, peer = Last(chain), hops = claimed \o Front(chain)
             PROVE  /\ peer \in Clients
                    /\ EffectiveClient(peer, hops) = IF path = <<>> \/ Readable(hops) THEN sender ELSE peer
  BY DEF WalksTo
<1> DEFINE S == Clients \cup {None}
<1>1. PICK n, k : n = Len(path) /\ k = Len(claimed)
  OBVIOUS
<1>2. /\ n \in Nat /\ k \in Nat
      /\ \A i \in 1 .. n : path[i] \in Proxies
      /\ path = <<>> <=> n = 0
  BY <1>1, LenProperties, EmptySeq
<1>3. /\ chain \in Seq(Clients) /\ Len(chain) = n + 1 /\ chain[1] = sender
      /\ \A i \in 2 .. n + 1 : chain[i] \in Proxies
  <2>1. path \in Seq(Clients)
    BY <1>1, <1>2, ProxiesAssumption, SeqDef, LenProperties
  <2>2. <<sender>> \in Seq(Clients) /\ Len(<<sender>>) = 1 /\ <<sender>>[1] = sender
    OBVIOUS
  <2>3. /\ chain \in Seq(Clients) /\ Len(chain) = 1 + n
        /\ \A i \in 1 .. 1 + n : chain[i] = IF i <= 1 THEN <<sender>>[i] ELSE path[i - 1]
    BY <1>1, <2>1, <2>2, ConcatProperties
  <2>4. QED
    BY <1>2, <2>2, <2>3
<1>4. peer = chain[n + 1] /\ peer \in Clients
  BY <1>2, <1>3, LenProperties DEF Last
<1>5. CASE n = 0
  <2>0. n + 1 = 1
    BY <1>5
  <2>1. peer = sender
    BY <1>3, <1>4, <2>0
  <2>2. path = <<>>
    BY <1>2, <1>5
  <2>3. QED
    BY <1>4, <2>1, <2>2 DEF EffectiveClient
<1>6. CASE n # 0 /\ ~Readable(hops)
  BY <1>2, <1>4, <1>6 DEF EffectiveClient
<1>7. CASE n # 0 /\ Readable(hops)
  <2>1. PICK front, m, all : front = Front(chain) /\ m = k + n /\ all = Append(hops, peer)
    OBVIOUS
  <2>2. /\ front \in Seq(Clients) /\ Len(front) = n
        /\ \A i \in 1 .. n : front[i] = chain[i]
    <3>1. 1 \in 1 .. Len(chain) + 1 /\ n \in (1 - 1) .. Len(chain) /\ Len(chain) - 1 = n
      BY <1>2, <1>3
    <3>2. /\ SubSeq(chain, 1, n) \in Seq(Clients) /\ Len(SubSeq(chain, 1, n)) = n
          /\ \A i \in 1 .. n : SubSeq(chain, 1, n)[i] = chain[i]
      BY <1>2, <1>3, <3>1, SubSeqProperties
    <3>3. QED
      BY <2>1, <3>1, <3>2 DEF Front
  <2>3. claimed \in Seq(S) /\ front \in Seq(S) /\ peer \in S
    BY <1>4, <2>2, SeqDef, LenProperties
  <2> HIDE DEF S
  <2>4. /\ m \in Nat /\ hops \in Seq(S) /\ Len(hops) = m
        /\ \A i \in 1 .. m : hops[i] = IF i <= k THEN claimed[i] ELSE front[i - k]
    <3>1. hops = claimed \o front
      BY <2>1
    <3>2. /\ hops \in Seq(S) /\ Len(hops) = Len(claimed) + Len(front)
          /\ \A i \in 1 .. Len(claimed) + Len(front) :
               hops[i] = IF i <= Len(claimed) THEN claimed[i] ELSE front[i - Len(claimed)]
      BY <2>3, <3>1, ConcatProperties
    <3>3. Len(claimed) + Len(front) = m /\ Len(claimed) = k /\ m \in Nat
      BY <1>1, <1>2, <2>1, <2>2
    <3>4. QED
      BY <3>2, <3>3
  <2>6. /\ all \in Seq(S) /\ Len(all) = m + 1 /\ all[m + 1] = peer
        /\ \A i \in 1 .. m : all[i] = hops[i]
    <3>1. /\ Append(hops, peer) \in Seq(S) /\ Len(Append(hops, peer)) = Len(hops) + 1
          /\ \A i \in 1 .. Len(hops) : Append(hops, peer)[i] = hops[i]
          /\ Append(hops, peer)[Len(hops) + 1] = peer
      BY <2>3, <2>4, AppendProperties
    <3>2. QED
      BY <2>1, <2>4, <3>1
  <2>5. ASSUME NEW i \in 1 .. n PROVE k + i \in 1 .. m /\ all[k + i] = chain[i]
    <3>1. k + i \in 1 .. m /\ ~(k + i <= k) /\ (k + i) - k = i
      BY <1>2, <2>1, <2>5
    <3>2. all[k + i] = front[(k + i) - k]
      BY <2>4, <2>6, <3>1
    <3>3. QED
      BY <2>2, <3>1, <3>2
  <2>7. all[k + 1] = sender
    BY <1>2, <1>3, <1>7, <2>5
  <2>8. ASSUME NEW i \in k + 2 .. m + 1 PROVE all[i] \in Proxies
    <3>1. CASE i = m + 1
      BY <1>2, <1>3, <1>4, <1>7, <2>6, <3>1
    <3>2. CASE i # m + 1
      <4>1. PICK j : j = i - k
        OBVIOUS
      <4>2. j \in 2 .. n /\ i = k + j
        BY <1>2, <2>1, <2>4, <2>8, <3>2, <4>1
      <4>3. all[i] = chain[j]
        <5>1. j \in 1 .. n
          BY <1>2, <4>2
        <5>2. all[k + j] = chain[j]
          BY <5>1, <2>5
        <5>3. QED
          BY <4>2, <5>2
      <4>4. QED
        BY <1>2, <1>3, <4>2, <4>3
    <3>3. QED
      BY <3>1, <3>2
  <2>9. PICK far : far = { i \in DOMAIN all : all[i] \notin Proxies }
    OBVIOUS
  <2>10. DOMAIN all = 1 .. m + 1 /\ k + 1 \in 1 .. m + 1
    BY <1>2, <1>7, <2>1, <2>6, LenProperties
  <2>11. k + 1 \in far /\ \A i \in far : i \in Int /\ i <= k + 1
    BY <1>2, <2>4, <2>7, <2>8, <2>9, <2>10
  <2>12. Max(far) = k + 1
    BY <1>2, <2>11 DEF Max
  <2>13. peer \in Proxies
    BY <1>2, <1>3, <1>4, <1>7
  <2>14. EffectiveClient(peer, hops) = sender
    BY <1>7, <2>1, <2>7, <2>9, <2>11, <2>12, <2>13 DEF EffectiveClient
  <2>15. QED
    BY <1>4, <1>7, <2>14
<1>8. QED
  BY <1>5, <1>6, <1>7

LEMMA InitSender == Init => SenderInv
  BY EmptySeq DEF Init, SenderInv, CountedBySender

(* A login that ends leaves the others as they are. *)
LEMMA EndKeepsSender ==
  ASSUME SenderInv, NEW r \in Requests, End(r),
         \A i \in DOMAIN executor' : executor'[i] # None =>
            executor'[i] # r /\ requests[executor'[i]] # None
            /\ requests[executor'[i]].phase = "verify" /\ executor'[i] \in Requests
  PROVE  SenderInv'
<1>1. requests' = [requests EXCEPT ![r] = None]
  BY DEF End
<1>2. requests' \in [Requests -> Login \cup {None}]
  BY <1>1 DEF SenderInv
<1>3. \A q \in Requests : q # r => requests'[q] = requests[q]
  BY <1>1 DEF SenderInv
<1>4. requests'[r] = None
  BY <1>1 DEF SenderInv
<1>5. CountedBySender'
  BY <1>3, <1>4 DEF SenderInv, CountedBySender
<1>6. QED
  BY <1>2, <1>3, <1>5 DEF SenderInv

(* A login that goes on to another phase stays the login it is. *)
LEMMA PhaseKeepsSender ==
  ASSUME SenderInv, NEW r \in Requests, requests[r] # None,
         NEW p \in {"body", "verify", "match", "mismatch", "error"},
         requests' = [requests EXCEPT ![r].phase = p]
  PROVE  /\ requests' \in [Requests -> Login \cup {None}]
         /\ CountedBySender'
         /\ requests'[r] # None /\ requests'[r].phase = p
<1>1. requests \in [Requests -> Login \cup {None}] /\ requests[r] \in Login
  BY DEF SenderInv
<1>2. PICK q : q = [requests[r] EXCEPT !.phase = p]
  OBVIOUS
<1>3. /\ q \in Login /\ q.phase = p
      /\ q.client = requests[r].client /\ q.sender = requests[r].sender
  BY <1>1, <1>2 DEF Login
<1>4. requests' = [requests EXCEPT ![r] = q]
  BY <1>1, <1>2
<1>5. q # None
  BY <1>3, NoneIsNoEntry
<1>6. requests'[r] = q /\ \A s \in Requests : s # r => requests'[s] = requests[s]
  BY <1>1, <1>4
<1>7. CountedBySender'
  BY <1>3, <1>6 DEF SenderInv, CountedBySender
<1>8. QED
  BY <1>1, <1>3, <1>4, <1>5, <1>6, <1>7

LEMMA NextSender == IInv /\ SenderInv /\ [Next]_vars => SenderInv'
<1> SUFFICES ASSUME IInv, SenderInv, [Next]_vars PROVE SenderInv'
  OBVIOUS
<1>0. /\ \A i \in DOMAIN executor : executor[i] \in Requests \cup {None}
      /\ DOMAIN executor = 1 .. Len(executor) /\ Len(executor) \in Nat
  BY LenProperties DEF IInv
<1>1. ASSUME NEW r \in Requests, NEW sender \in Clients \ Proxies,
             NEW path \in Paths, NEW claimed \in Claims, Arrive(r, sender, path, claimed)
      PROVE  SenderInv'
  <2>1. PICK chain, peer, hops :
          /\ chain = <<sender>> \o path /\ peer = Last(chain) /\ hops = claimed \o Front(chain)
    OBVIOUS
  <2>2. PICK c, s : /\ c = EffectiveClient(peer, hops)
                    /\ s = IF path = <<>> \/ Readable(hops) THEN sender ELSE peer
    OBVIOUS
  <2>3. c = s /\ s \in Clients
    <3>1. path \in Seq(Proxies) /\ claimed \in Seq(Clients \cup {None})
      BY RequestsAssumption
    <3>2. /\ peer \in Clients
          /\ EffectiveClient(peer, hops) = IF path = <<>> \/ Readable(hops) THEN sender ELSE peer
      <4>1. WalksTo(sender, path, claimed)
        BY <3>1, WalkEndsAtSender
      <4>2. QED
        BY <2>1, <4>1, Zenon DEF WalksTo
    <3>3. QED
      BY <2>2, <3>2
  <2>4. requests[r] = None /\ UNCHANGED executor
    BY <1>1 DEF Arrive, verifier
  <2>5. requests' \in {requests, [requests EXCEPT ![r] = [client |-> c, phase |-> "body", sender |-> s]]}
    BY <1>1, <2>1, <2>2 DEF Arrive
  <2>6. CASE requests' = requests
    BY <2>4, <2>6 DEF SenderInv, CountedBySender
  <2>7. CASE requests' = [requests EXCEPT ![r] = [client |-> c, phase |-> "body", sender |-> s]]
    <3>1. PICK q : q = [client |-> c, phase |-> "body", sender |-> s]
      OBVIOUS
    <3>2. q \in Login /\ q.client = q.sender
      BY <2>3, <3>1 DEF Login
    <3>3. /\ requests' \in [Requests -> Login \cup {None}]
          /\ requests'[r] = q /\ \A o \in Requests : o # r => requests'[o] = requests[o]
      BY <2>7, <3>1, <3>2 DEF SenderInv
    <3>4. CountedBySender'
      BY <3>2, <3>3 DEF SenderInv, CountedBySender
    <3>5. QED
      BY <1>0, <2>4, <3>3, <3>4 DEF SenderInv
  <2>8. QED
    BY <2>5, <2>6, <2>7
<1>2. ASSUME NEW r \in Requests, Authenticate(r) PROVE SenderInv'
  <2>1. /\ requests[r] # None /\ ~busy /\ executor' = Append(executor, r)
        /\ requests' = [requests EXCEPT ![r].phase = "verify"]
    BY <1>2 DEF Authenticate, AtBody, Admits
  <2>2. Len(executor) = 0
    BY <2>1 DEF IInv, SlotIsHeldByCheck
  <2>3. executor' \in Seq(Requests \cup {None}) /\ Len(executor') = 1 /\ executor'[1] = r
    BY <2>1, <2>2, AppendProperties DEF IInv
  <2>4. DOMAIN executor' = 1 .. 1
    BY <2>3, LenProperties
  <2>5. /\ requests' \in [Requests -> Login \cup {None}] /\ CountedBySender'
        /\ requests'[r] # None /\ requests'[r].phase = "verify"
    BY <2>1, PhaseKeepsSender
  <2>6. \A i \in DOMAIN executor' : executor'[i] = r
    BY <2>3, <2>4
  <2>7. QED
    BY <2>5, <2>6 DEF SenderInv
<1>3. ASSUME NEW r \in Requests, Cancel(r) PROVE SenderInv'
  <2>1. executor' = [i \in DOMAIN executor |-> IF executor[i] = r THEN None ELSE executor[i]] /\ End(r)
    BY <1>3 DEF Cancel
  <2>2. QED
    BY <1>0, <2>1, EndKeepsSender DEF SenderInv
<1>4. ASSUME Done PROVE SenderInv'
  <2>1. executor # <<>> /\ executor' = Tail(executor)
    BY <1>4 DEF Done
  <2>2. Len(executor) = 1
    <3>1. Len(executor) # 0
      BY <2>1, EmptySeq DEF IInv
    <3>2. QED
      BY <3>1 DEF IInv, SlotIsHeldByCheck
  <2>3. /\ executor' \in Seq(Requests \cup {None}) /\ Len(executor') = 0
        /\ Head(executor) = executor[1]
    BY <2>1, <2>2, HeadTailProperties DEF IInv
  <2>4. DOMAIN executor' = {}
    BY <2>3, LenProperties
  <2>5. CASE Head(executor) = None
    <3>1. UNCHANGED requests
      BY <1>4, <2>5 DEF Done
    <3>2. QED
      BY <2>4, <3>1 DEF SenderInv, CountedBySender
  <2>6. CASE Head(executor) # None
    <3>1. PICK h : h = Head(executor)
      OBVIOUS
    <3>2. h \in Requests /\ requests[h] # None
      BY <1>0, <2>2, <2>3, <2>6, <3>1 DEF SenderInv
    <3>3. PICK outcome \in {"match", "mismatch", "error"} :
            requests' = [requests EXCEPT ![h].phase = outcome]
      BY <1>4, <2>6, <3>1 DEF Done
    <3>4. QED
      BY <2>4, <3>2, <3>3, PhaseKeepsSender DEF SenderInv
  <2>7. QED
    BY <2>5, <2>6
<1>5. ASSUME NEW r \in Requests, Malformed(r) \/ CannotSubmit(r) \/ Refuse(r) \/ Resume(r)
      PROVE  SenderInv'
  <2>1. UNCHANGED executor /\ End(r) /\ requests[r] # None /\ requests[r].phase # "verify"
    BY <1>5 DEF Malformed, CannotSubmit, Refuse, Resume, verifier, AtBody, Awake
  <2>2. QED
    BY <1>0, <2>1, EndKeepsSender DEF SenderInv
<1>6. CASE Tick
  BY <1>6 DEF Tick, SenderInv, CountedBySender
<1>7. CASE UNCHANGED vars
  BY <1>7 DEF vars, verifier, SenderInv, CountedBySender
<1>8. QED
  BY <1>1, <1>2, <1>3, <1>4, <1>5, <1>6, <1>7 DEF Next

(* No header and no path of proxies makes a login count against another    *)
(* client than its sender, or against any but the proxy that delivered it  *)
(* when the header cannot be used (effective_client_ip).                   *)
THEOREM SenderTheorem == Spec => []CountedBySender
<1>1. IInv /\ SenderInv => CountedBySender
  BY DEF SenderInv
<1>2. QED
  BY <1>1, InitSlot, NextSlot, InitSender, NextSender, PTL DEF Spec
----------------------------------------------------------------------------
(* Lists of times that forget from the left.                               *)

LEMMA LeastNatural ==
  ASSUME NEW S \in SUBSET Nat, S # {}
  PROVE  \E m \in S : \A n \in S : m <= n
<1>1. PICK m \in S : \A n \in S : ~ (<<n, m>> \in OpToRel(<, Nat))
  BY NatLessThanWellFounded, WFMin, Zenon
<1>2. ASSUME NEW n \in S, n < m PROVE FALSE
  <2>1. <<n, m>> \in OpToRel(<, Nat)
    BY <1>2, SMT DEF OpToRel
  <2>2. QED
    BY <1>1, <2>1
<1>3. QED
  BY <1>2

(* What a list is, for the proofs: its length and its elements. *)
LEMMA ListFacts ==
  ASSUME NEW S, NEW s \in Seq(S)
  PROVE  Len(s) \in Nat /\ DOMAIN s = 1 .. Len(s) /\ \A i \in 1 .. Len(s) : s[i] \in S
BY LenProperties

(* Keeps, with the lengths of the two lists by name. *)
KeepsOf(kept, all, limit, i, k) ==
  /\ i <= k
  /\ \A x \in 1 .. i : kept[x] = all[(k - i) + x]
  /\ \A x \in 1 .. k - i : all[x] <= limit

LEMMA KeepsMeans ==
  ASSUME NEW kept, NEW all, NEW limit, Len(kept) \in Nat, Len(all) \in Nat,
         DOMAIN kept = 1 .. Len(kept)
  PROVE  Keeps(kept, all, limit) <=> KeepsOf(kept, all, limit, Len(kept), Len(all))
<1>1. PICK gone : gone = Len(all) - Len(kept)
  OBVIOUS
<1>2. Keeps(kept, all, limit) <=>
           /\ gone >= 0
           /\ \A x \in DOMAIN kept : kept[x] = all[gone + x]
           /\ \A x \in 1 .. gone : all[x] <= limit
  BY <1>1, Zenon DEF Keeps
<1>3. gone >= 0 <=> Len(kept) <= Len(all)
  BY <1>1
<1>4. QED
  BY <1>1, <1>2, <1>3, Zenon DEF KeepsOf

(* popleft stops at the first time that still counts. *)
LEMMA NewerKeeps ==
  ASSUME NEW S \in SUBSET Int, NEW times \in Seq(S), NEW age \in Int, now \in Int
  PROVE  /\ Newer(times, age) \in Seq(S)
         /\ Keeps(Newer(times, age), times, now - age)
         /\ Len(Newer(times, age)) > 0 => Newer(times, age)[1] > now - age
<1>1. PICK n, limit, kept : n = Len(times) /\ limit = now - age /\ kept = Newer(times, age)
  OBVIOUS
<1>2. n \in Nat /\ limit \in Int /\ DOMAIN times = 1 .. n /\ \A i \in 1 .. n : times[i] \in S
  BY <1>1, ListFacts
<1>3. PICK young : young = { i \in DOMAIN times : times[i] > now - age } \cup {Len(times) + 1}
  OBVIOUS
<1>4. /\ young \in SUBSET Nat /\ n + 1 \in young
      /\ \A i \in 1 .. n : i \in young <=> times[i] > limit
  BY <1>1, <1>2, <1>3
<1>5. PICK m \in young : \A i \in young : m <= i
  BY <1>4, LeastNatural
<1>6. Min(young) = m /\ m \in 1 .. n + 1
  BY <1>1, <1>2, <1>3, <1>4, <1>5 DEF Min
<1>7. kept = SubSeq(times, m, n)
  BY <1>1, <1>3, <1>6 DEF Newer
<1>8. \A i \in m .. n : times[i] \in S
  BY <1>2, <1>6
<1>9. /\ kept \in Seq(S) /\ Len(kept) = n - m + 1
      /\ \A i \in 1 .. n - m + 1 : kept[i] = times[m + i - 1]
  <2>1. /\ SubSeq(times, m, n) \in Seq(S)
        /\ Len(SubSeq(times, m, n)) = IF m <= n THEN n - m + 1 ELSE 0
        /\ \A i \in 1 .. n - m + 1 : SubSeq(times, m, n)[i] = times[m + i - 1]
    BY <1>2, <1>6, <1>8, SubSeqProperties
  <2>2. QED
    BY <1>2, <1>6, <1>7, <2>1
<1>10. ASSUME NEW i \in 1 .. m - 1 PROVE times[i] <= limit
  <2>1. i \in 1 .. n /\ i \in Nat /\ ~(m <= i)
    BY <1>2, <1>6
  <2>2. i \notin young
    BY <1>5, <2>1
  <2>3. times[i] \in Int
    BY <1>2, <2>1
  <2>4. QED
    BY <1>2, <1>4, <2>1, <2>2, <2>3
<1>11. Keeps(kept, times, limit)
  <2>1. n - ((n - m) + 1) = m - 1 /\ (n - m) + 1 \in Nat
    BY <1>2, <1>6
  <2>2. KeepsOf(kept, times, limit, (n - m) + 1, n)
    BY <1>2, <1>6, <1>9, <1>10, <2>1 DEF KeepsOf
  <2>3. DOMAIN kept = 1 .. Len(kept)
    BY <1>9, ListFacts
  <2>4. QED
    BY <1>1, <1>2, <1>9, <2>1, <2>2, <2>3, KeepsMeans, Zenon
<1>12. Len(kept) > 0 => kept[1] > limit
  BY <1>2, <1>4, <1>6, <1>9
<1>13. QED
  BY <1>1, <1>9, <1>11, <1>12

(* What is kept of an ordered list is ordered and all of it still counts. *)
LEMMA KeptInOrder ==
  ASSUME NEW S \in SUBSET Int, NEW all \in Seq(S), NEW kept \in Seq(S), NEW limit \in Int,
         Keeps(kept, all, limit), InOrder(all)
  PROVE  /\ InOrder(kept)
         /\ Len(kept) > 0 /\ kept[1] > limit => \A i \in DOMAIN kept : kept[i] > limit
<1>1. /\ Len(kept) \in Nat /\ DOMAIN kept = 1 .. Len(kept) /\ Len(all) \in Nat
      /\ DOMAIN all = 1 .. Len(all) /\ \A i \in 1 .. Len(kept) : kept[i] \in Int
  BY ListFacts
<1>2. InOrder(kept)
  BY <1>1 DEF Keeps, InOrder
<1>3. QED
  BY <1>1, <1>2 DEF InOrder

LEMMA NewerInOrder ==
  ASSUME NEW S \in SUBSET Int, NEW times \in Seq(S), NEW age \in Int, now \in Int, InOrder(times)
  PROVE  /\ InOrder(Newer(times, age))
         /\ \A i \in DOMAIN Newer(times, age) : Newer(times, age)[i] > now - age
<1>1. PICK kept, limit : kept = Newer(times, age) /\ limit = now - age
  OBVIOUS
<1>2. /\ kept \in Seq(S) /\ limit \in Int /\ Keeps(kept, times, limit)
      /\ Len(kept) > 0 => kept[1] > limit
  BY <1>1, NewerKeeps
<1>3. Len(kept) \in Nat /\ DOMAIN kept = 1 .. Len(kept)
  BY <1>2, ListFacts
<1>4. InOrder(kept) /\ (Len(kept) > 0 /\ kept[1] > limit => \A i \in DOMAIN kept : kept[i] > limit)
  BY <1>2, KeptInOrder
<1>5. QED
  BY <1>1, <1>2, <1>3, <1>4

LEMMA KeepsLater ==
  ASSUME NEW S \in SUBSET Int, NEW all \in Seq(S), NEW kept, NEW limit \in Int, NEW later \in Int,
         limit <= later, Keeps(kept, all, limit), Len(kept) \in Nat
  PROVE  Keeps(kept, all, later)
<1>1. Len(all) \in Nat /\ \A x \in 1 .. Len(all) : all[x] \in Int
  BY ListFacts
<1>2. QED
  BY <1>1 DEF Keeps

LEMMA KeepsTransitive ==
  ASSUME NEW S \in SUBSET Int, NEW a \in Seq(S), NEW b \in Seq(S), NEW c \in Seq(S),
         NEW limit \in Int, Keeps(a, b, limit), Keeps(b, c, limit)
  PROVE  Keeps(a, c, limit)
<1>1. PICK i, j, k : i = Len(a) /\ j = Len(b) /\ k = Len(c)
  OBVIOUS
<1>2. /\ i \in Nat /\ j \in Nat /\ k \in Nat
      /\ DOMAIN a = 1 .. i /\ DOMAIN b = 1 .. j
      /\ \A x \in 1 .. k : c[x] \in Int
  BY <1>1, ListFacts
<1>3. /\ i <= j /\ \A x \in 1 .. i : a[x] = b[(j - i) + x]
      /\ \A x \in 1 .. j - i : b[x] <= limit
      /\ j <= k /\ \A x \in 1 .. j : b[x] = c[(k - j) + x]
      /\ \A x \in 1 .. k - j : c[x] <= limit
  <2>1. KeepsOf(a, b, limit, i, j) /\ KeepsOf(b, c, limit, j, k)
    BY <1>1, <1>2, KeepsMeans, Zenon
  <2>2. QED
    BY <2>1 DEF KeepsOf
<1>4. ASSUME NEW x \in 1 .. i PROVE a[x] = c[(k - i) + x]
  <2>1. (j - i) + x \in 1 .. j /\ (k - j) + ((j - i) + x) = (k - i) + x
    BY <1>2, <1>3
  <2>2. b[(j - i) + x] = c[(k - j) + ((j - i) + x)]
    BY <1>3, <2>1
  <2>3. QED
    BY <1>3, <2>1, <2>2
<1>5. ASSUME NEW x \in 1 .. k - i PROVE c[x] <= limit
  <2>1. CASE x <= k - j
    BY <1>2, <1>3, <2>1
  <2>2. CASE x > k - j
    <3>1. PICK y : y = x - (k - j)
      OBVIOUS
    <3>2. y \in 1 .. j - i /\ y \in 1 .. j /\ x = (k - j) + y
      BY <1>2, <1>3, <2>2, <3>1
    <3>3. c[(k - j) + y] = b[y] /\ b[y] <= limit
      BY <1>3, <3>2
    <3>4. QED
      BY <3>2, <3>3
  <2>3. QED
    BY <1>2, <2>1, <2>2
<1>6. KeepsOf(a, c, limit, i, k)
  BY <1>2, <1>3, <1>4, <1>5 DEF KeepsOf
<1>7. QED
  BY <1>1, <1>2, <1>6, KeepsMeans, Zenon

(* Two lists that keep the same list and nothing that is old are the same. *)
LEMMA KeptTheSame ==
  ASSUME NEW S \in SUBSET Int, NEW a \in Seq(S), NEW b \in Seq(S), NEW all \in Seq(S),
         NEW limit \in Int, Keeps(a, all, limit), Keeps(b, all, limit),
         \A i \in DOMAIN a : a[i] > limit, \A i \in DOMAIN b : b[i] > limit
  PROVE  Len(a) = Len(b) /\ \A i \in DOMAIN a : a[i] = b[i]
<1>1. PICK i, j, k : i = Len(a) /\ j = Len(b) /\ k = Len(all)
  OBVIOUS
<1>2. /\ i \in Nat /\ j \in Nat /\ k \in Nat
      /\ DOMAIN a = 1 .. i /\ DOMAIN b = 1 .. j
      /\ \A x \in 1 .. k : all[x] \in Int
  BY <1>1, ListFacts
<1>3. /\ i <= k /\ \A x \in 1 .. i : a[x] = all[(k - i) + x]
      /\ \A x \in 1 .. k - i : all[x] <= limit
      /\ j <= k /\ \A x \in 1 .. j : b[x] = all[(k - j) + x]
      /\ \A x \in 1 .. k - j : all[x] <= limit
  <2>1. KeepsOf(a, all, limit, i, k) /\ KeepsOf(b, all, limit, j, k)
    BY <1>1, <1>2, KeepsMeans, Zenon
  <2>2. QED
    BY <2>1 DEF KeepsOf
<1>4. ~(i < j)
  <2>1. SUFFICES ASSUME i < j PROVE FALSE
    OBVIOUS
  <2>2. 1 \in 1 .. j /\ (k - j) + 1 \in 1 .. k - i /\ (k - j) + 1 \in 1 .. k
    BY <1>2, <1>3, <2>1
  <2>3. b[1] = all[(k - j) + 1] /\ b[1] > limit /\ all[(k - j) + 1] <= limit
    BY <1>2, <1>3, <2>2
  <2>4. QED
    BY <1>2, <2>2, <2>3
<1>5. ~(j < i)
  <2>1. SUFFICES ASSUME j < i PROVE FALSE
    OBVIOUS
  <2>2. 1 \in 1 .. i /\ (k - i) + 1 \in 1 .. k - j /\ (k - i) + 1 \in 1 .. k
    BY <1>2, <1>3, <2>1
  <2>3. a[1] = all[(k - i) + 1] /\ a[1] > limit /\ all[(k - i) + 1] <= limit
    BY <1>2, <1>3, <2>2
  <2>4. QED
    BY <1>2, <2>2, <2>3
<1>6. i = j
  BY <1>2, <1>4, <1>5
<1>7. QED
  BY <1>1, <1>2, <1>3, <1>6

LEMMA KeepsAppend ==
  ASSUME NEW S \in SUBSET Int, NEW kept \in Seq(S), NEW all \in Seq(S), NEW limit \in Int,
         NEW x \in S, Keeps(kept, all, limit)
  PROVE  Keeps(Append(kept, x), Append(all, x), limit)
<1>1. PICK i, k, a, c : i = Len(kept) /\ k = Len(all) /\ a = Append(kept, x) /\ c = Append(all, x)
  OBVIOUS
<1>2. i \in Nat /\ k \in Nat /\ DOMAIN kept = 1 .. i
  BY <1>1, ListFacts
<1>3. /\ a \in Seq(S) /\ Len(a) = i + 1 /\ a[i + 1] = x /\ \A j \in 1 .. i : a[j] = kept[j]
      /\ c \in Seq(S) /\ Len(c) = k + 1 /\ c[k + 1] = x /\ \A j \in 1 .. k : c[j] = all[j]
  BY <1>1, AppendProperties
<1>4. DOMAIN a = 1 .. i + 1
  BY <1>3, ListFacts
<1>5. /\ i <= k /\ \A j \in 1 .. i : kept[j] = all[(k - i) + j]
      /\ \A j \in 1 .. k - i : all[j] <= limit
  <2>1. KeepsOf(kept, all, limit, i, k)
    BY <1>1, <1>2, KeepsMeans, Zenon
  <2>2. QED
    BY <2>1 DEF KeepsOf
<1>6. ASSUME NEW j \in 1 .. i + 1 PROVE a[j] = c[(k - i) + j]
  <2>1. CASE j = i + 1
    <3>1. (k - i) + j = k + 1
      BY <1>2, <2>1
    <3>2. QED
      BY <1>3, <2>1, <3>1
  <2>2. CASE j # i + 1
    <3>1. j \in 1 .. i /\ (k - i) + j \in 1 .. k
      BY <1>2, <1>5, <2>2
    <3>2. QED
      BY <1>3, <1>5, <3>1
  <2>3. QED
    BY <2>1, <2>2
<1>7. \A j \in 1 .. k - i : c[j] <= limit
  BY <1>2, <1>3, <1>5
<1>8. (k + 1) - (i + 1) = k - i /\ k - i >= 0
  BY <1>2, <1>5
<1>9. KeepsOf(a, c, limit, i + 1, k + 1)
  BY <1>2, <1>6, <1>7, <1>8 DEF KeepsOf
<1>10. i + 1 \in Nat /\ k + 1 \in Nat
  BY <1>2
<1>11. QED
  BY <1>1, <1>3, <1>4, <1>9, <1>10, KeepsMeans, Zenon

LEMMA AppendInOrder ==
  ASSUME NEW S \in SUBSET Int, NEW all \in Seq(S), NEW x \in S,
         InOrder(all), \A i \in DOMAIN all : all[i] <= x
  PROVE  /\ InOrder(Append(all, x))
         /\ \A i \in DOMAIN Append(all, x) : Append(all, x)[i] <= x
<1>1. PICK k, c : k = Len(all) /\ c = Append(all, x)
  OBVIOUS
<1>2. k \in Nat /\ DOMAIN all = 1 .. k /\ \A j \in 1 .. k : all[j] \in Int
  BY <1>1, ListFacts
<1>3. c \in Seq(S) /\ Len(c) = k + 1 /\ c[k + 1] = x /\ \A j \in 1 .. k : c[j] = all[j]
  BY <1>1, AppendProperties
<1>4. DOMAIN c = 1 .. k + 1
  BY <1>3, ListFacts
<1>5. \A i \in DOMAIN c : c[i] <= x
  BY <1>2, <1>3, <1>4
<1>6. InOrder(c)
  BY <1>2, <1>3, <1>4, <1>5 DEF InOrder
<1>7. QED
  BY <1>1, <1>5, <1>6

----------------------------------------------------------------------------
(* What blocks a client.                                                   *)

LEMMA LimitsFacts ==
  /\ MaxFailures \in Nat /\ MaxFailures > 0 /\ FailureWindow \in Nat /\ FailureWindow > 0
  /\ BlockTime \in Nat /\ BlockTime > 0 /\ StartWindow \in Nat /\ StartWindow > 0
  /\ MaxStarts \in Nat /\ MaxStarts > 0 /\ MaxTime \in Nat /\ MaxTime > 0
BY LimitsAssumption

(* In an ordered list only the MaxFailures latest entries have to be looked *)
(* at: the list that record keeps is as good as the history of all failures. *)
LEMMA BurstIsLocal ==
  ASSUME NEW failures \in Seq(Int), InOrder(failures), NEW i \in DOMAIN failures
  PROVE  Burst(failures, i) <=>
           i >= MaxFailures /\ failures[(i + 1) - MaxFailures] > failures[i] - FailureWindow
<1>1. PICK n, low, young :
        /\ n = Len(failures) /\ low = failures[i] - FailureWindow
        /\ young = { j \in 1 .. i : failures[j] > failures[i] - FailureWindow }
  OBVIOUS
<1>2. /\ n \in Nat /\ DOMAIN failures = 1 .. n /\ i \in 1 .. n
      /\ \A j \in 1 .. n : failures[j] \in Int
  BY <1>1, ListFacts
<1>3. young \in SUBSET Nat /\ i \in young
  BY <1>1, <1>2, LimitsFacts
<1>4. PICK m \in young : \A j \in young : m <= j
  BY <1>3, LeastNatural
<1>5. m \in 1 .. i /\ failures[m] > low
  BY <1>1, <1>4
<1>6. ASSUME NEW j \in m .. i PROVE j \in young
  <2>1. j \in 1 .. i /\ j \in 1 .. n /\ m \in 1 .. n /\ m <= j
    BY <1>2, <1>5
  <2>2. failures[m] <= failures[j]
    BY <1>2, <2>1 DEF InOrder
  <2>3. failures[j] > failures[i] - FailureWindow
    BY <1>1, <1>2, <1>5, <2>1, <2>2, LimitsFacts
  <2>4. QED
    BY <1>1, <2>1, <2>3
<1>7. young = m .. i
  BY <1>1, <1>4, <1>5, <1>6
<1>8. Cardinality(young) = i - m + 1
  <2>1. Cardinality(m .. i) = IF m > i THEN 0 ELSE i - m + 1
    BY <1>2, <1>5, FS_Interval
  <2>2. QED
    BY <1>5, <1>7, <2>1
<1>9. Burst(failures, i) <=> m <= (i + 1) - MaxFailures
  BY <1>1, <1>2, <1>5, <1>8, LimitsFacts DEF Burst
<1>10. m <= (i + 1) - MaxFailures =>
         i >= MaxFailures /\ (i + 1) - MaxFailures \in young
  BY <1>2, <1>5, <1>6, LimitsFacts
<1>11. i >= MaxFailures /\ failures[(i + 1) - MaxFailures] > low => m <= (i + 1) - MaxFailures
  <2>1. SUFFICES ASSUME i >= MaxFailures, failures[(i + 1) - MaxFailures] > low
                 PROVE  m <= (i + 1) - MaxFailures
    OBVIOUS
  <2>2. (i + 1) - MaxFailures \in 1 .. i
    BY <1>2, <2>1, LimitsFacts
  <2>3. (i + 1) - MaxFailures \in young
    BY <1>1, <2>1, <2>2
  <2>4. QED
    BY <1>4, <2>3
<1>12. QED
  BY <1>1, <1>9, <1>10, <1>11

(* A later failure changes nothing about the earlier ones. *)
LEMMA BurstStays ==
  ASSUME NEW failures \in Seq(Int), NEW x \in Int, NEW i \in DOMAIN failures
  PROVE  /\ i \in DOMAIN Append(failures, x)
         /\ Append(failures, x)[i] = failures[i]
         /\ Burst(Append(failures, x), i) <=> Burst(failures, i)
<1>1. PICK n, c : n = Len(failures) /\ c = Append(failures, x)
  OBVIOUS
<1>2. n \in Nat /\ DOMAIN failures = 1 .. n
  BY <1>1, ListFacts
<1>3. c \in Seq(Int) /\ Len(c) = n + 1 /\ \A j \in 1 .. n : c[j] = failures[j]
  BY <1>1, AppendProperties
<1>4. DOMAIN c = 1 .. n + 1
  BY <1>3, ListFacts
<1>5. \A j \in 1 .. i : c[j] = failures[j]
  BY <1>2, <1>3
<1>6. c[i] = failures[i] /\ i \in DOMAIN c
  BY <1>2, <1>3, <1>4
<1>7. { j \in 1 .. i : c[j] > c[i] - FailureWindow } = { j \in 1 .. i : failures[j] > failures[i] - FailureWindow }
  BY <1>5, <1>6
<1>8. QED
  BY <1>1, <1>6, <1>7 DEF Burst

LEMMA RecordFacts ==
  ASSUME NEW record \in Record \cup {None}
  PROVE  /\ FailuresOf(record) \in Seq(Time) /\ EndOf(record) \in Nat
         /\ record # None => FailuresOf(record) = record.failures /\ EndOf(record) = record.blocked_until
         /\ now \in Nat => (Blocks(record) <=> EndOf(record) > now)
BY EmptySeq DEF Record, FailuresOf, EndOf, Blocks

LEMMA TrimmedFaithful ==
  ASSUME now \in Time, NEW record \in Record, NEW failures \in Seq(Time), InOrder(failures),
         Faithful(record, failures, now)
  PROVE  Trimmed(record) \in Record /\ Faithful(Trimmed(record), failures, now)
<1>1. PICK kept, end : /\ kept = Newer(record.failures, FailureWindow)
                       /\ end = IF Blocks(record) THEN record.blocked_until ELSE 0
  OBVIOUS
<1>2. record # None /\ record.failures \in Seq(Time) /\ record.blocked_until \in Nat
  BY NoneIsNoEntry DEF Record
<1>3. Time \in SUBSET Int /\ FailureWindow \in Int /\ now \in Int
  BY LimitsFacts DEF Time
<1>4. /\ kept \in Seq(Time) /\ Keeps(kept, record.failures, now - FailureWindow)
  BY <1>1, <1>2, <1>3, NewerKeeps
<1>5. end \in Nat
  BY <1>1, <1>2
<1>6. Trimmed(record) = [failures |-> kept, blocked_until |-> end]
  BY <1>1 DEF Trimmed
<1>7. Trimmed(record) \in Record
  BY <1>4, <1>5, <1>6 DEF Record
<1>8. FailuresOf(Trimmed(record)) = kept /\ EndOf(Trimmed(record)) = end
  BY <1>6, <1>7, NoneIsNoEntry DEF FailuresOf, EndOf
<1>9. Keeps(record.failures, failures, now - FailureWindow)
  BY <1>2 DEF Faithful, FailuresOf
<1>10. Keeps(kept, failures, now - FailureWindow)
  BY <1>2, <1>3, <1>4, <1>9, KeepsTransitive
<1>11. EndOf(record) = record.blocked_until /\ (Blocks(record) <=> EndOf(record) > now)
  BY <1>2 DEF EndOf, Blocks
<1>12. ASSUME NEW i \in DOMAIN failures, Burst(failures, i)
       PROVE  failures[i] + BlockTime <= now \/ failures[i] + BlockTime <= end
  <2>1. failures[i] \in Int
    BY <1>3, ListFacts
  <2>2. failures[i] + BlockTime <= now \/ failures[i] + BlockTime <= EndOf(record)
    BY <1>12 DEF Faithful
  <2>3. QED
    BY <1>1, <1>2, <1>3, <1>11, <2>1, <2>2, LimitsFacts
<1>13. end > now => \E i \in DOMAIN failures : Burst(failures, i) /\ end = failures[i] + BlockTime
  <2>1. end > now => end = EndOf(record) /\ EndOf(record) > now
    BY <1>1, <1>3, <1>11 DEF Time
  <2>2. QED
    BY <2>1 DEF Faithful
<1>14. QED
  BY <1>7, <1>8, <1>10, <1>12, <1>13 DEF Faithful

(* A record that is dropped said nothing any more. *)
LEMMA CleanedFaithful ==
  ASSUME now \in Time, NEW record \in Record \cup {None}, NEW failures \in Seq(Time),
         InOrder(failures), Faithful(record, failures, now)
  PROVE  Cleaned(record) \in Record \cup {None} /\ Faithful(Cleaned(record), failures, now)
<1>1. CASE record = None
  BY <1>1 DEF Cleaned
<1>2. CASE record # None
  <2>1. PICK t : t = Trimmed(record)
    OBVIOUS
  <2>2. record \in Record /\ t \in Record /\ Faithful(t, failures, now)
    BY <1>2, <2>1, TrimmedFaithful
  <2>3. CASE ~Blocks(record) /\ t.failures = <<>>
    <3>1. Cleaned(record) = None
      BY <2>1, <2>3 DEF Cleaned
    <3>2. FailuresOf(t) = <<>> /\ EndOf(t) = 0 /\ FailuresOf(None) = <<>> /\ EndOf(None) = 0
      BY <2>1, <2>2, <2>3, NoneIsNoEntry DEF FailuresOf, EndOf, Trimmed
    <3>3. QED
      BY <2>2, <3>1, <3>2 DEF Faithful
  <2>4. CASE ~(~Blocks(record) /\ t.failures = <<>>)
    <3>1. Cleaned(record) = t
      BY <1>2, <2>1, <2>4 DEF Cleaned
    <3>2. QED
      BY <2>2, <3>1
  <2>5. QED
    BY <2>3, <2>4
<1>3. QED
  BY <1>1, <1>2

(* The record blocks its client if and only if the failure that is added   *)
(* completes a burst.                                                      *)
LEMMA CountedBurst ==
  ASSUME now \in Time, NEW kept \in Seq(Time), NEW all \in Seq(Time), InOrder(all),
         Keeps(kept, all, now - FailureWindow), \A i \in DOMAIN all : all[i] <= now,
         \A i \in DOMAIN kept : kept[i] > now - FailureWindow
  PROVE  Burst(Append(all, now), Len(all) + 1) <=> Len(Append(kept, now)) >= MaxFailures
<1>1. PICK n, k, c, low : /\ n = Len(all) /\ k = Len(kept) /\ c = Append(all, now)
                          /\ low = now - FailureWindow
  OBVIOUS
<1>2. Time \in SUBSET Int /\ now \in Int
  BY LimitsFacts DEF Time
<1>3. /\ n \in Nat /\ k \in Nat /\ DOMAIN all = 1 .. n /\ DOMAIN kept = 1 .. k
      /\ \A i \in 1 .. n : all[i] \in Int
  BY <1>1, <1>2, ListFacts
<1>4. /\ c \in Seq(Time) /\ Len(c) = n + 1 /\ c[n + 1] = now
      /\ \A i \in 1 .. n : c[i] = all[i]
  BY <1>1, AppendProperties
<1>5. DOMAIN c = 1 .. n + 1 /\ c \in Seq(Int)
  <2>1. now \in Int /\ all \in Seq(Int)
    BY <1>2, <1>3, SeqDef, LenProperties
  <2>2. c \in Seq(Int)
    BY <1>1, <2>1, AppendProperties
  <2>3. QED
    BY <1>4, <2>2, ListFacts
<1>6. InOrder(c)
  BY <1>1, <1>2, AppendInOrder
<1>7. Len(Append(kept, now)) = k + 1
  BY <1>1, AppendProperties
<1>8. KeepsOf(kept, all, low, k, n)
  BY <1>1, <1>3, KeepsMeans, Zenon
<1>9. PICK m : m = ((n + 1) + 1) - MaxFailures
  OBVIOUS
<1>10. Burst(c, n + 1) <=> n + 1 >= MaxFailures /\ c[m] > low
  <2>1. n + 1 \in DOMAIN c
    BY <1>3, <1>5
  <2>2. Burst(c, n + 1) <=>
          n + 1 >= MaxFailures /\ c[((n + 1) + 1) - MaxFailures] > c[n + 1] - FailureWindow
    BY <1>5, <1>6, <2>1, BurstIsLocal
  <2>3. QED
    BY <1>1, <1>4, <1>9, <2>2
<1>11. n - k >= 0 /\ m \in Int
  BY <1>3, <1>8, <1>9, LimitsFacts DEF KeepsOf
<1>12. ASSUME k + 1 >= MaxFailures PROVE n + 1 >= MaxFailures /\ c[m] > low
  <2>1. n + 1 >= MaxFailures /\ m >= (n - k) + 1 /\ m <= n + 1
    BY <1>3, <1>9, <1>11, <1>12, LimitsFacts
  <2>2. CASE m = n + 1
    BY <1>1, <1>2, <1>4, <2>1, <2>2, LimitsFacts
  <2>3. CASE m # n + 1
    <3>1. PICK j : j = m - (n - k)
      OBVIOUS
    <3>2. j \in 1 .. k /\ m = (n - k) + j /\ m \in 1 .. n
      BY <1>3, <1>11, <2>1, <2>3, <3>1
    <3>3. kept[j] = all[m] /\ kept[j] > low
      BY <1>1, <1>3, <1>8, <3>2 DEF KeepsOf
    <3>4. QED
      BY <1>4, <2>1, <3>2, <3>3
  <2>4. QED
    BY <2>2, <2>3
<1>13. ASSUME n + 1 >= MaxFailures, c[m] > low PROVE k + 1 >= MaxFailures
  <2>1. SUFFICES ASSUME k + 1 < MaxFailures PROVE FALSE
    BY <1>3, LimitsFacts
  <2>2. m \in 1 .. n - k /\ m \in 1 .. n
    BY <1>3, <1>9, <1>11, <1>13, <2>1, LimitsFacts
  <2>3. all[m] <= low /\ c[m] = all[m] /\ all[m] \in Int
    BY <1>3, <1>4, <1>8, <2>2 DEF KeepsOf
  <2>4. QED
    BY <1>1, <1>2, <1>13, <2>3, LimitsFacts
<1>14. QED
  BY <1>1, <1>7, <1>10, <1>12, <1>13

(* One more failure: record is what the client's record becomes in Failed. *)
LEMMA CountFailure ==
  ASSUME now \in Time, NEW record \in Record \cup {None}, NEW all, NEW kept, NEW end, NEW new,
         Known(record, all, now), kept \in Seq(Time),
         Keeps(kept, all, now - FailureWindow),
         \A i \in DOMAIN kept : kept[i] > now - FailureWindow,
         end = IF EndOf(record) > now THEN EndOf(record) ELSE 0,
         new = [ failures      |-> Append(kept, now),
                 blocked_until |-> IF Len(Append(kept, now)) >= MaxFailures
                                   THEN now + BlockTime ELSE end ]
  PROVE  Known(new, Append(all, now), now)
<1>1. PICK n, c, late : /\ n = Len(all) /\ c = Append(all, now)
                        /\ late = new.blocked_until
  OBVIOUS
<1>2. Time \in SUBSET Int /\ now \in Nat /\ now \in Int /\ now - FailureWindow \in Int
  BY LimitsFacts DEF Time
<1>3. /\ all \in Seq(Time) /\ InOrder(all) /\ \A i \in DOMAIN all : all[i] <= now
      /\ Faithful(record, all, now)
  BY DEF Known
<1>4. /\ n \in Nat /\ DOMAIN all = 1 .. n /\ \A i \in 1 .. n : all[i] \in Int
  BY <1>1, <1>2, <1>3, ListFacts
<1>5. c \in Seq(Time) /\ Len(c) = n + 1 /\ c[n + 1] = now
  BY <1>1, <1>3, AppendProperties
<1>6. DOMAIN c = 1 .. n + 1
  BY <1>5, ListFacts
<1>7. InOrder(c) /\ \A i \in DOMAIN c : c[i] <= now
  BY <1>1, <1>2, <1>3, AppendInOrder
<1>8. EndOf(record) \in Nat /\ end \in Nat
  BY RecordFacts
<1>9. Append(kept, now) \in Seq(Time)
  BY AppendProperties
<1>10. new \in Record
  BY <1>2, <1>8, <1>9, LimitsFacts DEF Record
<1>11. FailuresOf(new) = Append(kept, now) /\ EndOf(new) = late
  BY <1>1, <1>10, NoneIsNoEntry DEF FailuresOf, EndOf
<1>12. Keeps(Append(kept, now), c, now - FailureWindow)
  BY <1>1, <1>2, <1>3, KeepsAppend
<1>13. Burst(c, n + 1) <=> Len(Append(kept, now)) >= MaxFailures
  BY <1>1, <1>3, CountedBurst
<1>14. /\ Burst(c, n + 1) => late = now + BlockTime
       /\ ~Burst(c, n + 1) => late = end
  BY <1>1, <1>13
<1>15. ASSUME NEW i \in 1 .. n
       PROVE  i \in DOMAIN all /\ c[i] = all[i] /\ (Burst(c, i) <=> Burst(all, i))
  <2>1. i \in DOMAIN all /\ all \in Seq(Int)
    BY <1>3, <1>4, SeqDef, LenProperties
  <2>2. QED
    BY <1>1, <1>2, <2>1, BurstStays
<1>16. ASSUME NEW i \in DOMAIN c, Burst(c, i)
       PROVE  c[i] + BlockTime <= now \/ c[i] + BlockTime <= late
  <2>1. CASE i = n + 1
    BY <1>2, <1>5, <1>14, <1>16, <2>1, LimitsFacts
  <2>2. CASE i # n + 1
    <3>1. i \in 1 .. n
      BY <1>4, <1>6, <2>2
    <3>2. c[i] = all[i] /\ Burst(all, i) /\ i \in DOMAIN all /\ all[i] \in Int /\ all[i] <= now
      BY <1>3, <1>4, <1>15, <1>16, <3>1
    <3>3. all[i] + BlockTime <= now \/ all[i] + BlockTime <= EndOf(record)
      BY <1>3, <3>2 DEF Faithful
    <3>4. QED
      BY <1>2, <1>8, <1>14, <3>2, <3>3, LimitsFacts
  <2>3. QED
    BY <2>1, <2>2
<1>17. ASSUME late > now
       PROVE  \E i \in DOMAIN c : Burst(c, i) /\ late = c[i] + BlockTime
  <2>1. CASE Burst(c, n + 1)
    <3>1. n + 1 \in DOMAIN c
      BY <1>4, <1>6
    <3>2. QED
      BY <1>5, <1>14, <2>1, <3>1
  <2>2. CASE ~Burst(c, n + 1)
    <3>1. late = EndOf(record) /\ EndOf(record) > now
      BY <1>2, <1>8, <1>14, <1>17, <2>2
    <3>2. PICK i \in DOMAIN all : Burst(all, i) /\ EndOf(record) = all[i] + BlockTime
      BY <1>3, <3>1 DEF Faithful
    <3>3. i \in 1 .. n /\ i \in DOMAIN c
      BY <1>4, <1>6, <3>2
    <3>4. QED
      BY <1>15, <3>1, <3>2, <3>3
  <2>3. QED
    BY <2>1, <2>2
<1>18. Faithful(new, c, now)
  BY <1>11, <1>12, <1>16, <1>17 DEF Faithful
<1>19. QED
  BY <1>1, <1>5, <1>7, <1>10, <1>18 DEF Known

LEMMA CleanedKnown ==
  ASSUME now \in Time, NEW record, NEW all, Known(record, all, now)
  PROVE  Known(Cleaned(record), all, now)
BY CleanedFaithful DEF Known

(* failure(c), with or without the room that has to be made. *)
LEMMA FailedKnown ==
  ASSUME now \in Time, NEW c \in Clients, NEW recs \in [Clients -> Record \cup {None}],
         counted \in [Clients -> Seq(Time)], now' = now,
         \A d \in Clients : Known(recs[d], counted[d], now), Failed(c, recs)
  PROVE  BlockInv'
<1>1. PICK room : room = IF recs[c] = None /\ IsFull(recs)
                         THEN [d \in Clients |-> Cleaned(recs[d])] ELSE recs
  OBVIOUS
<1>2. /\ room \in [Clients -> Record \cup {None}]
      /\ \A d \in Clients : Known(room[d], counted[d], now)
  <2>1. CASE room = recs
    BY <2>1
  <2>2. CASE room = [d \in Clients |-> Cleaned(recs[d])]
    <3>1. \A d \in Clients : room[d] = Cleaned(recs[d]) /\ Known(room[d], counted[d], now)
      BY <2>2, CleanedKnown
    <3>2. \A d \in Clients : room[d] \in Record \cup {None}
      BY <3>1 DEF Known
    <3>3. QED
      BY <2>2, <3>1, <3>2
  <2>3. QED
    BY <1>1, <2>1, <2>2
<1>3. PICK old : old = IF room[c] = None THEN [failures |-> <<>>, blocked_until |-> 0]
                       ELSE Trimmed(room[c])
  OBVIOUS
<1>4. PICK new : new = [ failures      |-> Append(old.failures, now),
                         blocked_until |-> IF Len(Append(old.failures, now)) >= MaxFailures
                                           THEN now + BlockTime ELSE old.blocked_until ]
  OBVIOUS
<1>5. \/ records' = room /\ counted' = counted
      \/ /\ records' = [room EXCEPT ![c] = new]
         /\ counted' = [counted EXCEPT ![c] = Append(@, now)]
  BY <1>1, <1>3, <1>4, Zenon DEF Failed
<1>6. CASE records' = room /\ counted' = counted
  BY <1>2, <1>6 DEF BlockInv, Known
<1>7. CASE /\ records' = [room EXCEPT ![c] = new]
           /\ counted' = [counted EXCEPT ![c] = Append(@, now)]
  <2>1. PICK record, all : record = room[c] /\ all = counted[c]
    OBVIOUS
  <2>2. record \in Record \cup {None} /\ all \in Seq(Time) /\ Known(record, all, now)
    BY <1>2, <2>1
  <2>3. InOrder(all) /\ Keeps(FailuresOf(record), all, now - FailureWindow)
    BY <2>2 DEF Known, Faithful
  <2>4. Time \in SUBSET Int /\ now \in Nat /\ now \in Int /\ FailureWindow \in Int /\ now - FailureWindow \in Int
    BY LimitsFacts DEF Time
  <2>5. /\ FailuresOf(record) \in Seq(Time) /\ EndOf(record) \in Nat
        /\ Blocks(record) <=> EndOf(record) > now
    BY <2>2, <2>4, RecordFacts
  <2>6. PICK kept : kept = old.failures
    OBVIOUS
  <2>7. /\ kept \in Seq(Time) /\ Keeps(kept, FailuresOf(record), now - FailureWindow)
        /\ Len(kept) > 0 => kept[1] > now - FailureWindow
        /\ old.blocked_until = IF EndOf(record) > now THEN EndOf(record) ELSE 0
    <3>1. CASE record = None
      <4>1. kept = <<>> /\ FailuresOf(record) = <<>> /\ EndOf(record) = 0 /\ old.blocked_until = 0
        BY <1>3, <2>1, <2>6, <3>1 DEF FailuresOf, EndOf
      <4>2. kept \in Seq(Time) /\ Len(kept) = 0
        BY <4>1, EmptySeq
      <4>3. DOMAIN kept = {}
        BY <4>2, ListFacts
      <4>4. Keeps(kept, FailuresOf(record), now - FailureWindow)
        BY <4>1, <4>2, <4>3 DEF Keeps
      <4>5. QED
        BY <4>1, <4>2, <4>4
    <3>2. CASE record # None
      <4>1. old = Trimmed(record) /\ FailuresOf(record) = record.failures /\ EndOf(record) = record.blocked_until
        BY <1>3, <2>1, <3>2 DEF FailuresOf, EndOf
      <4>2. kept = Newer(FailuresOf(record), FailureWindow)
        BY <2>6, <4>1 DEF Trimmed
      <4>3. /\ kept \in Seq(Time) /\ Keeps(kept, FailuresOf(record), now - FailureWindow)
            /\ Len(kept) > 0 => kept[1] > now - FailureWindow
        BY <2>4, <2>5, <4>2, NewerKeeps
      <4>4. old.blocked_until = IF Blocks(record) THEN EndOf(record) ELSE 0
        BY <4>1 DEF Trimmed
      <4>5. QED
        BY <2>5, <4>3, <4>4
    <3>3. QED
      BY <3>1, <3>2
  <2>8. Keeps(kept, all, now - FailureWindow)
    BY <2>2, <2>3, <2>4, <2>5, <2>7, KeepsTransitive
  <2>9. \A i \in DOMAIN kept : kept[i] > now - FailureWindow
    <3>1. Len(kept) \in Nat /\ DOMAIN kept = 1 .. Len(kept)
      BY <2>7, ListFacts
    <3>2. Len(kept) > 0 /\ kept[1] > now - FailureWindow => \A i \in DOMAIN kept : kept[i] > now - FailureWindow
      BY <2>2, <2>3, <2>4, <2>7, <2>8, KeptInOrder
    <3>3. QED
      BY <2>7, <3>1, <3>2
  <2>10. PICK end : end = old.blocked_until
    OBVIOUS
  <2>11. new = [ failures      |-> Append(kept, now),
                 blocked_until |-> IF Len(Append(kept, now)) >= MaxFailures
                                   THEN now + BlockTime ELSE end ]
    BY <1>4, <2>6, <2>10, Zenon
  <2>12. Known(new, Append(all, now), now)
    BY <2>2, <2>7, <2>8, <2>9, <2>10, <2>11, CountFailure
  <2>13. new \in Record \cup {None} /\ Append(all, now) \in Seq(Time)
    BY <2>12 DEF Known
  <2>14. counted' = [counted EXCEPT ![c] = Append(all, now)]
    BY <1>7, <2>1
  <2>15. ASSUME NEW d \in Clients PROVE Known(records'[d], counted'[d], now)
    <3>1. CASE d = c
      BY <1>2, <1>7, <2>12, <2>14, <3>1
    <3>2. CASE d # c
      BY <1>2, <1>7, <2>14, <3>2
    <3>3. QED
      BY <3>1, <3>2
  <2>16. records' \in [Clients -> Record \cup {None}] /\ counted' \in [Clients -> Seq(Time)]
    BY <1>2, <1>7, <2>13, <2>14
  <2>17. QED
    BY <2>15, <2>16 DEF BlockInv, Known
<1>8. QED
  BY <1>5, <1>6, <1>7

LEMMA CheckedKnown ==
  ASSUME now \in Time, BlockInv, NEW c
  PROVE  /\ Checked(c) \in [Clients -> Record \cup {None}]
         /\ \A d \in Clients : Known(Checked(c)[d], counted[d], now)
<1>1. ASSUME NEW d \in Clients
      PROVE  Checked(c)[d] \in Record \cup {None} /\ Known(Checked(c)[d], counted[d], now)
  <2>1. Checked(c)[d] \in {records[d], Cleaned(records[d])}
    BY DEF Checked, BlockInv
  <2>2. Known(records[d], counted[d], now)
    BY DEF BlockInv
  <2>3. Known(Cleaned(records[d]), counted[d], now)
    BY <2>2, CleanedKnown
  <2>4. Known(Checked(c)[d], counted[d], now)
    BY <2>1, <2>2, <2>3
  <2>5. QED
    BY <2>4 DEF Known
<1>2. Checked(c) = [d \in Clients |-> Checked(c)[d]]
  BY DEF Checked, BlockInv
<1>3. QED
  BY <1>1, <1>2

LEMMA NextKnown ==
  ASSUME now \in Time, SenderInv, BlockInv, [Next]_vars
  PROVE  BlockInv'
<1>1. ASSUME UNCHANGED <<records, counted, now>> PROVE BlockInv'
  BY <1>1 DEF BlockInv
<1>2. ASSUME NEW c, records' = Checked(c), UNCHANGED <<counted, now>> PROVE BlockInv'
  BY <1>2, CheckedKnown DEF BlockInv
<1>3. ASSUME NEW r \in Requests, requests[r] # None PROVE requests[r].client \in Clients
  BY <1>3 DEF SenderInv, Login
<1>4. ASSUME NEW r \in Requests, NEW sender \in Clients \ Proxies,
             NEW path \in Paths, NEW claimed \in Claims, Arrive(r, sender, path, claimed)
      PROVE  BlockInv'
  <2>1. UNCHANGED <<counted, now>> /\ (UNCHANGED records \/ \E c : records' = Checked(c))
    BY <1>4, Zenon DEF Arrive
  <2>2. QED
    BY <1>1, <1>2, <2>1
<1>5. ASSUME NEW r \in Requests, NEW recs, recs \in {records, Checked(requests[r].client)},
             requests[r] # None, Failed(requests[r].client, recs), UNCHANGED now
      PROVE  BlockInv'
  <2>1. /\ recs \in [Clients -> Record \cup {None}]
        /\ \A d \in Clients : Known(recs[d], counted[d], now)
    BY <1>5, CheckedKnown DEF BlockInv
  <2>2. requests[r].client \in Clients
    BY <1>3, <1>5
  <2>3. QED
    BY <1>5, <2>1, <2>2, FailedKnown DEF BlockInv
<1>6. ASSUME NEW r \in Requests, Malformed(r) PROVE BlockInv'
  <2>1. PICK c : c = requests[r].client
    OBVIOUS
  <2>2. /\ requests[r] # None /\ UNCHANGED now
        /\ \/ UNCHANGED <<records, counted>>
           \/ records' = Checked(c) /\ UNCHANGED counted
           \/ Failed(c, Checked(c))
    BY <1>6, <2>1, Zenon DEF Malformed, AtBody, limiter
  <2>3. QED
    BY <1>1, <1>2, <1>5, <2>1, <2>2
<1>7. ASSUME NEW r \in Requests, Authenticate(r) \/ CannotSubmit(r) \/ Refuse(r) PROVE BlockInv'
  <2>1. UNCHANGED <<counted, now>> /\ (UNCHANGED records \/ \E c : records' = Checked(c))
    BY <1>7, Zenon DEF Authenticate, CannotSubmit, Refuse
  <2>2. QED
    BY <1>1, <1>2, <2>1
<1>8. ASSUME NEW r \in Requests, Resume(r) PROVE BlockInv'
  <2>1. PICK c : c = requests[r].client
    OBVIOUS
  <2>2. c \in Clients /\ requests[r] # None /\ UNCHANGED now
    BY <1>3, <1>8, <2>1 DEF Resume, Awake
  <2>3. CASE requests[r].phase = "match"
    <3>1. /\ records' = [records EXCEPT ![c] = None]
          /\ counted' = [counted EXCEPT ![c] = <<>>]
      BY <1>8, <2>1, <2>3 DEF Resume
    <3>2. <<>> \in Seq(Time) /\ Len(<<>>) = 0 /\ DOMAIN <<>> = {}
      BY EmptySeq
    <3>3. Faithful(None, <<>>, now)
      BY <3>2 DEF Faithful, FailuresOf, EndOf, Keeps, Time
    <3>4. Known(None, <<>>, now)
      BY <3>2, <3>3 DEF Known, InOrder
    <3>5. ASSUME NEW d \in Clients PROVE Known(records'[d], counted'[d], now)
      BY <2>2, <3>1, <3>4 DEF BlockInv
    <3>6. records' \in [Clients -> Record \cup {None}] /\ counted' \in [Clients -> Seq(Time)]
      BY <3>1, <3>2 DEF BlockInv
    <3>7. QED
      BY <2>2, <3>5, <3>6 DEF BlockInv
  <2>4. CASE requests[r].phase = "mismatch"
    <3>1. Failed(c, records)
      BY <1>8, <2>1, <2>4 DEF Resume
    <3>2. QED
      BY <1>5, <2>1, <2>2, <3>1
  <2>5. CASE requests[r].phase = "error"
    <3>1. UNCHANGED <<records, counted>>
      BY <1>8, <2>5 DEF Resume, limiter
    <3>2. QED
      BY <1>1, <2>2, <3>1
  <2>6. QED
    BY <1>8, <2>3, <2>4, <2>5 DEF Resume, Awake
<1>9. CASE Tick
  <2>1. UNCHANGED <<records, counted>> /\ now' = now + 1 /\ now \in Int /\ now - FailureWindow \in Int /\ (now + 1) - FailureWindow \in Int
    BY <1>9, LimitsFacts DEF Tick, limiter, Time
  <2>2. ASSUME NEW record, NEW all, Known(record, all, now) PROVE Known(record, all, now + 1)
    <3>1. Time \in SUBSET Int /\ record \in Record \cup {None} /\ all \in Seq(Time)
      BY <2>2 DEF Known, Time
    <3>2. FailuresOf(record) \in Seq(Time) /\ EndOf(record) \in Nat
      BY <3>1, RecordFacts
    <3>3. \A i \in DOMAIN all : all[i] \in Int
      BY <3>1, ListFacts
    <3>4. Len(FailuresOf(record)) \in Nat
      BY <3>2, ListFacts
    <3>5. Keeps(FailuresOf(record), all, (now + 1) - FailureWindow)
      <4>1. Keeps(FailuresOf(record), all, now - FailureWindow)
        BY <2>2 DEF Known, Faithful
      <4>2. now - FailureWindow <= (now + 1) - FailureWindow
        BY <2>1, LimitsFacts
      <4>3. QED
        BY <2>1, <3>1, <3>4, <4>1, <4>2, KeepsLater
    <3>6. ASSUME NEW i \in DOMAIN all, Burst(all, i)
          PROVE  all[i] + BlockTime <= now + 1 \/ all[i] + BlockTime <= EndOf(record)
      <4>1. all[i] + BlockTime <= now \/ all[i] + BlockTime <= EndOf(record)
        BY <2>2, <3>6 DEF Known, Faithful
      <4>2. QED
        BY <2>1, <3>3, <4>1, LimitsFacts
    <3>7. EndOf(record) > now + 1 => EndOf(record) > now
      BY <2>1, <3>2
    <3>8. Faithful(record, all, now + 1)
      BY <2>2, <3>5, <3>6, <3>7 DEF Known, Faithful
    <3>9. \A i \in DOMAIN all : all[i] <= now + 1
      BY <2>1, <2>2, <3>3 DEF Known
    <3>10. QED
      BY <2>2, <3>8, <3>9 DEF Known
  <2>3. QED
    BY <2>1, <2>2 DEF BlockInv
<1>10. CASE Done
  BY <1>1, <1>10 DEF Done, limiter
<1>11. ASSUME NEW r \in Requests, Cancel(r) PROVE BlockInv'
  BY <1>1, <1>11 DEF Cancel, limiter
<1>12. CASE UNCHANGED vars
  BY <1>1, <1>12 DEF vars, limiter
<1>13. QED
  BY <1>4, <1>6, <1>7, <1>8, <1>9, <1>10, <1>11, <1>12 DEF Next

----------------------------------------------------------------------------
(* The starts of the last window.                                          *)

VerifierInv == starts \in Seq(Time) /\ begun \in Seq(Time) /\ StartsInv

(* The verifier's list, trimmed, holds the starts of the last window and no *)
(* other: that many are counted before the next is admitted.                *)
LEMMA TrimmedStarts ==
  ASSUME now \in Time, VerifierInv
  PROVE  LET kept == Newer(starts, StartWindow) IN
           /\ kept \in Seq(Time) /\ InOrder(kept)
           /\ \A i \in DOMAIN kept : kept[i] <= now
           /\ Len(begun) = Len(kept)
           /\ Keeps(begun, kept, now - StartWindow)
<1>1. PICK kept, limit : kept = Newer(starts, StartWindow) /\ limit = now - StartWindow
  OBVIOUS
<1>2. Time \in SUBSET Int /\ now \in Int /\ StartWindow \in Int /\ limit \in Int
  BY <1>1, LimitsFacts DEF Time
<1>3. /\ starts \in Seq(Time) /\ begun \in Seq(Time) /\ InOrder(starts)
      /\ \A i \in DOMAIN starts : starts[i] <= now
      /\ \A i \in DOMAIN begun : begun[i] > limit
      /\ Keeps(begun, starts, limit)
  BY <1>1 DEF VerifierInv, StartsInv
<1>4. kept \in Seq(Time) /\ Keeps(kept, starts, limit)
  BY <1>1, <1>2, <1>3, NewerKeeps
<1>5. InOrder(kept) /\ \A i \in DOMAIN kept : kept[i] > limit
  BY <1>1, <1>2, <1>3, NewerInOrder
<1>6. Len(begun) = Len(kept) /\ \A i \in DOMAIN begun : begun[i] = kept[i]
  BY <1>2, <1>3, <1>4, <1>5, KeptTheSame
<1>7. PICK n : n = Len(kept)
  OBVIOUS
<1>8. /\ n \in Nat /\ DOMAIN begun = 1 .. n /\ DOMAIN kept = 1 .. n /\ Len(starts) \in Nat
      /\ DOMAIN starts = 1 .. Len(starts)
  BY <1>3, <1>4, <1>6, <1>7, ListFacts
<1>9. KeepsOf(begun, kept, limit, n, n)
  BY <1>6, <1>8 DEF KeepsOf
<1>10. Keeps(begun, kept, limit)
  BY <1>6, <1>7, <1>8, <1>9, KeepsMeans, Zenon
<1>11. \A i \in DOMAIN kept : kept[i] <= now
  <2>1. KeepsOf(kept, starts, limit, n, Len(starts))
    BY <1>4, <1>7, <1>8, KeepsMeans, Zenon
  <2>2. ASSUME NEW i \in 1 .. n PROVE kept[i] <= now
    <3>1. (Len(starts) - n) + i \in 1 .. Len(starts)
      BY <1>8, <2>1 DEF KeepsOf
    <3>2. QED
      BY <1>3, <1>8, <2>1, <3>1 DEF KeepsOf
  <2>3. QED
    BY <1>8, <2>2
<1>12. QED
  BY <1>1, <1>4, <1>5, <1>6, <1>10, <1>11

LEMMA NextVerifier ==
  ASSUME now \in Time, now' \in Time, VerifierInv, [Next]_vars
  PROVE  VerifierInv'
<1>1. PICK kept, limit : kept = Newer(starts, StartWindow) /\ limit = now - StartWindow
  OBVIOUS
<1>2. Time \in SUBSET Int /\ now \in Int /\ limit \in Int /\ limit < now
  BY <1>1, LimitsFacts DEF Time
<1>3. /\ kept \in Seq(Time) /\ InOrder(kept) /\ \A i \in DOMAIN kept : kept[i] <= now
      /\ Len(begun) = Len(kept) /\ Keeps(begun, kept, limit)
  BY <1>1, TrimmedStarts
<1>4. /\ starts \in Seq(Time) /\ begun \in Seq(Time) /\ InOrder(starts)
      /\ \A i \in DOMAIN starts : starts[i] <= now
      /\ \A i \in DOMAIN begun : begun[i] > limit
      /\ Keeps(begun, starts, limit) /\ Len(begun) <= MaxStarts
  BY <1>1 DEF VerifierInv, StartsInv, StartsAreBounded
<1>5. Len(begun) \in Nat /\ DOMAIN begun = 1 .. Len(begun)
  BY <1>4, ListFacts
<1>6. ASSUME UNCHANGED <<starts, begun, now>> PROVE VerifierInv'
  BY <1>6 DEF VerifierInv, StartsInv, StartsAreBounded
<1>7. ASSUME NEW r \in Requests, Authenticate(r) \/ CannotSubmit(r) PROVE VerifierInv'
  <2>1. /\ starts' = Append(kept, now) /\ begun' = Append(begun, now) /\ now' = now
        /\ Len(kept) < MaxStarts
    BY <1>1, <1>7 DEF Authenticate, CannotSubmit, Admits
  <2>2. /\ starts' \in Seq(Time)
        /\ begun' \in Seq(Time) /\ Len(begun') = Len(begun) + 1
        /\ begun'[Len(begun) + 1] = now /\ \A i \in 1 .. Len(begun) : begun'[i] = begun[i]
    BY <1>3, <1>4, <2>1, AppendProperties
  <2>3. InOrder(starts') /\ \A i \in DOMAIN starts' : starts'[i] <= now
    BY <1>2, <1>3, <2>1, AppendInOrder
  <2>4. Keeps(begun', starts', limit)
    BY <1>2, <1>3, <1>4, <2>1, KeepsAppend
  <2>5. DOMAIN begun' = 1 .. Len(begun) + 1
    BY <2>2, ListFacts
  <2>6. \A i \in DOMAIN begun' : begun'[i] > limit
    BY <1>2, <1>4, <1>5, <2>2, <2>5
  <2>7. Len(begun') <= MaxStarts
    BY <1>3, <1>5, <2>1, <2>2, LimitsFacts
  <2>8. QED
    BY <1>1, <2>1, <2>2, <2>3, <2>4, <2>6, <2>7 DEF VerifierInv, StartsInv, StartsAreBounded
<1>8. ASSUME NEW r \in Requests, Refuse(r) PROVE VerifierInv'
  <2>1. UNCHANGED <<begun, now>> /\ (UNCHANGED starts \/ starts' = kept)
    BY <1>1, <1>8, Zenon DEF Refuse
  <2>2. CASE starts' = kept
    BY <1>1, <1>3, <1>4, <2>1, <2>2 DEF VerifierInv, StartsInv, StartsAreBounded
  <2>3. QED
    BY <1>6, <2>1, <2>2
<1>9. CASE Tick
  <2>1. PICK n, past, later :
          /\ n = Len(begun) /\ later = (now + 1) - StartWindow
          /\ past = { i \in DOMAIN begun : begun[i] <= now' - StartWindow }
    OBVIOUS
  <2>2. /\ now' = now + 1 /\ UNCHANGED starts
        /\ begun' = SubSeq(begun, Cardinality(past) + 1, Len(begun))
    BY <1>9, <2>1 DEF Tick
  <2>3. /\ n \in Nat /\ DOMAIN begun = 1 .. n /\ \A i \in 1 .. n : begun[i] \in Time /\ begun[i] \in Int
        /\ later \in Int /\ limit <= later
    <3>1. n \in Nat /\ DOMAIN begun = 1 .. n /\ \A i \in 1 .. n : begun[i] \in Time
      BY <1>4, <2>1, ListFacts
    <3>2. StartWindow \in Nat
      BY LimitsFacts
    <3>3. later \in Int /\ limit <= later
      BY <1>1, <1>2, <2>1, <3>2
    <3>4. QED
      BY <1>2, <3>1, <3>3
  <2>4. InOrder(begun)
    BY <1>2, <1>4, KeptInOrder
  <2>5. PICK young : young = { i \in 1 .. n + 1 : i \notin past }
    OBVIOUS
  <2>6. young \in SUBSET Nat /\ n + 1 \in young
    BY <2>1, <2>3, <2>5
  <2>7. PICK m \in young : \A i \in young : m <= i
    BY <2>6, LeastNatural
  <2>8. m \in 1 .. n + 1 /\ m \notin past
    BY <2>5, <2>7
  <2>9. ASSUME NEW i \in 1 .. m - 1 PROVE i \in past
    <3>1. i \in 1 .. n + 1 /\ ~(m <= i)
      BY <2>3, <2>8, <2>9
    <3>2. QED
      BY <2>5, <2>7, <3>1
  <2>10. ASSUME NEW i \in m .. n PROVE begun[i] > later /\ i \notin past
    <3>1. m \in 1 .. n /\ i \in 1 .. n /\ m <= i
      BY <2>3, <2>8, <2>10
    <3>2. begun[m] <= begun[i] /\ begun[m] > later
      BY <2>1, <2>2, <2>3, <2>4, <2>8, <3>1 DEF InOrder
    <3>3. QED
      BY <2>1, <2>2, <2>3, <3>1, <3>2
  <2>11. past = 1 .. m - 1
    <3>1. \A i \in past : i \in 1 .. n
      BY <2>1, <2>3
    <3>2. \A i \in past : i \in 1 .. m - 1
      BY <2>3, <2>8, <2>10, <3>1
    <3>3. QED
      BY <2>9, <3>2
  <2>12. Cardinality(past) = m - 1
    <3>1. Cardinality(1 .. m - 1) = IF 1 > m - 1 THEN 0 ELSE (m - 1) - 1 + 1
      BY <2>8, FS_Interval
    <3>2. QED
      BY <2>8, <2>11, <3>1
  <2>13. PICK rest : rest = begun'
    OBVIOUS
  <2>14. rest = SubSeq(begun, m, n)
    <3>1. (m - 1) + 1 = m
      BY <2>8
    <3>2. QED
      BY <2>1, <2>2, <2>12, <2>13, <3>1
  <2>15. /\ rest \in Seq(Time) /\ Len(rest) = (n - m) + 1
         /\ \A i \in 1 .. (n - m) + 1 : rest[i] = begun[(m + i) - 1]
    <3>1. \A i \in m .. n : begun[i] \in Time
      BY <2>3, <2>8
    <3>2. /\ SubSeq(begun, m, n) \in Seq(Time)
          /\ Len(SubSeq(begun, m, n)) = IF m <= n THEN n - m + 1 ELSE 0
          /\ \A i \in 1 .. n - m + 1 : SubSeq(begun, m, n)[i] = begun[m + i - 1]
      BY <2>3, <2>8, <3>1, SubSeqProperties
    <3>3. QED
      BY <2>3, <2>8, <2>14, <3>2
  <2>16. DOMAIN rest = 1 .. (n - m) + 1 /\ (n - m) + 1 \in Nat
    BY <2>3, <2>8, <2>15, ListFacts
  <2>17. \A i \in DOMAIN rest : rest[i] > later
    <3>1. ASSUME NEW i \in 1 .. (n - m) + 1 PROVE rest[i] > later
      <4>1. (m + i) - 1 \in m .. n
        BY <2>3, <2>8
      <4>2. QED
        BY <2>10, <2>15, <4>1
    <3>2. QED
      BY <2>16, <3>1
  <2>18. Keeps(rest, begun, later)
    <3>1. \A i \in 1 .. m - 1 : begun[i] <= later
      BY <2>1, <2>2, <2>9
    <3>2. \A i \in 1 .. (n - m) + 1 : rest[i] = begun[(m - 1) + i]
      BY <2>8, <2>15
    <3>3. n - ((n - m) + 1) = m - 1 /\ (n - m) + 1 <= n
      BY <2>3, <2>8
    <3>4. KeepsOf(rest, begun, later, (n - m) + 1, n)
      BY <3>1, <3>2, <3>3 DEF KeepsOf
    <3>5. QED
      BY <2>1, <2>3, <2>15, <2>16, <3>4, KeepsMeans, Zenon
  <2>19. Keeps(rest, starts, later)
    <3>1. Keeps(begun, starts, later)
      BY <1>2, <1>4, <1>5, <2>3, KeepsLater
    <3>2. QED
      BY <1>2, <1>4, <2>3, <2>15, <2>18, <3>1, KeepsTransitive
  <2>20. Len(rest) <= MaxStarts
    BY <1>4, <2>1, <2>3, <2>8, <2>15, LimitsFacts
  <2>21. \A i \in DOMAIN starts : starts[i] <= now + 1
    <3>1. \A i \in DOMAIN starts : starts[i] \in Int
      BY <1>2, <1>4, ListFacts
    <3>2. QED
      BY <1>2, <1>4, <3>1
  <2>22. QED
    BY <1>4, <2>1, <2>2, <2>13, <2>15, <2>17, <2>19, <2>20, <2>21
       DEF VerifierInv, StartsInv, StartsAreBounded
<1>10. ASSUME NEW r \in Requests,
              \/ \E sender \in Clients \ Proxies, path \in Paths, claimed \in Claims :
                   Arrive(r, sender, path, claimed)
              \/ Malformed(r) \/ Cancel(r) \/ Resume(r)
       PROVE  VerifierInv'
  <2>1. UNCHANGED <<starts, begun, now>>
    BY <1>10 DEF Arrive, Malformed, Cancel, Resume, verifier
  <2>2. QED
    BY <1>6, <2>1
<1>11. CASE Done
  BY <1>6, <1>11 DEF Done
<1>12. CASE UNCHANGED vars
  BY <1>6, <1>12 DEF vars, verifier
<1>13. QED
  BY <1>7, <1>8, <1>9, <1>10, <1>11, <1>12 DEF Next

----------------------------------------------------------------------------
(* Together.                                                               *)

ClockInv == now \in Time /\ ready \in BOOLEAN

LEMMA NextClock == ClockInv /\ [Next]_vars => ClockInv'
<1> SUFFICES ASSUME ClockInv, [Next]_vars PROVE ClockInv'
  OBVIOUS
<1>1. CASE Tick
  BY <1>1, LimitsFacts DEF Tick, ClockInv, Time
<1>2. ASSUME NEW r \in Requests, Resume(r) PROVE ClockInv'
  <2>1. now' = now /\ (ready' = FALSE \/ ready' = ready)
    BY <1>2, Zenon DEF Resume, Awake
  <2>2. QED
    BY <2>1, Zenon DEF ClockInv
<1>3. ASSUME UNCHANGED <<now, ready>> PROVE ClockInv'
  BY <1>3, Zenon DEF ClockInv
<1>4. ASSUME NEW r \in Requests,
             \/ \E sender \in Clients \ Proxies, path \in Paths, claimed \in Claims :
                  Arrive(r, sender, path, claimed)
             \/ Malformed(r) \/ Authenticate(r) \/ CannotSubmit(r) \/ Refuse(r) \/ Cancel(r)
      PROVE  UNCHANGED <<now, ready>>
  BY <1>4 DEF Arrive, Malformed, Authenticate, CannotSubmit, Refuse, Cancel
<1>5. CASE Done
  BY <1>3, <1>5 DEF Done
<1>6. CASE UNCHANGED vars
  BY <1>3, <1>6 DEF vars
<1>7. QED
  BY <1>1, <1>2, <1>3, <1>4, <1>5, <1>6 DEF Next

GateInv == IInv /\ SenderInv /\ ClockInv /\ VerifierInv /\ BlockInv

LEMMA InitGate == Init => GateInv
<1> SUFFICES ASSUME Init PROVE GateInv
  OBVIOUS
<1>1. <<>> \in Seq(Time) /\ Len(<<>>) = 0 /\ DOMAIN <<>> = {} /\ 0 \in Time
  BY EmptySeq, LimitsFacts DEF Time
<1>2. \A limit : Keeps(<<>>, <<>>, limit)
  BY <1>1 DEF Keeps
<1>3. ClockInv
  BY <1>1 DEF Init, ClockInv
<1>4. VerifierInv
  BY <1>1, <1>2, LimitsFacts DEF Init, VerifierInv, StartsInv, StartsAreBounded, InOrder
<1>5. Known(None, <<>>, 0)
  <2>1. Faithful(None, <<>>, 0)
    BY <1>1, <1>2 DEF Faithful, FailuresOf, EndOf
  <2>2. QED
    BY <1>1, <2>1 DEF Known, InOrder
<1>6. BlockInv
  BY <1>1, <1>5 DEF Init, BlockInv
<1>7. QED
  BY <1>3, <1>4, <1>6, InitSlot, InitSender DEF GateInv

LEMMA NextGate == GateInv /\ [Next]_vars => GateInv'
<1> SUFFICES ASSUME GateInv, [Next]_vars PROVE GateInv'
  OBVIOUS
<1>1. IInv' /\ SenderInv' /\ ClockInv'
  BY NextSlot, NextSender, NextClock DEF GateInv
<1>2. now \in Time /\ now' \in Time
  BY <1>1 DEF GateInv, ClockInv
<1>3. VerifierInv'
  BY <1>2, NextVerifier DEF GateInv
<1>4. BlockInv'
  BY <1>2, NextKnown DEF GateInv
<1>5. QED
  BY <1>1, <1>3, <1>4 DEF GateInv

LEMMA Gated == Spec => []GateInv
BY InitGate, NextGate, PTL DEF Spec

(* Every variable keeps its type (AuthState, LoginRateLimiter,              *)
(* PasswordVerifier and the logins under way).                              *)
THEOREM TypeCorrect == Spec => []TypeOK
<1>1. GateInv => TypeOK
  BY Zenon DEF GateInv, TypeOK, IInv, SenderInv, ClockInv, VerifierInv, BlockInv
<1>2. QED
  BY <1>1, Gated, PTL

(* No window of StartWindow sees more than MaxStarts checks begin          *)
(* (PasswordVerifier._starts).                                             *)
THEOREM StartsTheorem == Spec => []StartsAreBounded
<1>1. GateInv => StartsAreBounded
  BY DEF GateInv, VerifierInv, StartsInv
<1>2. QED
  BY <1>1, Gated, PTL

(* A client is refused exactly as long as all its failures since its last  *)
(* success say, whatever was trimmed, dropped or made room for meanwhile   *)
(* (LoginRateLimiter).                                                     *)
THEOREM BlockTheorem == Spec => []BlockIsExact
<1>1. ASSUME GateInv, NEW c \in Clients PROVE Blocks(records[c]) <=> Deserved(c)
  <2>1. PICK record, all : record = records[c] /\ all = counted[c]
    OBVIOUS
  <2>2. Known(record, all, now) /\ now \in Nat /\ now \in Int
    BY <1>1, <2>1, LimitsFacts DEF GateInv, BlockInv, ClockInv, Time
  <2>3. /\ record \in Record \cup {None} /\ all \in Seq(Time) /\ Time \in SUBSET Int
        /\ Faithful(record, all, now)
    BY <2>2 DEF Known, Time
  <2>4. EndOf(record) \in Nat /\ (Blocks(record) <=> EndOf(record) > now)
    BY <2>2, <2>3, RecordFacts
  <2>5. \A i \in DOMAIN all : all[i] \in Int
    BY <2>3, ListFacts
  <2>6. ASSUME EndOf(record) > now PROVE Deserved(c)
    BY <2>1, <2>2, <2>3, <2>6 DEF Faithful, Deserved
  <2>7. ASSUME NEW i \in DOMAIN all, now < all[i] + BlockTime, Burst(all, i) PROVE EndOf(record) > now
    BY <2>2, <2>3, <2>4, <2>5, <2>7, LimitsFacts DEF Faithful
  <2>8. QED
    BY <2>1, <2>4, <2>6, <2>7 DEF Deserved
<1>2. GateInv => BlockIsExact
  BY <1>1 DEF BlockIsExact
<1>3. QED
  BY <1>2, Gated, PTL
=============================================================================
