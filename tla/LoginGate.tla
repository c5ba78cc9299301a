----------------------------- MODULE LoginGate -----------------------------
(***************************************************************************)
(* POST /api/auth/login: AuthMiddleware, LoginRateLimiter, PasswordVerifier *)
(* and AuthManager.authenticate of app/auth.py, and the login handler of   *)
(* app/api/auth_routes.py.                                                 *)
(*                                                                         *)
(* A login waits twice, for its body and for the Argon2 check in a thread, *)
(* and between two waits it runs alone.  What it knew of its client before *)
(* a wait may be out of date after it.                                     *)
(***************************************************************************)
EXTENDS Integers, SequencesExt, FiniteSetsExt

CONSTANTS
  Clients,         \* addresses
  Proxies,         \* BRISA_TRUSTED_PROXY_CIDRS; none if proxies are not trusted
  MaxHops,         \* MAX_FORWARDED_HOPS
  Requests,        \* bound: logins under way at one time
  MaxFailures, FailureWindow, BlockTime,   \* 5 in 600 s, 900 s
  MaxClients,      \* MAX_RATE_LIMIT_CLIENTS
  MaxStarts, StartWindow,                  \* 30 in 60 s
  Paths, Claims,   \* bound: ways through proxies, headers that senders make up
  MaxTime,         \* bound: the clock
  None

ASSUME LimitsAssumption ==
  {MaxFailures, FailureWindow, BlockTime, MaxClients, MaxStarts, StartWindow, MaxTime}
    \subseteq Nat \ {0}
ASSUME ProxiesAssumption == Proxies \subseteq Clients /\ MaxHops \in Nat
ASSUME RequestsAssumption == Paths \subseteq Seq(Proxies) /\ Claims \subseteq Seq(Clients \cup {None})
ASSUME NoneIsNoRequest == None \notin Requests \cup Clients

VARIABLES
  now,
  ready,      \* AuthState.READY rather than INVALID
  records,    \* LoginRateLimiter._records
  starts,     \* PasswordVerifier._starts
  busy,       \* PasswordVerifier._busy
  executor,   \* submitted checks, oldest first: the request that waits, if any
  requests,   \* for each its effective client and, as history, who really sent it
  (* history variables *)
  counted,    \* the failures counted against a client since its last success
  begun       \* the checks begun in the last StartWindow

limiter  == <<records, counted>>
verifier == <<starts, busy, executor, begun>>
vars == <<now, ready, limiter, verifier, requests>>

Time == 0 .. MaxTime

Record == [failures : Seq(Time), blocked_until : Nat]

(* A login under way. *)
Login == [ client : Clients, sender : Clients,
           phase  : {"body", "verify", "match", "mismatch", "error"} ]
ASSUME NoneIsNoEntry == None \notin Login \cup Record

TypeOK ==
  /\ now \in Time
  /\ ready \in BOOLEAN
  /\ records \in [Clients -> Record \cup {None}]
  /\ starts \in Seq(Time) /\ begun \in Seq(Time)
  /\ busy \in BOOLEAN
  /\ executor \in Seq(Requests \cup {None})
  /\ requests \in [Requests -> Login \cup {None}]
  /\ counted \in [Clients -> Seq(Time)]

Init ==
  /\ now = 0
  /\ ready = TRUE
  /\ records = [c \in Clients |-> None]
  /\ starts = <<>> /\ busy = FALSE /\ executor = <<>>
  /\ requests = [r \in Requests |-> None]
  /\ counted = [c \in Clients |-> <<>>] /\ begun = <<>>

----------------------------------------------------------------------------
(* LoginRateLimiter                                                        *)

(* Old times are taken from the left as long as there are any. *)
Newer(times, age) ==
  SubSeq(times, Min({ i \in DOMAIN times : times[i] > now - age } \cup {Len(times) + 1}),
         Len(times))

Blocks(record) == record # None /\ record.blocked_until > now

(* _trim_failures *)
Trimmed(record) ==
  [ failures      |-> Newer(record.failures, FailureWindow),
    blocked_until |-> IF Blocks(record) THEN record.blocked_until ELSE 0 ]

\* Mutation: the end of the block is not looked at.
CleanedByFailures(record) ==
  IF record = None \/ Trimmed(record).failures = <<>> THEN None ELSE Trimmed(record)

(* check() and _make_room() drop a record that says nothing any more. *)
Cleaned(record) ==
  IF record = None \/ (~Blocks(record) /\ Trimmed(record).failures = <<>>)
  THEN None ELSE Trimmed(record)

Checked(c) == [records EXCEPT ![c] = Cleaned(@)]

IsFull(recs) == Cardinality({ c \in Clients : recs[c] # None }) >= MaxClients

(* failure(c) on the records recs, which check(c) may have cleaned before.  *)
(* A client for which there is no room is refused, its failure not counted. *)
Failed(c, recs) ==
  LET room == IF recs[c] = None /\ IsFull(recs)
              THEN [d \in Clients |-> Cleaned(recs[d])] ELSE recs
      old  == IF room[c] = None THEN [failures |-> <<>>, blocked_until |-> 0]
              ELSE Trimmed(room[c])
      failures == Append(old.failures, now)
  IN  IF room[c] = None /\ IsFull(room)
      THEN records' = room /\ UNCHANGED counted
      ELSE /\ records' = [room EXCEPT ![c] =
                [ failures      |-> failures,
                  blocked_until |-> IF Len(failures) >= MaxFailures
                                    THEN now + BlockTime ELSE old.blocked_until ]]
           /\ counted' = [counted EXCEPT ![c] = Append(@, now)]

----------------------------------------------------------------------------
(* Requests                                                                *)

End(r) == requests' = [requests EXCEPT ![r] = None]

(* X-Forwarded-For is used when it is one list of at most MaxHops addresses. *)
Readable(hops) == Len(hops) \in 1 .. MaxHops /\ None \notin Range(hops)

\* Mutation: the list is read from its left end.
ClientFromTheLeft(peer, hops) ==
  IF peer \notin Proxies \/ ~Readable(hops) THEN peer ELSE Head(hops)

(* effective_client_ip: from the right, the first that is no trusted proxy. *)
EffectiveClient(peer, hops) ==
  IF peer \notin Proxies \/ ~Readable(hops) THEN peer
  ELSE LET chain     == Append(hops, peer)
           untrusted == { i \in DOMAIN chain : chain[i] \notin Proxies }
       IN  chain[IF untrusted = {} THEN 1 ELSE Max(untrusted)]

(* A login comes from its sender through a path of proxies, each of which   *)
(* appends to the header whom it has it from; what the sender claimed in it *)
(* itself stays in front.  The middleware refuses a blocked client before   *)
(* its body is read.                                                        *)
Arrive(r, sender, path, claimed) ==
  LET chain == <<sender>> \o path
      peer  == Last(chain)
      hops  == claimed \o Front(chain)
      c     == EffectiveClient(peer, hops)
  IN  /\ requests[r] = None
      /\ IF ready
         THEN /\ records' = Checked(c)
              /\ requests' = IF Blocks(records[c]) THEN requests
                   ELSE [requests EXCEPT ![r] =
                          [ client |-> c, phase |-> "body",
                            sender |-> IF path = <<>> \/ Readable(hops) THEN sender ELSE peer ]]
         ELSE UNCHANGED <<records, requests>>
      /\ UNCHANGED <<now, ready, counted, verifier>>

AtBody(r) == requests[r] # None /\ requests[r].phase = "body"

(* The body is late, too long, cut off, or no login: record_malformed_login. *)
Malformed(r) ==
  /\ AtBody(r)
  /\ LET c == requests[r].client IN
       IF ~ready THEN UNCHANGED limiter
       ELSE IF Blocks(records[c]) THEN records' = Checked(c) /\ UNCHANGED counted
       ELSE Failed(c, Checked(c))
  /\ End(r)
  /\ UNCHANGED <<now, ready, verifier>>

\* Mutation: the starts of the current window are counted one too many.
AdmitsOneMore == ~busy /\ Len(Newer(starts, StartWindow)) <= MaxStarts

(* verify() starts a check or refuses; it never queues one. *)
Admits == ~busy /\ Len(Newer(starts, StartWindow)) < MaxStarts

Authenticate(r) ==
  /\ AtBody(r) /\ ready /\ ~Blocks(records[requests[r].client])
  /\ Admits
  /\ records' = Checked(requests[r].client)
  /\ starts' = Append(Newer(starts, StartWindow), now)
  /\ begun' = Append(begun, now)
  /\ busy' = TRUE
  /\ executor' = Append(executor, r)
  /\ requests' = [requests EXCEPT ![r].phase = "verify"]
  /\ UNCHANGED <<now, ready, counted>>

(* No thread can be started: the slot is given back, the start stays counted. *)
CannotSubmit(r) ==
  /\ AtBody(r) /\ ready /\ ~Blocks(records[requests[r].client])
  /\ Admits
  /\ records' = Checked(requests[r].client)
  /\ starts' = Append(Newer(starts, StartWindow), now)
  /\ begun' = Append(begun, now)
  /\ End(r)
  /\ UNCHANGED <<now, ready, counted, busy, executor>>

(* Authentication is out of order, the client blocked, or the verifier refuses. *)
Refuse(r) ==
  /\ AtBody(r)
  /\ LET c == requests[r].client IN
       IF ~ready THEN UNCHANGED <<records, starts>>
       ELSE /\ records' = Checked(c)
            /\ IF Blocks(records[c]) THEN UNCHANGED starts
               ELSE ~Admits /\ starts' = Newer(starts, StartWindow)
  /\ End(r)
  /\ UNCHANGED <<now, ready, counted, busy, executor, begun>>

\* Mutation: the slot is given back with the waiter, not with the thread.
CancelReleases(r) ==
  /\ requests[r] # None /\ requests[r].phase = "verify"
  /\ executor' = [i \in DOMAIN executor |-> IF executor[i] = r THEN None ELSE executor[i]]
  /\ busy' = FALSE
  /\ End(r)
  /\ UNCHANGED <<now, ready, limiter, starts, begun>>

(* The task that waits is cancelled; asyncio.shield keeps the check going. *)
Cancel(r) ==
  /\ requests[r] # None /\ requests[r].phase = "verify"
  /\ executor' = [i \in DOMAIN executor |-> IF executor[i] = r THEN None ELSE executor[i]]
  /\ End(r)
  /\ UNCHANGED <<now, ready, limiter, starts, busy, begun>>

Awake(r) == requests[r] # None /\ requests[r].phase \in {"match", "mismatch", "error"}

(* The thread is done: first the slot is free (add_done_callback), later   *)
(* the waiter runs, and others may run in between.  Wake-ups are served in *)
(* their order, so the waiter has run before a further check is done.      *)
Done ==
  /\ executor # <<>>
  /\ \A r \in Requests : ~Awake(r)
  /\ executor' = Tail(executor)
  /\ busy' = FALSE
  /\ IF Head(executor) = None THEN UNCHANGED requests
     ELSE \E outcome \in {"match", "mismatch", "error"} :
            requests' = [requests EXCEPT ![Head(executor)].phase = outcome]
  /\ UNCHANGED <<now, ready, limiter, starts, begun>>

(* authenticate() after its await: an internal error ends all logins. *)
Resume(r) ==
  /\ Awake(r)
  /\ LET c == requests[r].client IN
       CASE requests[r].phase = "match" ->
              /\ records' = [records EXCEPT ![c] = None]
              /\ counted' = [counted EXCEPT ![c] = <<>>]
              /\ UNCHANGED ready
         [] requests[r].phase = "mismatch" -> Failed(c, records) /\ UNCHANGED ready
         [] requests[r].phase = "error" -> ready' = FALSE /\ UNCHANGED limiter
  /\ End(r)
  /\ UNCHANGED <<now, verifier>>

Tick ==
  /\ now < MaxTime
  /\ now' = now + 1
  /\ LET past == { i \in DOMAIN begun : begun[i] <= now' - StartWindow }
     IN  begun' = SubSeq(begun, Cardinality(past) + 1, Len(begun))
  /\ UNCHANGED <<ready, limiter, starts, busy, executor, requests>>

Next ==
  \/ \E r \in Requests :
       \/ \E sender \in Clients \ Proxies, path \in Paths, claimed \in Claims :
            Arrive(r, sender, path, claimed)
       \/ Malformed(r) \/ Authenticate(r) \/ CannotSubmit(r) \/ Refuse(r)
       \/ Cancel(r) \/ Resume(r)
  \/ Done
  \/ Tick

Spec == Init /\ [][Next]_vars
----------------------------------------------------------------------------
(* Properties.                                                             *)

(* The rule, over all failures ever counted: MaxFailures within the window *)
(* block a client for BlockTime from the last of them.                     *)
Burst(failures, i) ==
  Cardinality({ j \in 1 .. i : failures[j] > failures[i] - FailureWindow }) >= MaxFailures

Deserved(c) ==
  \E i \in DOMAIN counted[c] : now < counted[c][i] + BlockTime /\ Burst(counted[c], i)

(* Whatever a sender writes into the header, and however many proxies lie   *)
(* between, its logins are counted against itself and never against         *)
(* another client; with a header that cannot be used they are counted       *)
(* against the proxy that delivered it (effective_client_ip).               *)
CountedBySender ==
  \A r \in Requests : requests[r] # None => requests[r].client = requests[r].sender

(* A client is refused exactly as long as the rule says: neither trimming  *)
(* nor making room for another client cuts a block short, and no failure   *)
(* counts for longer than its window (LoginRateLimiter).                   *)
BlockIsExact == \A c \in Clients : Blocks(records[c]) <=> Deserved(c)

(* No more than MaxStarts checks begin within any StartWindow, over all    *)
(* clients, cancellations and failures to start (PasswordVerifier._starts). *)
StartsAreBounded == Len(begun) <= MaxStarts

(* The slot is taken exactly while a check runs, and none ever queues:    *)
(* not when its waiter is cancelled, not when it raises or cannot be       *)
(* started, and it is never lost for good (PasswordVerifier._busy).        *)
SlotIsHeldByCheck == Len(executor) = IF busy THEN 1 ELSE 0

(* The inductive invariant behind it. *)
IInv == executor \in Seq(Requests \cup {None}) /\ busy \in BOOLEAN /\ SlotIsHeldByCheck

(* The one behind CountedBySender: a check belongs to a login that waits. *)
SenderInv ==
  /\ requests \in [Requests -> Login \cup {None}]
  /\ CountedBySender
  /\ \A i \in DOMAIN executor :
       executor[i] # None => requests[executor[i]] # None /\ requests[executor[i]].phase = "verify"

(* Of a list of times the latest are kept; those no longer kept are old. *)
Keeps(kept, all, limit) ==
  LET gone == Len(all) - Len(kept) IN
    /\ gone >= 0
    /\ \A i \in DOMAIN kept : kept[i] = all[gone + i]
    /\ \A i \in 1 .. gone : all[i] <= limit

InOrder(times) == \A i, j \in DOMAIN times : i <= j => times[i] <= times[j]

(* The one behind StartsAreBounded: the verifier remembers every start that *)
(* still counts.                                                            *)
StartsInv ==
  /\ InOrder(starts) /\ \A i \in DOMAIN starts : starts[i] <= now
  /\ \A i \in DOMAIN begun : begun[i] > now - StartWindow
  /\ Keeps(begun, starts, now - StartWindow)
  /\ StartsAreBounded

(* The one behind BlockIsExact: what a record says of a client is what the *)
(* failures of the client say, whether the record is there or not, trimmed *)
(* or not.                                                                 *)
FailuresOf(record) == IF record = None THEN <<>> ELSE record.failures
EndOf(record) == IF record = None THEN 0 ELSE record.blocked_until

Faithful(record, failures, time) ==
  /\ Keeps(FailuresOf(record), failures, time - FailureWindow)
  /\ \A i \in DOMAIN failures :
       Burst(failures, i) => \/ failures[i] + BlockTime <= time
                             \/ failures[i] + BlockTime <= EndOf(record)
  /\ EndOf(record) > time =>
       \E i \in DOMAIN failures :
         Burst(failures, i) /\ EndOf(record) = failures[i] + BlockTime

(* What holds of one client: its record, and all the failures counted       *)
(* against it.                                                              *)
Known(record, failures, time) ==
  /\ record \in Record \cup {None} /\ failures \in Seq(Time)
  /\ InOrder(failures) /\ \A i \in DOMAIN failures : failures[i] <= time
  /\ Faithful(record, failures, time)

BlockInv ==
  /\ records \in [Clients -> Record \cup {None}] /\ counted \in [Clients -> Seq(Time)]
  /\ \A c \in Clients : Known(records[c], counted[c], now)
=============================================================================
