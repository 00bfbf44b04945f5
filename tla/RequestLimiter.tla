--------------------------- MODULE RequestLimiter ---------------------------
(***************************************************************************)
(* The two limiters in front of every handler: RateLimiter of              *)
(* internal/query/validator.go and rateLimitMiddleware of                  *)
(* internal/server/middleware.go, as New of internal/server/server.go      *)
(* puts them together.                                                     *)
(*                                                                         *)
(* The limiters are the outermost middleware: no user has been             *)
(* authenticated when they are asked, so both use the RemoteAddr of the    *)
(* connection (host and port) as their key.                                *)
(***************************************************************************)
EXTENDS Integers, Sequences, FiniteSets

CONSTANTS
  Requests,     \* goroutines that serve requests
  Addrs,        \* values of RemoteAddr
  Hosts, HostOf,\* the IP address in a RemoteAddr
  Users,        \* who the request is for (authenticated later)
  UserLimit,    \* limit of userLimiter
  IPLimit,      \* limit of ipLimiter
  Window,       \* window of both, in ticks of the clock
  MaxTime       \* bound: the clock stops there

ASSUME LimiterAssumption ==
  /\ HostOf \in [Addrs -> Hosts]
  /\ UserLimit \in Nat \ {0} /\ IPLimit \in Nat \ {0}
  /\ Window \in Nat \ {0}
  /\ MaxTime \in Nat

VARIABLES
  now,        \* time.Now()
  ipTimes,    \* attempts of ipLimiter
  userTimes,  \* attempts of userLimiter
  pc,         \* which limiter a request is about to ask
  request,    \* the address and the user of the request
  served,     \* history: requests that reached the handlers
  last        \* history: the last answer 429, if the last step gave one

limiterVars == <<now, ipTimes, userTimes, pc, request, served, last>>

Request == [addr : Addrs, user : Users]
Served == [at : Nat, addr : Addrs, user : Users]
NoRefusal == [by |-> "none"]
Refusal == [by : {"ip", "user"}, addr : Addrs]

\* The list of an address is the set of its attempts, each a time and how many of
\* that time came before it: Allow never looks at their order.
Attempt == [at : Nat, n : Nat]

LimiterTypeOK ==
  /\ now \in Nat
  /\ ipTimes \in [Addrs -> SUBSET Attempt]
  /\ userTimes \in [Addrs -> SUBSET Attempt]
  /\ pc \in [Requests -> {"ip", "user"}]
  /\ request \in [Requests -> Request]
  /\ served \in Seq(Served)
  /\ last \in Refusal \cup {NoRefusal}

LimiterInit ==
  /\ now = 0
  /\ ipTimes = [a \in Addrs |-> {}]
  /\ userTimes = [a \in Addrs |-> {}]
  /\ pc = [r \in Requests |-> "ip"]
  /\ \E q \in Request : request = [r \in Requests |-> q]
  /\ served = <<>>
  /\ last = NoRefusal

-----------------------------------------------------------------------------
(* RateLimiter.  Allow runs under the limiter's mutex.                     *)

\* Mutant: an entry as old as the window still counts.
Fresh_AtEdge(t) == t >= now - Window

\* t.After(windowStart)
Fresh(t) == t > now - Window

\* The attempts that Allow keeps, what it answers, and the list it leaves behind.
Valid(times) == {e \in times : Fresh(e.at)}

Allows(times, limit) == Cardinality(Valid(times)) < limit

NewAttempt(times) == [at |-> now, n |-> Cardinality({e \in times : e.at = now})]

After(times, limit) ==
  Valid(times) \cup {e \in {NewAttempt(times)} : Allows(times, limit)}

-----------------------------------------------------------------------------
(* rateLimitMiddleware.                                                    *)

AskIP(r, q) ==
  LET times == ipTimes[q.addr]
  IN  /\ pc[r] = "ip"
      /\ ipTimes' = [ipTimes EXCEPT ![q.addr] = After(times, IPLimit)]
      /\ request' = [request EXCEPT ![r] = q]
      /\ \/ /\ Allows(times, IPLimit)
            /\ pc' = [pc EXCEPT ![r] = "user"]
            /\ last' = NoRefusal
         \/ /\ ~Allows(times, IPLimit)
            /\ last' = [by |-> "ip", addr |-> q.addr]
            /\ UNCHANGED pc
      /\ UNCHANGED <<now, userTimes, served>>

\* Mutant: the list that was read before is written back.
AskUser_NotCounted(r) ==
  LET q == request[r]
      times == userTimes[q.addr]
  IN  /\ pc[r] = "user"
      /\ Allows(times, UserLimit)
      /\ served' = Append(served, [at |-> now, addr |-> q.addr, user |-> q.user])
      /\ last' = NoRefusal
      /\ pc' = [pc EXCEPT ![r] = "ip"]
      /\ UNCHANGED <<now, ipTimes, userTimes, request>>

AskUser(r) ==
  LET q == request[r]
      times == userTimes[q.addr]
  IN  /\ pc[r] = "user"
      /\ userTimes' = [userTimes EXCEPT ![q.addr] = After(times, UserLimit)]
      /\ pc' = [pc EXCEPT ![r] = "ip"]
      /\ \/ /\ Allows(times, UserLimit)
            /\ served' = Append(served, [at |-> now, addr |-> q.addr, user |-> q.user])
            /\ last' = NoRefusal
         \/ /\ ~Allows(times, UserLimit)
            /\ last' = [by |-> "user", addr |-> q.addr]
            /\ UNCHANGED served
      /\ UNCHANGED <<now, ipTimes, request>>

LimiterTick ==
  /\ now < MaxTime
  /\ now' = now + 1
  /\ last' = NoRefusal
  /\ UNCHANGED <<ipTimes, userTimes, pc, request, served>>

LimiterNext ==
  \/ \E r \in Requests : \/ \E q \in Request : AskIP(r, q)
                         \/ AskUser(r)
  \/ LimiterTick

LimiterSpec == LimiterInit /\ [][LimiterNext]_limiterVars

-----------------------------------------------------------------------------
(* Properties.                                                             *)

\* Requests that reached the handlers in the window that ends at t.
ServedIn(t, a) == {i \in DOMAIN served : served[i].addr = a /\ served[i].at \in (t - Window + 1)..t}

\* No window, wherever it starts, sees more than UserLimit requests of one
\* connection reach the handlers, in whatever order the requests ran.
WindowBound == \A a \in Addrs, t \in 0..now : Cardinality(ServedIn(t, a)) <= UserLimit

\* userLimiter answers 429 to a connection that was served UserLimit times in
\* the last window, and to no other: a client that goes on asking is not kept
\* out by the requests that were refused.
UserRefusalEarned ==
  last.by = "user" => Cardinality(ServedIn(now, last.addr)) = UserLimit

-----------------------------------------------------------------------------
(* Claims of the documentation that the code does not meet (see the README; *)
(* no run checks them).                                                    *)

\* What docs/security.md says: UserLimit requests for an authenticated user.
PerUser ==
  \A u \in Users :
    Cardinality({i \in DOMAIN served : served[i].user = u /\ served[i].at > now - Window}) <= UserLimit

\* What docs/security.md says: IPLimit requests for an IP address.
PerIPAddress ==
  \A h \in Hosts :
    Cardinality({i \in DOMAIN served : HostOf[served[i].addr] = h /\ served[i].at > now - Window}) <= IPLimit
=============================================================================
