---------------------------- MODULE AdapterProofs ----------------------------
(***************************************************************************)
(* Theorems about the parts around the agent.  The HTTP boundary: who      *)
(* reaches the agent, how streams end, and what the token bucket grants.   *)
(* The MCP client: its connection, its manager and its pending calls.  The *)
(* process: what it builds, checks, serves and closes.  Policy evaluation, *)
(* the reassembly of streamed tool calls and the knowledge context.  The   *)
(* Google ADK adapter: its side effects and its transcript.                *)
(***************************************************************************)
EXTENDS HttpApi, McpClient, Process, Knowledge, ModelStream, GoogleAdk, SelectionProofs

Places == {"idle", "verify", "handle", "agent", "stream", "done", "ended"}
Request == [pc : Places, shape : Shapes \cup {NoShape}, id : Limited, status : Statuses,
            events : Seq({"final", "error"}), reached : BOOLEAN]
Bucket == [tokens : 0..Burst, at : Nat]

\* What holds of a request in the middleware and in the handlers: where a caller
\* identity is demanded its route is one of the authenticated paths, and past
\* authenticate_request() it carries a verified caller.
RequestSound(x) ==
    /\ x.pc \in {"done", "ended"} <=> x.status # 0
    /\ x.reached => x.pc \in {"agent", "stream"}
    /\ x.pc # "idle" => app = "up"
    /\ x.pc \in {"verify", "handle"} => (PathOf(x.shape) # "invoke" => hcfg.a2a)
    /\ hcfg.required /\ x.pc \in {"handle", "agent", "stream"} => x.id # NoOne
    /\ x.pc = "ended" => x.events # <<>>

HttpRequests == hreq \in [HttpReqs -> Request] /\ \A r \in HttpReqs : RequestSound(hreq[r])

Deployed ==
    /\ hcfg \in HttpConfigs /\ app \in {"none", "up", "refused"}
    /\ app = "up" /\ hcfg.required => hcfg.auth

\* What the grants g of a key leave of its burst: from any of them on, they and
\* the tokens left at a tick are no more than the burst and what was added.
Spent(g, tokens, now) == \A i \in 1..Len(g) : Len(g) - i + 1 + tokens + g[i] <= Burst + now
Bounded(g) == \A i, j \in 1..Len(g) : i <= j => j - i + 1 + g[i] <= Burst + g[j]

BucketsFit ==
    /\ tick \in 0..MaxTick /\ grants \in [Limited -> Seq(Nat)] /\ evicted \subseteq Limited
    /\ DOMAIN buckets \subseteq Limited
    /\ \A k \in DOMAIN buckets : buckets[k] \in Bucket /\ buckets[k].at <= tick
    /\ IsFiniteSet(DOMAIN buckets) /\ Cardinality(DOMAIN buckets) <= MaxBuckets

\* A key without a bucket has, as far as its grants go, a full one.
Paced ==
    \A k \in Limited \ evicted :
        /\ Bounded(grants[k])
        /\ k \in DOMAIN buckets => Spent(grants[k], buckets[k].tokens, buckets[k].at)
        /\ k \notin DOMAIN buckets => Spent(grants[k], Burst, tick)

BoundaryInv == Deployed /\ HttpRequests /\ BucketsFit /\ Paced

\* The numbers of the limiter, from the assumption on the constants.
LEMMA LimiterNumbers ==
    ASSUME HttpAssumption
    PROVE  /\ Burst \in Nat /\ Burst > 0 /\ MaxBuckets \in Nat /\ MaxBuckets > 0
           /\ IdleTicks \in Nat /\ IdleTicks >= Burst /\ MaxTick \in Nat
           /\ NoOne \in Limited /\ Callers \subseteq Limited
  BY DEF HttpAssumption, Limited

\* The deployments' settings are switches.
LEMMA Switches ==
    ASSUME HttpAssumption, NEW c \in HttpConfigs
    PROVE  c.auth \in BOOLEAN /\ c.required \in BOOLEAN /\ c.a2a \in BOOLEAN
           /\ c.limited \in BOOLEAN /\ c.streaming \in BOOLEAN
  BY DEF HttpAssumption

\* The shapes of the requests.
LEMMA ShapesFit ==
    ASSUME HttpAssumption, NEW s \in Shapes \cup {NoShape}
    PROVE  s.route \in {"invoke", "rpc", "rpc_old"} /\ s.caller \in Limited /\ s.stream \in BOOLEAN
<1>1. CASE s \in Shapes
  BY <1>1 DEF HttpAssumption, Limited
<1>2. CASE s = NoShape
  BY <1>2 DEF Limited, NoShape
<1>. QED
  BY <1>1, <1>2

-----------------------------------------------------------------------------
(* The requests. *)

\* A request that moves soundly leaves all of them sound.
LEMMA RequestMoves ==
    ASSUME Deployed, HttpRequests, NEW r \in HttpReqs, NEW x \in Request, RequestSound(x),
           hreq' = [hreq EXCEPT ![r] = x], hcfg' = hcfg, app' = app
    PROVE  HttpRequests' /\ Deployed'
<1>1. hreq' \in [HttpReqs -> Request]
  BY DEF HttpRequests
<1>2. ASSUME NEW q \in HttpReqs PROVE RequestSound(hreq[q])' 
  <2>1. hreq'[q] = x \/ hreq'[q] = hreq[q]
    BY DEF HttpRequests
  <2>. QED
    BY <2>1 DEF RequestSound, HttpRequests
<1>. QED
  BY <1>1, <1>2 DEF HttpRequests, Deployed

\* Appending to a sequence of events leaves one that is not empty.
LEMMA Appended ==
    ASSUME NEW S, NEW s \in Seq(S), NEW e \in S
    PROVE  Append(s, e) \in Seq(S) /\ Append(s, e) # <<>> /\ Len(Append(s, e)) = Len(s) + 1
<1>1. Append(s, e) \in Seq(S) /\ Len(Append(s, e)) = Len(s) + 1 /\ Len(s) \in Nat
  OBVIOUS
<1>2. Len(<<>>) = 0
  OBVIOUS
<1>. QED
  BY <1>1, <1>2

\* An answer is a sound request.
LEMMA AnswerFits ==
    ASSUME HttpAssumption, app = "up", NEW p \in {"done", "ended"}, NEW s \in Statuses \ {0},
           NEW es \in Seq({"final", "error"}), p = "ended" => es # <<>>
    PROVE  Answer(p, s, es) \in Request /\ RequestSound(Answer(p, s, es))
  BY LimiterNumbers DEF Answer, Request, RequestSound, Places, Statuses

\* A response keeps the requests sound.
LEMMA Responded ==
    ASSUME HttpAssumption, Deployed, HttpRequests, app = "up", NEW r \in HttpReqs, NEW s \in Statuses \ {0}, Respond(r, s),
           hcfg' = hcfg, app' = app
    PROVE  HttpRequests' /\ Deployed'
<1>1. <<>> \in Seq({"final", "error"})
  OBVIOUS
<1>2. Answer("done", s, <<>>) \in Request /\ RequestSound(Answer("done", s, <<>>))
  BY <1>1, AnswerFits
<1>. QED
  BY <1>2, RequestMoves DEF Respond

\* The steps of the middleware and of the handlers that leave the limiter alone.
LEMMA RequestSteps ==
    ASSUME HttpAssumption, Deployed, HttpRequests, NEW r \in HttpReqs,
           \/ \E s \in Shapes : Arrive(r, s)
           \/ AuthenticateRequest(r) \/ WrongVersion(r) \/ BodyTooLarge(r) \/ LimiterFails(r) \/ Rpc(r)
           \/ StreamOpens(r) \/ StreamFinal(r)
           \/ \E o \in Outcomes : AgentEnds(r, o) \/ StreamEnds(r, o)
    PROVE  HttpRequests' /\ Deployed'
<1>0. /\ hreq \in [HttpReqs -> Request] /\ RequestSound(hreq[r]) /\ hcfg \in HttpConfigs
      /\ hcfg' = hcfg /\ app' = app
  BY DEF Deployed, HttpRequests, Arrive, AuthenticateRequest, WrongVersion, BodyTooLarge, LimiterFails, Rpc,
         StreamOpens, StreamFinal, AgentEnds, StreamEnds
<1>1. PICK x \in Request : x = hreq[r] /\ RequestSound(x)
  BY <1>0
<1>2. app = "up" /\ (hcfg.required => hcfg.auth)
  BY <1>0, <1>1 DEF Deployed, RequestSound, Arrive, AuthenticateRequest, WrongVersion, BodyTooLarge, LimiterFails, Rpc,
         StreamOpens, StreamFinal, AgentEnds, StreamEnds
<1>3. ASSUME NEW s \in Statuses \ {0}, Respond(r, s) PROVE HttpRequests' /\ Deployed'
  BY <1>0, <1>2, <1>3, Responded
<1>4. ASSUME NEW y \in Request, RequestSound(y), hreq' = [hreq EXCEPT ![r] = y] PROVE HttpRequests' /\ Deployed'
  BY <1>0, <1>4, RequestMoves
<1>. DEFINE Here(p) == [x EXCEPT !.pc = p]
<1>5. CASE \E s \in Shapes : Arrive(r, s)
  <2>1. PICK s \in Shapes : Arrive(r, s)
    BY <1>5
  <2>2. CASE Respond(r, 400) \/ Respond(r, 413)
    BY <1>3, <2>2 DEF Statuses
  <2>3. CASE hreq' = [hreq EXCEPT ![r].pc = "verify", ![r].shape = s]
    <3>. DEFINE y == [x EXCEPT !.pc = "verify", !.shape = s]
    <3>1. hreq' = [hreq EXCEPT ![r] = y]
      BY <1>0, <1>1, <2>3 DEF Request
    <3>2. y \in Request
      BY DEF Request, Places
    <3>3. x.pc = "idle" /\ (s.route # "invoke" => hcfg.a2a)
      BY <1>1, <2>1 DEF Arrive
    <3>4. RequestSound(y)
      BY <1>1, <1>2, <3>3 DEF Request, RequestSound, PathOf
    <3>. QED
      BY <1>4, <3>1, <3>2, <3>4
  <2>. QED
    BY <2>1, <2>2, <2>3 DEF Arrive
<1>6. CASE AuthenticateRequest(r)
  <2>. DEFINE c == Authenticate(x.shape)
  <2>1. c \in Limited /\ x.shape \in Shapes \cup {NoShape}
    BY ShapesFit DEF Authenticate, Request
  <2>2. x.pc = "verify"
    BY <1>1, <1>6 DEF AuthenticateRequest
  <2>3. PathOf(x.shape) \in {"invoke", "rpc"}
    BY DEF PathOf
  <2>4. CASE ~hcfg.auth \/ PathOf(x.shape) \notin AuthenticatedPaths
    <3>1. ~hcfg.required
      BY <1>0, <1>1, <1>2, <2>2, <2>3, <2>4, Switches DEF AuthenticatedPaths, RequestSound
    <3>. DEFINE y == [x EXCEPT !.pc = "handle"]
    <3>2. hreq' = [hreq EXCEPT ![r] = y]
      BY <1>1, <1>6, <2>4 DEF AuthenticateRequest
    <3>3. y \in Request
      BY DEF Request, Places
    <3>4. RequestSound(y)
      BY <1>1, <1>2, <2>2, <3>1 DEF Request, RequestSound
    <3>. QED
      BY <1>4, <3>2, <3>3, <3>4
  <2>5. CASE ~(~hcfg.auth \/ PathOf(x.shape) \notin AuthenticatedPaths)
    <3>1. CASE c = NoOne
      BY <1>1, <1>3, <1>6, <2>5, <3>1 DEF AuthenticateRequest, Statuses
    <3>2. CASE c # NoOne
      <4>. DEFINE y == [x EXCEPT !.pc = "handle", !.id = c]
      <4>1. hreq' = [hreq EXCEPT ![r] = y]
        BY <1>0, <1>1, <1>6, <2>5, <3>2 DEF AuthenticateRequest, Request
      <4>2. y \in Request
        BY <2>1 DEF Request, Places
      <4>3. RequestSound(y)
        BY <1>1, <1>2, <2>2, <3>2 DEF Request, RequestSound
      <4>. QED
        BY <1>4, <4>1, <4>2, <4>3
    <3>. QED
      BY <3>1, <3>2
  <2>. QED
    BY <2>4, <2>5
<1>7. CASE WrongVersion(r) \/ BodyTooLarge(r) \/ LimiterFails(r)
  BY <1>3, <1>7 DEF WrongVersion, BodyTooLarge, LimiterFails, Statuses
<1>8. CASE Rpc(r)
  <2>1. CASE Respond(r, 200)
    BY <1>3, <2>1 DEF Statuses
  <2>2. CASE hreq' = [hreq EXCEPT ![r].pc = "agent", ![r].reached = TRUE]
    <3>. DEFINE y == [x EXCEPT !.pc = "agent", !.reached = TRUE]
    <3>1. hreq' = [hreq EXCEPT ![r] = y]
      BY <1>0, <1>1, <2>2 DEF Request
    <3>2. y \in Request
      BY DEF Request, Places
    <3>3. x.pc = "handle"
      BY <1>1, <1>8 DEF Rpc
    <3>4. RequestSound(y)
      BY <1>1, <1>2, <3>3 DEF Request, RequestSound
    <3>. QED
      BY <1>4, <3>1, <3>2, <3>4
  <2>. QED
    BY <1>8, <2>1, <2>2 DEF Rpc
<1>9. CASE \E o \in Outcomes : AgentEnds(r, o)
  <2>1. PICK o \in Outcomes : AgentEnds(r, o)
    BY <1>9
  <2>2. StatusOf(o) \in Statuses \ {0} /\ 200 \in Statuses \ {0}
    BY DEF StatusOf, Outcomes, Statuses
  <2>. QED
    BY <1>3, <2>1, <2>2 DEF AgentEnds
<1>10. CASE StreamOpens(r)
  <2>0. x.pc = "stream"
    BY <1>1, <1>10 DEF StreamOpens
  <2>. DEFINE e == Answer("ended", 200, <<"error">>)
              y == [x EXCEPT !.reached = TRUE]
  <2>1. hreq' = [hreq EXCEPT ![r] = e] \/ hreq' = [hreq EXCEPT ![r] = y]
    BY <1>0, <1>1, <1>10 DEF StreamOpens
  <2>2. e \in Request /\ RequestSound(e)
    <3>1. <<"error">> \in Seq({"final", "error"}) /\ <<"error">> # <<>>
      OBVIOUS
    <3>2. 200 \in Statuses \ {0}
      BY DEF Statuses
    <3>. QED
      BY <1>2, <3>1, <3>2, AnswerFits
  <2>3. y \in Request /\ RequestSound(y)
    BY <1>1, <2>0 DEF Request, RequestSound
  <2>. QED
    BY <1>4, <2>1, <2>2, <2>3
<1>11. CASE StreamFinal(r)
  <2>. DEFINE y == [x EXCEPT !.events = <<"final">>]
  <2>1. hreq' = [hreq EXCEPT ![r] = y]
    BY <1>1, <1>11 DEF StreamFinal
  <2>2. <<"final">> \in Seq({"final", "error"})
    OBVIOUS
  <2>3. y \in Request
    BY <2>2 DEF Request
  <2>4. x.pc = "stream"
    BY <1>1, <1>11 DEF StreamFinal
  <2>5. RequestSound(y)
    BY <1>1, <2>4 DEF Request, RequestSound
  <2>. QED
    BY <1>4, <2>1, <2>3, <2>5
<1>12. CASE \E o \in Outcomes : StreamEnds(r, o)
  <2>1. PICK o \in Outcomes : StreamEnds(r, o)
    BY <1>12
  <2>2. x.events \in Seq({"final", "error"})
    BY DEF Request
  <2>. DEFINE es == IF o = "answer" THEN x.events ELSE Append(x.events, "error")
  <2>3. es \in Seq({"final", "error"}) /\ es # <<>>
    <3>1. CASE o = "answer"
      BY <1>1, <2>1, <2>2, <3>1 DEF StreamEnds
    <3>2. CASE o # "answer"
      BY <2>2, <3>2, Appended
    <3>. QED
      BY <3>1, <3>2
  <2>4. hreq' = [hreq EXCEPT ![r] = Answer("ended", 200, es)]
    BY <1>0, <1>1, <2>1 DEF StreamEnds
  <2>. HIDE DEF es
  <2>5. Answer("ended", 200, es) \in Request /\ RequestSound(Answer("ended", 200, es))
    BY <1>2, <2>3, AnswerFits DEF Statuses
  <2>. QED
    BY <1>4, <2>4, <2>5
<1>. QED
  BY <1>5, <1>6, <1>7, <1>8, <1>9, <1>10, <1>11, <1>12

\* The handler passes a request on to the agent, or to the stream that will reach it.
LEMMA EnterStep ==
    ASSUME HttpAssumption, Deployed, HttpRequests, NEW r \in HttpReqs, hreq[r].pc = "handle", Enter(r),
           hcfg' = hcfg, app' = app
    PROVE  HttpRequests' /\ Deployed'
<1>0. hreq \in [HttpReqs -> Request] /\ RequestSound(hreq[r])
  BY DEF HttpRequests
<1>1. PICK x \in Request : x = hreq[r] /\ RequestSound(x) /\ x.pc = "handle"
  BY <1>0
<1>2. app = "up"
  BY <1>1 DEF RequestSound
<1>3. ASSUME NEW y \in Request, RequestSound(y), hreq' = [hreq EXCEPT ![r] = y] PROVE HttpRequests' /\ Deployed'
  BY <1>3, RequestMoves
<1>4. CASE hreq' = [hreq EXCEPT ![r].pc = "stream"]
  <2>. DEFINE y == [x EXCEPT !.pc = "stream"]
  <2>1. hreq' = [hreq EXCEPT ![r] = y]
    BY <1>1, <1>4
  <2>2. y \in Request
    BY DEF Request, Places
  <2>3. RequestSound(y)
    BY <1>1, <1>2 DEF Request, RequestSound
  <2>. QED
    BY <1>3, <2>1, <2>2, <2>3
<1>5. CASE Respond(r, 429)
  <2>1. 429 \in Statuses \ {0}
    BY DEF Statuses
  <2>. QED
    BY <1>2, <1>5, <2>1, Responded
<1>6. CASE hreq' = [hreq EXCEPT ![r].pc = "agent", ![r].reached = TRUE]
  <2>. DEFINE y == [x EXCEPT !.pc = "agent", !.reached = TRUE]
  <2>1. hreq' = [hreq EXCEPT ![r] = y]
    BY <1>0, <1>1, <1>6 DEF Request
  <2>2. y \in Request
    BY DEF Request, Places
  <2>3. RequestSound(y)
    BY <1>1, <1>2 DEF Request, RequestSound
  <2>. QED
    BY <1>3, <2>1, <2>2, <2>3
<1>. QED
  BY <1>4, <1>5, <1>6 DEF Enter

-----------------------------------------------------------------------------
(* The token bucket. *)

\* A bucket that grew with the clock, up to the burst, is still covered.
LEMMA SpentLater ==
    ASSUME NEW g \in Seq(Nat), Burst \in Nat, NEW t \in Nat, NEW a \in Nat, NEW u \in Nat, NEW b \in Nat,
           Spent(g, t, a), u + a <= t + b
    PROVE  Spent(g, u, b)
<1>. SUFFICES ASSUME NEW i \in 1..Len(g) PROVE Len(g) - i + 1 + u + g[i] <= Burst + b
  BY DEF Spent
<1>1. Len(g) \in Nat /\ g[i] \in Nat /\ i \in Nat
  OBVIOUS
<1>2. Len(g) - i + 1 + t + g[i] <= Burst + a
  BY DEF Spent
<1>. QED
  BY <1>1, <1>2

\* A grant takes one token: it is one more request, and one token less.
LEMMA SpentGrant ==
    ASSUME NEW g \in Seq(Nat), Burst \in Nat, NEW t \in 0..Burst, t > 0, NEW now \in Nat,
           Spent(g, t, now), Bounded(g)
    PROVE  Spent(Append(g, now), t - 1, now) /\ Bounded(Append(g, now))
<1>. DEFINE h == Append(g, now)
<1>1. /\ h \in Seq(Nat) /\ Len(h) = Len(g) + 1 /\ Len(g) \in Nat /\ h[Len(g) + 1] = now
      /\ \A i \in 1..Len(g) : h[i] = g[i] /\ g[i] \in Nat
  OBVIOUS
<1>. HIDE DEF h
<1>2. ASSUME NEW i \in 1..Len(h) PROVE Len(h) - i + 1 + (t - 1) + h[i] <= Burst + now
  <2>1. CASE i = Len(g) + 1
    BY <1>1, <2>1
  <2>2. CASE i # Len(g) + 1
    <3>1. i \in 1..Len(g) /\ h[i] = g[i] /\ g[i] \in Nat
      BY <1>1, <2>2
    <3>2. Len(g) - i + 1 + t + g[i] <= Burst + now
      BY <3>1 DEF Spent
    <3>. QED
      BY <1>1, <3>1, <3>2
  <2>. QED
    BY <2>1, <2>2
<1>3. ASSUME NEW i \in 1..Len(h), NEW j \in 1..Len(h), i <= j PROVE j - i + 1 + h[i] <= Burst + h[j]
  <2>1. CASE j = Len(g) + 1
    <3>1. h[i] \in Nat /\ h[j] = now /\ Len(h) = j
      BY <1>1, <2>1
    <3>. QED
      BY <1>1, <1>2, <3>1
  <2>2. CASE j # Len(g) + 1
    <3>1. i \in 1..Len(g) /\ j \in 1..Len(g)
      <4>1. Len(h) = Len(g) + 1 /\ Len(g) \in Nat
        BY <1>1
      <4>. QED
        BY <1>3, <2>2, <4>1
    <3>2. h[i] = g[i] /\ h[j] = g[j]
      BY <1>1, <3>1
    <3>. QED
      BY <1>3, <3>1, <3>2 DEF Bounded
  <2>. QED
    BY <2>1, <2>2
<1>4. Spent(h, t - 1, now)
  BY <1>2 DEF Spent
<1>5. Bounded(h)
  BY <1>3 DEF Bounded
<1>. QED
  BY <1>4, <1>5 DEF h

\* Among the buckets that are left one was used first.
LEMMA OldestIsLeft ==
    ASSUME BucketsFit, Left # {}
    PROVE  Oldest \in Left
<1>. DEFINE R == OpToRel(<, Nat)
            T == {buckets[k].at : k \in Left}
<1>1. IsWellFoundedOn(R, Nat)
  BY NatLessThanWellFounded
<1>2. \A a, b \in Nat : <<a, b>> \in R <=> a < b
  BY DEF OpToRel
<1>3. \A k \in Left : buckets[k].at \in Nat
  BY DEF BucketsFit, Left, Bucket
<1>4. T \subseteq Nat /\ T # {}
  BY <1>3
<1>. HIDE DEF R, T
<1>5. PICK a \in T : \A b \in T : ~(<<b, a>> \in R)
  BY <1>1, <1>4, WFMin
<1>6. PICK k \in Left : a = buckets[k].at
  BY DEF T
<1>7. ASSUME NEW j \in Left PROVE buckets[k].at <= buckets[j].at
  <2>1. buckets[j].at \in T
    BY DEF T
  <2>2. ~(buckets[j].at < buckets[k].at)
    BY <1>2, <1>3, <1>5, <1>6, <2>1
  <2>. QED
    BY <1>3, <2>2
<1>. QED
  BY <1>6, <1>7 DEF Oldest

\* The bucket of a key, brought up to date, is covered by its grants.
LEMMA RefillFits ==
    ASSUME HttpAssumption, BucketsFit, Paced, NEW k \in Limited
    PROVE  /\ Refilled(k) \in Bucket /\ Refilled(k).at = tick
           /\ k \notin evicted => Spent(grants[k], Refilled(k).tokens, tick)
<1>0. /\ Burst \in Nat /\ tick \in Nat /\ IdleTicks \in Nat /\ IdleTicks >= Burst
      /\ grants[k] \in Seq(Nat)
  BY LimiterNumbers DEF BucketsFit
<1>1. CASE k \notin Left
  <2>1. Refilled(k) = [tokens |-> Burst, at |-> tick]
    BY <1>1 DEF Refilled, Fresh
  <2>2. k \notin evicted => Spent(grants[k], Burst, tick)
    <3>. SUFFICES ASSUME k \notin evicted, k \in DOMAIN buckets PROVE Spent(grants[k], Burst, tick)
      BY DEF Paced
    <3>1. PICK b \in Bucket : b = buckets[k] /\ b.at + IdleTicks < tick /\ Spent(grants[k], b.tokens, b.at)
      BY <1>1 DEF Left, Idle, BucketsFit, Paced
    <3>2. b.tokens \in Nat /\ b.at \in Nat /\ Burst + b.at <= b.tokens + tick
      BY <1>0, <3>1 DEF Bucket
    <3>. QED
      BY <1>0, <3>1, <3>2, SpentLater
  <2>. QED
    BY <1>0, <2>1, <2>2 DEF Bucket
<1>2. CASE k \in Left
  <2>1. PICK b \in Bucket : b = buckets[k] /\ b.at <= tick
    BY <1>2 DEF Left, BucketsFit
  <2>2. b.tokens \in 0..Burst /\ b.at \in Nat
    BY <2>1 DEF Bucket
  <2>. DEFINE more == b.tokens + (tick - b.at)
              m == Min({Burst, more})
  <2>3. more \in Nat
    <3>1. \A t, a, n \in Nat : a <= n => t + (n - a) \in Nat
      OBVIOUS
    <3>2. b.tokens \in Nat
      BY <1>0, <2>2
    <3>. QED
      BY <1>0, <2>1, <2>2, <3>1, <3>2
  <2>. HIDE DEF more
  <2>4. m \in {Burst, more} /\ m <= Burst /\ m <= more
    <3>1. \E x \in {Burst, more} : \A y \in {Burst, more} : x <= y
      BY <1>0, <2>3
    <3>. QED
      BY <3>1 DEF Min
  <2>. HIDE DEF m
  <2>5. m \in 0..Burst /\ m + b.at <= b.tokens + tick
    <3>1. \A t, a, n, u \in Nat : u <= t + (n - a) => u + a <= t + n
      OBVIOUS
    <3>2. b.tokens \in Nat /\ m \in Nat
      BY <1>0, <2>2, <2>3, <2>4
    <3>3. m + b.at <= b.tokens + tick
      BY <1>0, <2>2, <2>4, <3>1, <3>2 DEF more
    <3>. QED
      BY <1>0, <2>4, <3>2, <3>3
  <2>6. Refilled(k) = [tokens |-> m, at |-> tick]
    BY <1>2, <2>1 DEF Refilled, m, more
  <2>7. k \notin evicted => Spent(grants[k], m, tick)
    <3>. SUFFICES ASSUME k \notin evicted PROVE Spent(grants[k], m, tick)
      OBVIOUS
    <3>1. Spent(grants[k], b.tokens, b.at)
      BY <1>2, <2>1 DEF Paced, Left
    <3>2. b.tokens \in Nat /\ m \in Nat
      BY <1>0, <2>2, <2>5
    <3>. QED
      BY <1>0, <2>2, <2>5, <3>1, <3>2, SpentLater
  <2>. QED
    BY <1>0, <2>5, <2>6, <2>7 DEF Bucket
<1>. QED
  BY <1>1, <1>2

\* Room is made for a new key by the bucket that was used first.
LEMMA RoomFits ==
    ASSUME HttpAssumption, BucketsFit, NEW k \in Limited
    PROVE  /\ Room(k) \subseteq Left /\ Left \subseteq DOMAIN buckets
           /\ IsFiniteSet((Left \ Room(k)) \cup {k})
           /\ Cardinality((Left \ Room(k)) \cup {k}) <= MaxBuckets
<1>0. MaxBuckets \in Nat /\ MaxBuckets > 0
  BY LimiterNumbers
<1>1. Left \subseteq DOMAIN buckets
  BY DEF Left
<1>2. IsFiniteSet(Left) /\ Cardinality(Left) \in Nat /\ Cardinality(Left) <= MaxBuckets
  <2>1. IsFiniteSet(DOMAIN buckets) /\ Cardinality(DOMAIN buckets) <= MaxBuckets
    BY DEF BucketsFit
  <2>2. IsFiniteSet(Left) /\ Cardinality(Left) <= Cardinality(DOMAIN buckets)
    BY <1>1, <2>1, FS_Subset
  <2>3. Cardinality(Left) \in Nat /\ Cardinality(DOMAIN buckets) \in Nat
    BY <2>1, <2>2, FS_CardinalityType
  <2>. QED
    BY <1>0, <2>1, <2>2, <2>3
<1>. DEFINE S == (Left \ Room(k)) \cup {k}
<1>3. CASE k \in Left
  <2>1. Room(k) = {} /\ S = Left
    BY <1>3 DEF Room
  <2>. QED
    BY <1>1, <1>2, <2>1
<1>4. CASE k \notin Left /\ Cardinality(Left) < MaxBuckets
  <2>1. Room(k) = {} /\ S = Left \cup {k}
    BY <1>4 DEF Room
  <2>2. IsFiniteSet(Left \cup {k}) /\ Cardinality(Left \cup {k}) = Cardinality(Left) + 1
    BY <1>2, <1>4, FS_AddElement
  <2>. QED
    BY <1>0, <1>1, <1>2, <1>4, <2>1, <2>2
<1>5. CASE k \notin Left /\ ~(Cardinality(Left) < MaxBuckets)
  <2>. DEFINE o == Oldest
              T == Left \ {o}
  <2>1. Room(k) = {o} /\ S = T \cup {k}
    BY <1>5 DEF Room
  <2>2. Left # {}
    <3>. SUFFICES ASSUME Left = {} PROVE FALSE
      OBVIOUS
    <3>1. Cardinality(Left) = 0
      BY FS_EmptySet
    <3>. QED
      BY <1>0, <1>5, <3>1
  <2>3. o \in Left
    BY <2>2, OldestIsLeft
  <2>. HIDE DEF o
  <2>4. IsFiniteSet(T) /\ Cardinality(T) = Cardinality(Left) - 1
    BY <1>2, <2>3, FS_RemoveElement
  <2>5. k \notin T
    BY <1>5
  <2>. HIDE DEF T
  <2>6. IsFiniteSet(T \cup {k}) /\ Cardinality(T \cup {k}) = Cardinality(T) + 1
    BY <2>4, <2>5, FS_AddElement
  <2>7. Cardinality(T \cup {k}) <= MaxBuckets
    BY <1>0, <1>2, <2>4, <2>6
  <2>8. IsFiniteSet(S) /\ Cardinality(S) <= MaxBuckets
    BY <2>1, <2>6, <2>7, Zenon
  <2>. QED
    BY <1>1, <2>1, <2>3, <2>8
<1>. QED
  BY <1>3, <1>4, <1>5

\* InMemoryRateLimitStore.consume() for the key k, and what the handler does with it.
LEMMA ConsumeStep ==
    ASSUME HttpAssumption, BucketsFit, Paced, NEW k \in Limited, tick' = tick,
           buckets' = Consumed(k), evicted' = evicted \cup Room(k),
           IF Allowed(k) THEN grants' = [grants EXCEPT ![k] = Append(grants[k], tick)] ELSE grants' = grants
    PROVE  BucketsFit' /\ Paced'
<1>0. /\ Burst \in Nat /\ tick \in Nat /\ IdleTicks \in Nat /\ IdleTicks >= Burst
      /\ grants \in [Limited -> Seq(Nat)] /\ grants[k] \in Seq(Nat)
  BY LimiterNumbers DEF BucketsFit
<1>1. PICK b \in Bucket : b = Refilled(k) /\ b.at = tick /\ (k \notin evicted => Spent(grants[k], b.tokens, tick))
  BY RefillFits
<1>2. b.tokens \in 0..Burst
  BY DEF Bucket
<1>. DEFINE c == IF b.tokens >= 1 THEN [b EXCEPT !.tokens = b.tokens - 1] ELSE b
            D == (Left \ Room(k)) \cup {k}
<1>3. c \in Bucket /\ c.at = tick /\ c.tokens = IF b.tokens >= 1 THEN b.tokens - 1 ELSE b.tokens
  <2>1. CASE b.tokens >= 1
    <3>1. b.tokens - 1 \in 0..Burst
      BY <1>0, <1>2, <2>1
    <3>. QED
      BY <1>1, <2>1, <3>1 DEF Bucket
  <2>2. CASE ~(b.tokens >= 1)
    BY <1>1, <2>2
  <2>. QED
    BY <2>1, <2>2
<1>4. buckets' = [j \in D |-> IF j = k THEN c ELSE buckets[j]]
  BY <1>1 DEF Consumed
<1>. HIDE DEF c
<1>5. /\ Room(k) \subseteq Left /\ Left \subseteq DOMAIN buckets
      /\ IsFiniteSet(D) /\ Cardinality(D) <= MaxBuckets
  BY RoomFits
<1>6. DOMAIN buckets' = D /\ buckets'[k] = c /\ \A j \in D \ {k} : j \in Left /\ buckets'[j] = buckets[j]
  BY <1>4
<1>7. k \in D /\ Left \ Room(k) \subseteq D /\ D \subseteq Left \cup {k}
  OBVIOUS
<1>. HIDE DEF D
<1>8. grants' \in [Limited -> Seq(Nat)]
  <2>1. Append(grants[k], tick) \in Seq(Nat)
    BY <1>0
  <2>. QED
    BY <1>0, <2>1
<1>9. BucketsFit'
  <2>1. tick' \in 0..MaxTick /\ evicted' \subseteq Limited /\ DOMAIN buckets' \subseteq Limited
    BY <1>5, <1>6, <1>7 DEF BucketsFit
  <2>2. ASSUME NEW j \in DOMAIN buckets' PROVE buckets'[j] \in Bucket /\ buckets'[j].at <= tick'
    <3>1. CASE j = k
      BY <1>0, <1>3, <1>6, <3>1
    <3>2. CASE j # k
      BY <1>5, <1>6, <2>2, <3>2 DEF BucketsFit
    <3>. QED
      BY <3>1, <3>2
  <2>3. IsFiniteSet(DOMAIN buckets') /\ Cardinality(DOMAIN buckets') <= MaxBuckets
    BY <1>5, <1>6, Zenon
  <2>. QED
    BY <1>8, <2>1, <2>2, <2>3 DEF BucketsFit
<1>10. Paced'
  <2>. SUFFICES ASSUME NEW j \in Limited \ evicted'
                PROVE  /\ Bounded(grants'[j])
                       /\ j \in DOMAIN buckets' => Spent(grants'[j], buckets'[j].tokens, buckets'[j].at)
                       /\ j \notin DOMAIN buckets' => Spent(grants'[j], Burst, tick')
    BY DEF Paced
  <2>0. j \notin evicted /\ j \notin Room(k) /\ Bounded(grants[j]) /\ grants[j] \in Seq(Nat)
    BY <1>0 DEF Paced
  <2>1. CASE j = k
    <3>1. CASE b.tokens >= 1
      <4>1. grants'[k] = Append(grants[k], tick) /\ c.tokens = b.tokens - 1
        BY <1>0, <1>1, <1>3, <3>1 DEF Allowed
      <4>2. Spent(Append(grants[k], tick), b.tokens - 1, tick) /\ Bounded(Append(grants[k], tick))
        <5>1. Spent(grants[k], b.tokens, tick) /\ Bounded(grants[k]) /\ b.tokens > 0
          BY <1>1, <1>2, <2>0, <2>1, <3>1
        <5>. QED
          BY <1>0, <1>2, <5>1, SpentGrant
      <4>. QED
        BY <1>3, <1>6, <1>7, <2>1, <4>1, <4>2
    <3>2. CASE ~(b.tokens >= 1)
      <4>1. grants' = grants /\ c.tokens = b.tokens
        BY <1>1, <1>3, <3>2 DEF Allowed
      <4>. QED
        BY <1>1, <1>3, <1>6, <1>7, <2>0, <2>1, <4>1
    <3>. QED
      BY <3>1, <3>2
  <2>2. CASE j # k
    <3>1. grants'[j] = grants[j]
      BY <1>0, <2>2
    <3>2. CASE j \in DOMAIN buckets'
      BY <1>5, <1>6, <2>0, <2>2, <3>1, <3>2 DEF Paced
    <3>3. CASE j \notin DOMAIN buckets'
      <4>1. j \notin Left
        BY <1>6, <1>7, <2>0, <3>3
      <4>2. Refilled(j) = Fresh
        BY <4>1 DEF Refilled
      <4>3. Spent(grants[j], Refilled(j).tokens, tick)
        BY <2>0, RefillFits
      <4>. QED
        BY <2>0, <3>1, <3>3, <4>2, <4>3 DEF Fresh
    <3>. QED
      BY <3>2, <3>3
  <2>. QED
    BY <2>1, <2>2
<1>. QED
  BY <1>9, <1>10

-----------------------------------------------------------------------------
\* The HTTP boundary holds for any number of requests and callers, any burst, number
\* of buckets and idle time: where a caller identity is demanded nothing reaches the
\* agent without one, a caller gets no more than its bucket allows, and every stream
\* says how it ended (create_app, authenticate_request, consume, _stream_invoke).
THEOREM BoundaryIsKept ==
    ASSUME HttpAssumption
    PROVE  HttpSpec => []BoundaryHolds
<1>1. HttpInit => BoundaryInv
  <2>. SUFFICES ASSUME HttpInit PROVE BoundaryInv
    OBVIOUS
  <2>1. Deployed
    BY DEF HttpInit, Deployed
  <2>2. HttpRequests
    <3>1. <<>> \in Seq({"final", "error"})
      OBVIOUS
    <3>. DEFINE x == [pc |-> "idle", shape |-> NoShape, id |-> NoOne, status |-> 0,
                      events |-> <<>>, reached |-> FALSE]
    <3>2. x \in Request
      BY <3>1, LimiterNumbers DEF Request, Places, Statuses
    <3>3. RequestSound(x)
      BY DEF RequestSound
    <3>. HIDE DEF x
    <3>4. hreq = [r \in HttpReqs |-> x]
      BY DEF HttpInit, x
    <3>. QED
      BY <3>2, <3>3, <3>4 DEF HttpRequests
  <2>3. DOMAIN buckets = {} /\ tick = 0 /\ evicted = {} /\ grants = [k \in Limited |-> <<>>]
    BY DEF HttpInit
  <2>4. BucketsFit
    <3>1. IsFiniteSet({}) /\ Cardinality({}) = 0
      BY FS_EmptySet
    <3>2. <<>> \in Seq(Nat)
      OBVIOUS
    <3>. QED
      BY <2>3, <3>1, <3>2, LimiterNumbers DEF BucketsFit
  <2>5. Paced
    <3>1. \A k \in Limited : grants[k] = <<>> /\ Len(grants[k]) = 0
      BY <2>3
    <3>2. \A k \in Limited : 1..Len(grants[k]) = {}
      BY <3>1
    <3>. QED
      BY <2>3, <3>2 DEF Paced, Bounded, Spent
  <2>. QED
    BY <2>1, <2>2, <2>4, <2>5 DEF BoundaryInv
<1>2. BoundaryInv /\ [HttpNext]_hvars => BoundaryInv'
  <2>. SUFFICES ASSUME BoundaryInv, [HttpNext]_hvars PROVE BoundaryInv'
    OBVIOUS
  <2>0. Deployed /\ HttpRequests /\ BucketsFit /\ Paced
    BY DEF BoundaryInv
  <2>1. UNCHANGED <<tick, limiter>> => BucketsFit' /\ Paced'
    BY <2>0 DEF limiter, BucketsFit, Paced
  <2>2. CASE UNCHANGED hvars
    <3>1. HttpRequests' /\ Deployed'
      BY <2>0, <2>2 DEF hvars, HttpRequests, Deployed, RequestSound
    <3>. QED
      BY <2>1, <2>2, <3>1 DEF hvars, limiter, BoundaryInv
  <2>3. CASE CreateApp
    <3>1. Deployed'
      BY <2>0, <2>3, Switches DEF CreateApp, Deployed
    <3>2. HttpRequests'
      BY <2>0, <2>3 DEF CreateApp, HttpRequests, RequestSound
    <3>. QED
      BY <2>1, <2>3, <3>1, <3>2 DEF CreateApp, BoundaryInv
  <2>4. CASE Tick
    <3>1. HttpRequests' /\ Deployed'
      BY <2>0, <2>4 DEF Tick, HttpRequests, Deployed, RequestSound
    <3>2. tick \in Nat /\ tick' = tick + 1 /\ tick' \in 0..MaxTick /\ UNCHANGED <<buckets, grants, evicted>>
      BY <2>0, <2>4, LimiterNumbers DEF Tick, BucketsFit, limiter
    <3>3. BucketsFit'
      <4>1. \A k \in DOMAIN buckets : buckets[k] \in Bucket /\ buckets[k].at <= tick'
        BY <2>0, <3>2 DEF BucketsFit, Bucket
      <4>. QED
        BY <2>0, <3>2, <4>1 DEF BucketsFit
    <3>4. Paced'
      <4>1. ASSUME NEW k \in Limited, Spent(grants[k], Burst, tick) PROVE Spent(grants[k], Burst, tick')
        <5>1. grants[k] \in Seq(Nat) /\ Burst \in Nat /\ tick' \in Nat /\ Burst + tick <= Burst + tick'
          BY <2>0, <3>2, LimiterNumbers DEF BucketsFit
        <5>. QED
          BY <3>2, <4>1, <5>1, SpentLater
      <4>. QED
        BY <2>0, <3>2, <4>1 DEF Paced
    <3>. QED
      BY <3>1, <3>3, <3>4 DEF BoundaryInv
  <2>5. ASSUME NEW r \in HttpReqs, Handle(r) PROVE BoundaryInv'
    <3>0. hreq[r].pc = "handle" /\ hcfg' = hcfg /\ app' = app /\ tick' = tick /\ app = "up" /\ hreq[r].id \in Limited
      BY <2>0, <2>5 DEF Handle, HttpRequests, RequestSound, Request
    <3>1. 406 \in Statuses \ {0} /\ 429 \in Statuses \ {0}
      BY DEF Statuses
    <3>2. CASE Respond(r, 406) /\ UNCHANGED limiter
      BY <2>0, <2>1, <3>0, <3>1, <3>2, Responded DEF BoundaryInv
    <3>3. CASE Enter(r) /\ UNCHANGED limiter
      BY <2>0, <2>1, <3>0, <3>3, EnterStep DEF BoundaryInv
    <3>4. CASE ~(Respond(r, 406) /\ UNCHANGED limiter) /\ ~(Enter(r) /\ UNCHANGED limiter)
      <4>. DEFINE k == hreq[r].id
      <4>1. /\ buckets' = Consumed(k) /\ evicted' = evicted \cup Room(k)
            /\ IF Allowed(k) THEN Enter(r) /\ grants' = [grants EXCEPT ![k] = Append(grants[k], tick)]
                             ELSE Respond(r, 429) /\ UNCHANGED grants
        BY <2>5, <3>4 DEF Handle, Key
      <4>2. HttpRequests' /\ Deployed'
        <5>1. CASE Enter(r)
          BY <2>0, <3>0, <5>1, EnterStep
        <5>2. CASE Respond(r, 429)
          BY <2>0, <3>0, <3>1, <5>2, Responded
        <5>. QED
          BY <4>1, <5>1, <5>2
      <4>3. IF Allowed(k) THEN grants' = [grants EXCEPT ![k] = Append(grants[k], tick)] ELSE grants' = grants
        BY <4>1
      <4>4. BucketsFit' /\ Paced'
        BY <2>0, <3>0, <4>1, <4>3, ConsumeStep
      <4>. QED
        BY <4>2, <4>4 DEF BoundaryInv
    <3>. QED
      BY <3>2, <3>3, <3>4
  <2>6. ASSUME NEW r \in HttpReqs,
               \/ \E s \in Shapes : Arrive(r, s)
               \/ AuthenticateRequest(r) \/ WrongVersion(r) \/ BodyTooLarge(r) \/ LimiterFails(r) \/ Rpc(r)
               \/ StreamOpens(r) \/ StreamFinal(r)
               \/ \E o \in Outcomes : AgentEnds(r, o) \/ StreamEnds(r, o)
        PROVE  BoundaryInv'
    <3>1. HttpRequests' /\ Deployed'
      BY <2>0, <2>6, RequestSteps
    <3>2. UNCHANGED <<tick, limiter>>
      BY <2>6 DEF Arrive, AuthenticateRequest, WrongVersion, BodyTooLarge, LimiterFails, Rpc,
                  StreamOpens, StreamFinal, AgentEnds, StreamEnds
    <3>. QED
      BY <2>1, <3>1, <3>2 DEF BoundaryInv
  <2>. QED
    BY <2>2, <2>3, <2>4, <2>5, <2>6 DEF HttpNext
<1>3. BoundaryInv => BoundaryHolds
  <2>. SUFFICES ASSUME BoundaryInv PROVE BoundaryHolds
    OBVIOUS
  <2>0. Deployed /\ HttpRequests /\ BucketsFit /\ Paced
    BY DEF BoundaryInv
  <2>1. HttpTypeOK
    <3>1. \A k \in DOMAIN buckets : buckets[k].tokens \in 0..Burst /\ buckets[k].at \in 0..tick
      BY <2>0 DEF BucketsFit, Bucket
    <3>2. ASSUME NEW r \in HttpReqs
          PROVE  /\ hreq[r].pc \in {"idle", "verify", "handle", "agent", "stream", "done", "ended"}
                 /\ hreq[r].shape \in Shapes \cup {NoShape} /\ hreq[r].id \in Limited
                 /\ hreq[r].status \in Statuses /\ (hreq[r].pc \in {"done", "ended"} <=> hreq[r].status # 0)
                 /\ hreq[r].events \in Seq({"final", "error"})
      BY <2>0 DEF HttpRequests, Request, RequestSound, Places
    <3>. QED
      BY <2>0, <3>1, <3>2 DEF HttpTypeOK, Deployed, BucketsFit
  <2>2. NoUnverifiedInvocation /\ StreamTerminated
    BY <2>0 DEF HttpRequests, RequestSound, NoUnverifiedInvocation, StreamTerminated
  <2>3. GrantsBounded
    <3>. SUFFICES ASSUME NEW k \in Limited \ evicted, NEW i \in DOMAIN grants[k], NEW j \in DOMAIN grants[k], i <= j
                  PROVE  j - i + 1 <= Burst + (grants[k][j] - grants[k][i])
      BY DEF GrantsBounded
    <3>1. PICK g \in Seq(Nat) : g = grants[k] /\ Bounded(g)
      BY <2>0 DEF BucketsFit, Paced
    <3>2. DOMAIN g = 1..Len(g) /\ i \in 1..Len(g) /\ j \in 1..Len(g) /\ g[i] \in Nat /\ g[j] \in Nat /\ Len(g) \in Nat
      <4>1. DOMAIN g = 1..Len(g) /\ Len(g) \in Nat /\ \A l \in 1..Len(g) : g[l] \in Nat
        OBVIOUS
      <4>2. i \in DOMAIN g /\ j \in DOMAIN g
        BY <3>1
      <4>. QED
        BY <4>1, <4>2
    <3>3. j - i + 1 + g[i] <= Burst + g[j]
      BY <3>1, <3>2 DEF Bounded
    <3>4. \A a, c, n, m, s \in Nat : n - m + 1 + a <= s + c => n - m + 1 <= s + (c - a)
      OBVIOUS
    <3>5. i \in Nat /\ j \in Nat /\ Burst \in Nat
      BY <3>2, LimiterNumbers
    <3>6. j - i + 1 <= Burst + (g[j] - g[i])
      BY <3>2, <3>3, <3>4, <3>5
    <3>. QED
      BY <3>1, <3>6
  <2>. QED
    BY <2>1, <2>2, <2>3 DEF BoundaryHolds
<1>. QED
  BY <1>1, <1>2, <1>3, PTL DEF HttpSpec

-----------------------------------------------------------------------------
(* MCP: the connection and its manager. *)

Link == [state : {"disconnected", "connecting", "connected", "error"}, task : TaskStates, ref : BOOLEAN,
         once : BOOLEAN, closing : BOOLEAN, ready : BOOLEAN, tries : 0..Attempts + 1, session : Nat,
         endpoint : {"none", "tls", "local"}]

\* The state of a client x against its task: a session only while the task has one,
\* a task that leaves only when the client closes, and no task left after a disconnect.
LinkSound(x) ==
    /\ x.session <= links
    /\ x.task \in {"hold", "exit"} => x.session # 0
    /\ x.session # 0 => x.task \in {"hold", "exit", "cancel"}
    /\ x.ref => x.task # "none"
    /\ x.task # "gone" => x.tries <= Attempts
    /\ x.task \in {"exit", "cancel"} => x.closing
    /\ x.state = "disconnected" => x.task \in {"none", "gone"} /\ x.session = 0 /\ ~x.ref
    /\ x.state = "connected" /\ ~x.closing => x.session # 0

MgrStates == {"idle", "exchange", "connect", "abort", "discover", "up", "failed", "close", "kill", "closed"}

\* The manager m against the client: no task before connect(), one from then on, and
\* what connect() was given was validated and resolved.
MgrSound(m, x, a) ==
    /\ m \in MgrStates /\ a \in {"none", "actor", "delegated"}
    /\ m \in {"idle", "exchange"} => x.task = "none"
    /\ m \in {"connect", "abort", "discover", "up", "close", "kill"} => x.task # "none"
    /\ m \in {"abort", "close", "kill"} => x.closing
    /\ m = "exchange" => Endpoint.ok
    /\ (m = "exchange" \/ x.task # "none") /\ server.secret # "none" => a # "none"

LinkInv ==
    /\ server \in Servers /\ links \in 0..MaxLinks
    /\ link \in Link /\ LinkSound(link) /\ MgrSound(mgr, link, actor)

\* The connection goes on with the client x, the manager m and the credential a.
LEMMA LinkMoves ==
    ASSUME LinkInv, server' = server, links' \in 0..MaxLinks, NEW x \in Link, link' = x, LinkSound(x)',
           NEW m, mgr' = m, NEW a, actor' = a, MgrSound(m, x, a)
    PROVE  LinkInv'
<1>1. LinkSound(link)'
  BY DEF LinkSound
<1>2. MgrSound(mgr, link, actor)'
  BY DEF MgrSound, Endpoint
<1>. QED
  BY <1>1, <1>2 DEF LinkInv

\* A client that stays in its connection task: what most steps change.
LEMMA LinkStays ==
    ASSUME LinkInv, UNCHANGED <<server, links, actor, link>>, NEW m, mgr' = m, MgrSound(m, link, actor)
    PROVE  LinkInv'
<1>1. PICK x \in Link : x = link /\ LinkSound(x)
  BY DEF LinkInv
<1>2. PICK a : a = actor
  OBVIOUS
<1>3. LinkSound(x)'
  BY <1>1 DEF LinkSound
<1>4. links' \in 0..MaxLinks
  BY DEF LinkInv
<1>. QED
  BY <1>1, <1>2, <1>3, <1>4, LinkMoves

\* An endpoint that passed the validation is none, or acceptable.
LEMMA EndpointFits ==
    ASSUME Endpoint.ok
    PROVE  Endpoint.use \in {"none", "tls", "local"}
<1>1. CASE server.transport = "stdio"
  BY <1>1 DEF Endpoint
<1>2. CASE server.transport # "stdio"
  BY <1>2 DEF Endpoint, Acceptable
<1>. QED
  BY <1>1, <1>2

\* connect() starts the connection task.
LEMMA ConnectingFits ==
    ASSUME McpAssumption, LinkInv, Endpoint.ok, link.task = "none", UNCHANGED <<server, links>>, link' = Connecting(Endpoint.use),
           NEW a \in {"none", "actor", "delegated"}, actor' = a, mgr' = "connect",
           server.secret # "none" => a # "none"
    PROVE  LinkInv'
<1>1. PICK y \in Link : y = link /\ LinkSound(y)
  BY DEF LinkInv
<1>2. PICK e \in {"none", "tls", "local"} : e = Endpoint.use
  BY EndpointFits
<1>. DEFINE x == [y EXCEPT !.state = "connecting", !.task = "enter", !.ref = TRUE, !.once = FALSE,
                           !.closing = FALSE, !.ready = FALSE, !.tries = 0, !.endpoint = e]
<1>3. 0 \in 0..Attempts + 1 /\ Attempts \in Nat
  BY DEF McpAssumption
<1>4. /\ x \in Link /\ x.state = "connecting" /\ x.task = "enter" /\ x.session = y.session /\ x.tries = 0
  BY <1>3 DEF Link, TaskStates
<1>5. link' = x
  BY <1>1, <1>2 DEF Connecting
<1>. HIDE DEF x
<1>6. y.session = 0 /\ links \in 0..MaxLinks
  BY <1>1 DEF LinkSound, LinkInv
<1>7. LinkSound(x)'
  BY <1>3, <1>4, <1>6 DEF LinkSound
<1>8. MgrSound("connect", x, a)
  BY <1>4 DEF MgrSound, MgrStates
<1>. QED
  BY <1>4, <1>5, <1>6, <1>7, <1>8, LinkMoves

\* Every step keeps the connection sound.
LEMMA LinkStep ==
    ASSUME McpAssumption, LinkInv, [McpNext]_mpvars
    PROVE  LinkInv'
<1>0. /\ link \in Link /\ LinkSound(link) /\ MgrSound(mgr, link, actor) /\ links \in 0..MaxLinks
      /\ Attempts \in Nat /\ MaxLinks \in Nat
  BY DEF LinkInv, McpAssumption
<1>y. PICK y \in Link : y = link /\ LinkSound(y)
  BY <1>0
<1>a. PICK a : a = actor
  OBVIOUS
<1>m. PICK n : n = mgr /\ MgrSound(n, y, a)
  BY <1>0, <1>y, <1>a
<1>1. ASSUME NEW reply \in Answers, ConnectServer(reply) PROVE LinkInv'
  <2>1. mgr = "idle" /\ UNCHANGED <<server, links>> /\ link.task = "none"
    BY <1>0, <1>1 DEF ConnectServer, MgrSound
  <2>2. PICK b : b = ResolveCredential(reply)
    OBVIOUS
  <2>3. b \in {"none", "actor", "refused"} /\ (server.secret # "none" => b # "none")
    BY <2>2 DEF ResolveCredential
  <2>4. CASE ~Endpoint.ok \/ b = "refused"
    <3>1. mgr' = "failed" /\ UNCHANGED <<link, actor>>
      BY <1>1, <2>2, <2>4 DEF ConnectServer
    <3>2. MgrSound("failed", link, actor)
      BY <1>0, <2>1 DEF MgrSound, MgrStates
    <3>. QED
      BY <2>1, <3>1, <3>2, LinkStays
  <2>5. CASE Endpoint.ok /\ b # "refused"
    <3>1. actor' = b /\ IF PerRequest THEN mgr' = "exchange" /\ link' = link
                        ELSE mgr' = "connect" /\ link' = Connecting(Endpoint.use)
      BY <1>1, <2>2, <2>5 DEF ConnectServer
    <3>2. CASE PerRequest
      <4>1. LinkSound(y)'
        BY <1>y, <2>1 DEF LinkSound
      <4>2. MgrSound("exchange", y, b)
        BY <1>y, <2>1, <2>3, <2>5 DEF MgrSound, MgrStates
      <4>3. mgr' = "exchange" /\ link' = y /\ links' \in 0..MaxLinks
        BY <1>0, <1>y, <2>1, <3>1, <3>2
      <4>. QED
        BY <2>1, <3>1, <4>1, <4>2, <4>3, LinkMoves
    <3>3. CASE ~PerRequest
      <4>1. mgr' = "connect" /\ link' = Connecting(Endpoint.use) /\ b \in {"none", "actor", "delegated"}
        BY <2>3, <2>5, <3>1, <3>3
      <4>. QED
        BY <2>1, <2>3, <2>5, <3>1, <4>1, ConnectingFits
    <3>. QED
      BY <3>2, <3>3
  <2>. QED
    BY <2>4, <2>5
<1>2. ASSUME NEW ok \in BOOLEAN, Exchanged(ok) PROVE LinkInv'
  <2>1. mgr = "exchange" /\ UNCHANGED <<server, links>> /\ link.task = "none" /\ Endpoint.ok
    BY <1>0, <1>2 DEF Exchanged, MgrSound
  <2>2. CASE ok
    <3>1. mgr' = "connect" /\ actor' = "delegated" /\ link' = Connecting(Endpoint.use)
      BY <1>2, <2>2 DEF Exchanged
    <3>. QED
      BY <2>1, <3>1, ConnectingFits
  <2>3. CASE ~ok
    <3>1. mgr' = "failed" /\ UNCHANGED <<link, actor>>
      BY <1>2, <2>3 DEF Exchanged
    <3>2. MgrSound("failed", link, actor)
      BY <1>0, <2>1 DEF MgrSound, MgrStates
    <3>. QED
      BY <2>1, <3>1, <3>2, LinkStays
  <2>. QED
    BY <2>2, <2>3
<1>3. ASSUME NEW ok \in BOOLEAN, Discover(ok) PROVE LinkInv'
  <2>1. mgr = "discover" /\ UNCHANGED <<server, link, actor, links>> /\ mgr' = IF ok THEN "up" ELSE "failed"
    BY <1>3 DEF Discover
  <2>2. PICK m \in {"up", "failed"} : mgr' = m
    BY <2>1
  <2>3. MgrSound(m, link, actor)
    BY <1>0, <2>1, <2>2 DEF MgrSound, MgrStates
  <2>. QED
    BY <2>1, <2>2, <2>3, LinkStays
<1>4. ASSUME Initialized PROVE LinkInv'
  <2>1. y.task = "enter" /\ links < MaxLinks /\ links' = links + 1 /\ UNCHANGED <<server, mgr, actor>>
    BY <1>4, <1>y DEF Initialized
  <2>2. PICK s : s = links + 1
    OBVIOUS
  <2>3. s \in Nat /\ s # 0 /\ links' \in 0..MaxLinks /\ s <= links' /\ 0 \in 0..Attempts + 1 /\ 0 <= Attempts
    BY <1>0, <2>1, <2>2
  <2>. DEFINE x == [y EXCEPT !.task = "hold", !.session = s, !.once = TRUE, !.state = "connected",
                             !.ready = TRUE, !.tries = 0]
  <2>4. /\ x \in Link /\ x.task = "hold" /\ x.session = s /\ x.state = "connected" /\ x.tries = 0
        /\ x.closing = y.closing
    BY <2>3 DEF Link, TaskStates
  <2>5. link' = x
    BY <1>4, <1>y, <2>2 DEF Initialized
  <2>. HIDE DEF x
  <2>6. LinkSound(x)'
    BY <2>3, <2>4 DEF LinkSound
  <2>7. MgrSound(n, x, a)
    BY <1>m, <2>1, <2>4 DEF MgrSound
  <2>. QED
    BY <1>a, <1>m, <2>1, <2>3, <2>4, <2>5, <2>6, <2>7, LinkMoves
<1>5. ASSUME TransportFails PROVE LinkInv'
  <2>1. /\ y.task \in {"enter", "hold", "exit", "cancel"} /\ UNCHANGED <<server, mgr, actor, links>>
        /\ link' = Lost
    BY <1>5, <1>y DEF TransportFails
  <2>2. y.tries <= Attempts /\ y.tries \in 0..Attempts + 1 /\ y.tries + 1 \in 0..Attempts + 1
    <3>1. y.tries \in 0..Attempts + 1 /\ y.tries <= Attempts
      BY <1>y, <2>1 DEF LinkSound, Link
    <3>. QED
      BY <1>0, <3>1
  <2>3. PICK s \in {"error", "connecting"}, k \in {"gone", "backoff"}, i \in {y.tries, y.tries + 1} :
             /\ link' = [y EXCEPT !.session = 0, !.state = s, !.ready = TRUE, !.task = k, !.tries = i]
             /\ k = "backoff" => i <= Attempts
    <3>1. CASE ~y.once \/ y.closing
      <4>1. link' = [y EXCEPT !.session = 0, !.state = "error", !.ready = TRUE, !.task = "gone"]
        BY <1>y, <2>1, <3>1 DEF Lost
      <4>2. [y EXCEPT !.session = 0, !.state = "error", !.ready = TRUE, !.task = "gone"]
            = [y EXCEPT !.session = 0, !.state = "error", !.ready = TRUE, !.task = "gone", !.tries = y.tries]
        BY DEF Link
      <4>. QED
        BY <4>1, <4>2
    <3>2. CASE ~(~y.once \/ y.closing) /\ y.tries + 1 > Attempts
      <4>1. link' = [y EXCEPT !.session = 0, !.state = "error", !.ready = TRUE, !.task = "gone", !.tries = y.tries + 1]
        BY <1>y, <2>1, <3>2 DEF Lost
      <4>. QED
        BY <4>1
    <3>3. CASE ~(~y.once \/ y.closing) /\ ~(y.tries + 1 > Attempts)
      <4>1. link' = [y EXCEPT !.session = 0, !.state = "connecting", !.ready = TRUE, !.task = "backoff", !.tries = y.tries + 1]
        BY <1>y, <2>1, <3>3 DEF Lost
      <4>2. y.tries + 1 <= Attempts
        BY <1>0, <2>2, <3>3
      <4>. QED
        BY <4>1, <4>2
    <3>. QED
      BY <3>1, <3>2, <3>3
  <2>. DEFINE x == [y EXCEPT !.session = 0, !.state = s, !.ready = TRUE, !.task = k, !.tries = i]
  <2>4. /\ x \in Link /\ x.session = 0 /\ x.state = s /\ x.task = k /\ x.tries = i
        /\ x.closing = y.closing
    BY <2>2, <2>3 DEF Link, TaskStates
  <2>5. link' = x
    BY <2>3
  <2>. HIDE DEF x
  <2>6. LinkSound(x)'
    BY <1>0, <2>1, <2>3, <2>4 DEF LinkSound
  <2>7. MgrSound(n, x, a)
    BY <1>m, <2>1, <2>4 DEF MgrSound
  <2>. QED
    BY <1>0, <1>a, <1>m, <2>1, <2>4, <2>5, <2>6, <2>7, LinkMoves
<1>6. ASSUME BackoffEnds PROVE LinkInv'
  <2>1. y.task = "backoff" /\ UNCHANGED <<server, mgr, actor, links>>
    BY <1>6, <1>y DEF BackoffEnds
  <2>2. PICK k \in {"gone", "enter"} : link' = [y EXCEPT !.task = k]
    BY <1>6, <1>y DEF BackoffEnds
  <2>. DEFINE x == [y EXCEPT !.task = k]
  <2>4. /\ x \in Link /\ x.session = y.session /\ x.state = y.state /\ x.task = k /\ x.tries = y.tries
        /\ x.closing = y.closing /\ x.ref = y.ref
    BY DEF Link, TaskStates
  <2>5. link' = x
    BY <2>2
  <2>. HIDE DEF x
  <2>6. LinkSound(x)'
    BY <1>y, <2>1, <2>4 DEF LinkSound
  <2>7. MgrSound(n, x, a)
    BY <1>m, <2>1, <2>4 DEF MgrSound
  <2>. QED
    BY <1>0, <1>a, <1>m, <2>1, <2>4, <2>5, <2>6, <2>7, LinkMoves
<1>7. ASSUME CloseSeen PROVE LinkInv'
  <2>1. y.task = "hold" /\ y.closing /\ UNCHANGED <<server, mgr, actor, links>>
    BY <1>7, <1>y DEF CloseSeen
  <2>. DEFINE x == [y EXCEPT !.task = "exit"]
  <2>4. /\ x \in Link /\ x.session = y.session /\ x.state = y.state /\ x.task = "exit" /\ x.tries = y.tries
        /\ x.closing = y.closing /\ x.ref = y.ref
    BY DEF Link, TaskStates
  <2>5. link' = x
    BY <1>7, <1>y DEF CloseSeen
  <2>. HIDE DEF x
  <2>6. LinkSound(x)'
    BY <1>y, <2>1, <2>4 DEF LinkSound
  <2>7. MgrSound(n, x, a)
    BY <1>m, <2>1, <2>4 DEF MgrSound
  <2>. QED
    BY <1>0, <1>a, <1>m, <2>1, <2>4, <2>5, <2>6, <2>7, LinkMoves
<1>8. ASSUME TaskEnds PROVE LinkInv'
  <2>1. y.task \in {"exit", "cancel"} /\ UNCHANGED <<server, mgr, actor, links>>
    BY <1>8, <1>y DEF TaskEnds
  <2>. DEFINE x == [y EXCEPT !.task = "gone", !.session = 0]
  <2>4. /\ x \in Link /\ x.session = 0 /\ x.state = y.state /\ x.task = "gone"
        /\ x.closing = y.closing /\ x.ref = y.ref
    BY DEF Link, TaskStates
  <2>5. link' = x
    BY <1>8, <1>y DEF TaskEnds
  <2>. HIDE DEF x
  <2>6. LinkSound(x)'
    BY <1>0, <1>y, <2>1, <2>4 DEF LinkSound
  <2>7. MgrSound(n, x, a)
    BY <1>m, <2>1, <2>4 DEF MgrSound
  <2>. QED
    BY <1>0, <1>a, <1>m, <2>1, <2>4, <2>5, <2>6, <2>7, LinkMoves
<1>9. ASSUME ConnectReturns PROVE LinkInv'
  <2>1. mgr = "connect" /\ UNCHANGED <<server, actor, links>>
    BY <1>9 DEF ConnectReturns
  <2>2. CASE link.once
    <3>1. PICK m \in {"discover", "failed"} : mgr' = m /\ link' = link
      BY <1>9, <2>2 DEF ConnectReturns
    <3>2. MgrSound(m, link, actor)
      BY <1>0, <2>1, <3>1 DEF MgrSound, MgrStates
    <3>. QED
      BY <2>1, <3>1, <3>2, LinkStays
  <2>3. CASE ~link.once
    <3>. DEFINE x == [y EXCEPT !.state = "error", !.ref = FALSE]
    <3>4. /\ x \in Link /\ x.session = y.session /\ x.state = "error" /\ x.task = y.task /\ x.tries = y.tries
          /\ x.closing = y.closing /\ ~x.ref
      BY DEF Link
    <3>5. link' = x /\ mgr' = "failed"
      BY <1>9, <1>y, <2>3 DEF ConnectReturns
    <3>. HIDE DEF x
    <3>6. LinkSound(x)'
      BY <1>y, <2>1, <3>4 DEF LinkSound
    <3>7. MgrSound("failed", x, a)
      BY <1>m, <3>4 DEF MgrSound, MgrStates
    <3>. QED
      BY <1>0, <1>a, <2>1, <3>4, <3>5, <3>6, <3>7, LinkMoves
  <2>. QED
    BY <2>2, <2>3
<1>c. PICK k \in {"gone", "cancel"} : Cancelled = [y EXCEPT !.task = k]
  BY <1>y DEF Cancelled
<1>10. ASSUME ConnectTimesOut PROVE LinkInv'
  <2>1. mgr = "connect" /\ UNCHANGED <<server, actor, links>> /\ mgr' = "abort" /\ y.task # "none"
    BY <1>10, <1>m, <1>y DEF ConnectTimesOut, MgrSound
  <2>. DEFINE z == [y EXCEPT !.task = k]
              x == [z EXCEPT !.state = "error", !.closing = TRUE]
  <2>2. z \in Link /\ z.session = y.session /\ z.task = k /\ z.tries = y.tries /\ z.ref = y.ref
    BY DEF Link, TaskStates
  <2>3. link' = x
    BY <1>10, <1>c DEF ConnectTimesOut
  <2>. HIDE DEF z
  <2>4. /\ x \in Link /\ x.session = y.session /\ x.state = "error" /\ x.task = k /\ x.tries = y.tries
        /\ x.closing /\ x.ref = y.ref
    BY <2>2 DEF Link
  <2>. HIDE DEF x
  <2>5. k = "gone" <=> y.task = "gone"
    BY <1>c, <1>y DEF Cancelled, Link
  <2>6. LinkSound(x)'
    BY <1>y, <2>1, <2>4, <2>5 DEF LinkSound
  <2>7. MgrSound("abort", x, a)
    BY <1>m, <2>1, <2>4 DEF MgrSound, MgrStates
  <2>. QED
    BY <1>0, <1>a, <2>1, <2>3, <2>4, <2>6, <2>7, LinkMoves
<1>11. ASSUME Aborted PROVE LinkInv'
  <2>1. y.task = "gone" /\ mgr' = "failed" /\ UNCHANGED <<server, actor, links>>
    BY <1>11, <1>y DEF Aborted
  <2>. DEFINE x == [y EXCEPT !.ref = FALSE, !.session = 0]
  <2>4. /\ x \in Link /\ x.session = 0 /\ x.state = y.state /\ x.task = "gone" /\ x.closing = y.closing /\ ~x.ref
    BY <2>1 DEF Link
  <2>5. link' = x /\ y.closing
    BY <1>11, <1>m, <1>y DEF Aborted, MgrSound
  <2>. HIDE DEF x
  <2>6. LinkSound(x)'
    BY <1>0, <2>1, <2>4, <2>5 DEF LinkSound
  <2>7. MgrSound("failed", x, a)
    BY <1>m, <2>1, <2>4 DEF MgrSound, MgrStates
  <2>. QED
    BY <1>0, <1>a, <2>1, <2>4, <2>5, <2>6, <2>7, LinkMoves
<1>12. ASSUME Aclose PROVE LinkInv'
  <2>1. UNCHANGED <<server, actor, links>> /\ mgr \in {"up", "failed"}
    BY <1>12 DEF Aclose
  <2>2. CASE mgr = "up"
    <3>. DEFINE x == [y EXCEPT !.closing = TRUE]
    <3>4. /\ x \in Link /\ x.session = y.session /\ x.state = y.state /\ x.task = y.task /\ x.tries = y.tries
          /\ x.closing /\ x.ref = y.ref
      BY DEF Link
    <3>5. link' = x /\ mgr' = "close"
      BY <1>12, <1>y, <2>2 DEF Aclose
    <3>. HIDE DEF x
    <3>6. LinkSound(x)'
      BY <1>y, <2>1, <3>4 DEF LinkSound
    <3>7. MgrSound("close", x, a)
      BY <1>m, <2>2, <3>4 DEF MgrSound, MgrStates
    <3>. QED
      BY <1>0, <1>a, <2>1, <3>4, <3>5, <3>6, <3>7, LinkMoves
  <2>3. CASE mgr # "up"
    <3>1. mgr' = "closed" /\ link' = link
      BY <1>12, <2>3 DEF Aclose
    <3>2. MgrSound("closed", link, actor)
      BY <1>0 DEF MgrSound, MgrStates
    <3>. QED
      BY <2>1, <3>1, <3>2, LinkStays
  <2>. QED
    BY <2>2, <2>3
<1>13. ASSUME DisconnectTimesOut PROVE LinkInv'
  <2>1. mgr = "close" /\ y.task # "gone" /\ y.task # "none" /\ y.closing /\ UNCHANGED <<server, actor, links>> /\ mgr' = "kill"
    BY <1>13, <1>m, <1>y DEF DisconnectTimesOut, MgrSound
  <2>. DEFINE x == [y EXCEPT !.task = k]
  <2>4. /\ x \in Link /\ x.session = y.session /\ x.state = y.state /\ x.task = k /\ x.tries = y.tries
        /\ x.closing = y.closing /\ x.ref = y.ref
    BY DEF Link, TaskStates
  <2>5. link' = x
    BY <1>13, <1>c DEF DisconnectTimesOut
  <2>2. k = "cancel"
    BY <1>c, <1>y, <2>1 DEF Cancelled, Link
  <2>. HIDE DEF x
  <2>6. LinkSound(x)'
    BY <1>y, <2>1, <2>2, <2>4 DEF LinkSound
  <2>7. MgrSound("kill", x, a)
    BY <1>m, <2>1, <2>4 DEF MgrSound, MgrStates
  <2>. QED
    BY <1>0, <1>a, <2>1, <2>4, <2>5, <2>6, <2>7, LinkMoves
<1>14. ASSUME Disconnected PROVE LinkInv'
  <2>1. y.task = "gone" /\ UNCHANGED <<server, actor, links>> /\ mgr' = "closed"
    BY <1>14, <1>y DEF Disconnected
  <2>. DEFINE x == [y EXCEPT !.ref = FALSE, !.session = 0, !.state = "disconnected"]
  <2>4. x \in Link /\ x.session = 0 /\ x.state = "disconnected" /\ x.task = "gone" /\ ~x.ref
    BY <2>1 DEF Link
  <2>5. link' = x
    BY <1>14, <1>y DEF Disconnected
  <2>. HIDE DEF x
  <2>6. LinkSound(x)'
    BY <1>0, <2>1, <2>4 DEF LinkSound
  <2>7. MgrSound("closed", x, a)
    BY <1>m, <2>1, <2>4 DEF MgrSound, MgrStates
  <2>. QED
    BY <1>0, <1>a, <2>1, <2>4, <2>5, <2>6, <2>7, LinkMoves
<1>15. ASSUME UNCHANGED <<server, mgr, link, actor, links>> PROVE LinkInv'
  <2>1. mgr' = n /\ MgrSound(n, link, actor)
    BY <1>0, <1>m, <1>15
  <2>. QED
    BY <1>15, <2>1, LinkStays
<1>16. ASSUME NEW c \in McpCalls,
              CallTool(c) \/ Emit(c) \/ Answered(c) \/ CallFails(c) \/ \E ok \in BOOLEAN : CallExchanged(c, ok)
       PROVE  UNCHANGED <<server, mgr, link, actor, links>>
  BY <1>16 DEF CallTool, Emit, Answered, CallFails, CallExchanged
<1>17. CASE UNCHANGED mpvars
  BY <1>15, <1>17 DEF mpvars
<1>. QED
  BY <1>1, <1>2, <1>3, <1>4, <1>5, <1>6, <1>7, <1>8, <1>9, <1>10, <1>11, <1>12, <1>13, <1>14, <1>15, <1>16, <1>17
     DEF McpNext

-----------------------------------------------------------------------------
(* MCP: the numbers that calls reserve. *)

CallPlaces == {"idle", "exchange", "queued", "sent", "late", "done", "error"}
Call == [pc : CallPlaces, session : Nat, id : Nat, num : Nat]
Reserving == {"exchange", "queued", "sent"}
Sending == {"queued", "sent", "late"}

\* Each entry of f is of a call under way that will remove it.
McpHeld(f, m) ==
    /\ f \in [DOMAIN f -> McpCalls] /\ DOMAIN f \subseteq Nat
    /\ \A i \in DOMAIN f : m[f[i]].pc \in Reserving /\ m[f[i]].id = i

\* Without token exchange a request takes the number it reserved, and no two of
\* session s have the same.
Numbered(m, s, next) ==
    /\ \A c \in McpCalls : m[c].pc # "exchange" /\ (m[c].pc \in {"queued", "sent"} => m[c].id = m[c].num)
    /\ s # 0 => /\ \A c \in McpCalls : m[c].pc \in Sending /\ m[c].session = s => m[c].num < next
                /\ \A c, d \in McpCalls :
                      (/\ m[c].pc \in Sending /\ m[c].session = s
                       /\ m[d].pc \in Sending /\ m[d].session = s
                       /\ m[c].num = m[d].num) => c = d

\* The reservations of a session end with it.
Books ==
    /\ mcall \in [McpCalls -> Call] /\ nextId \in Nat
    /\ McpHeld(traces, mcall) /\ McpHeld(creds, mcall)
    /\ \A c \in McpCalls : /\ mcall[c].session <= links
                           /\ mcall[c].pc \in Reserving \cup Sending => mcall[c].session # 0
    /\ link.task \in {"none", "enter", "gone"} => traces = Empty
    /\ link.session # 0 => \A i \in DOMAIN traces : mcall[traces[i]].session = link.session
    /\ ~PerRequest => Numbered(mcall, link.session, nextId)
    /\ OwnTrace

\* No reservations are held by whatever calls there are.
LEMMA EmptyHeld == \A m : McpHeld(Empty, m) /\ DOMAIN Empty = {}
  BY DEF McpHeld, Empty

\* A call adds its entry.
LEMMA HeldWith ==
    ASSUME NEW m \in [McpCalls -> Call], NEW f, McpHeld(f, m), NEW c \in McpCalls, NEW x \in Call, NEW i \in Nat,
           x.pc \in Reserving, x.id = i, m[c].pc \notin Reserving \/ m[c].id = i
    PROVE  McpHeld(With(f, i, c), [m EXCEPT ![c] = x])
<1>. DEFINE g == With(f, i, c)
            k == [m EXCEPT ![c] = x]
<1>1. DOMAIN g = DOMAIN f \cup {i} /\ \A j \in DOMAIN g : g[j] = IF j = i THEN c ELSE f[j]
  BY DEF With
<1>2. k[c] = x /\ \A d \in McpCalls \ {c} : k[d] = m[d]
  OBVIOUS
<1>3. g \in [DOMAIN g -> McpCalls] /\ DOMAIN g \subseteq Nat
  BY <1>1 DEF McpHeld, With
<1>. HIDE DEF g, k
<1>4. ASSUME NEW j \in DOMAIN g PROVE k[g[j]].pc \in Reserving /\ k[g[j]].id = j
  <2>1. CASE j = i
    BY <1>1, <1>2, <2>1
  <2>2. CASE j # i
    <3>1. j \in DOMAIN f /\ g[j] = f[j] /\ f[j] \in McpCalls /\ m[f[j]].pc \in Reserving /\ m[f[j]].id = j
      BY <1>1, <2>2 DEF McpHeld
    <3>2. f[j] # c
      BY <2>2, <3>1
    <3>. QED
      BY <1>2, <3>1, <3>2
  <2>. QED
    BY <2>1, <2>2
<1>5. McpHeld(g, k)
  BY <1>3, <1>4 DEF McpHeld
<1>. QED
  BY <1>5 DEF g, k

\* A call removes its entry and goes on with x.
LEMMA HeldWithout ==
    ASSUME NEW m \in [McpCalls -> Call], NEW f, McpHeld(f, m), NEW c \in McpCalls, NEW x \in Call
    PROVE  McpHeld(Without(f, m[c].id), [m EXCEPT ![c] = x])
<1>. DEFINE g == Without(f, m[c].id)
            k == [m EXCEPT ![c] = x]
<1>1. DOMAIN g = DOMAIN f \ {m[c].id} /\ \A j \in DOMAIN g : g[j] = f[j]
  BY DEF Without
<1>2. \A d \in McpCalls \ {c} : k[d] = m[d]
  OBVIOUS
<1>3. g \in [DOMAIN g -> McpCalls] /\ DOMAIN g \subseteq Nat
  BY <1>1 DEF McpHeld, Without
<1>. HIDE DEF g, k
<1>4. ASSUME NEW j \in DOMAIN g PROVE k[g[j]].pc \in Reserving /\ k[g[j]].id = j
  <2>1. j \in DOMAIN f /\ j # m[c].id /\ g[j] = f[j] /\ f[j] \in McpCalls /\ m[f[j]].pc \in Reserving /\ m[f[j]].id = j
    BY <1>1 DEF McpHeld
  <2>2. f[j] # c
    BY <2>1
  <2>. QED
    BY <1>2, <2>1, <2>2
<1>5. McpHeld(g, k)
  BY <1>3, <1>4 DEF McpHeld
<1>. QED
  BY <1>5 DEF g, k

\* A call goes on with x and keeps its entries.
LEMMA HeldStill ==
    ASSUME NEW m \in [McpCalls -> Call], NEW f, McpHeld(f, m), NEW c \in McpCalls, NEW x \in Call,
           m[c].pc \notin Reserving \/ (x.pc \in Reserving /\ x.id = m[c].id)
    PROVE  McpHeld(f, [m EXCEPT ![c] = x])
<1>. DEFINE k == [m EXCEPT ![c] = x]
<1>1. k[c] = x /\ \A d \in McpCalls \ {c} : k[d] = m[d]
  OBVIOUS
<1>. HIDE DEF k
<1>2. McpHeld(f, k)
  BY <1>1 DEF McpHeld
<1>. QED
  BY <1>2 DEF k

\* A number that is not reserved is always found among those the model looks at.
LEMMA ReserveIsFree ==
    ASSUME McpAssumption, Books
    PROVE  Reserve \in Nat /\ Reserve \notin DOMAIN traces /\ (nextId \notin DOMAIN traces => Reserve = nextId)
<1>. DEFINE N == Cardinality(McpCalls)
            I == nextId .. nextId + N
            S == {i \in I : i \notin DOMAIN traces}
            R == OpToRel(<, Nat)
<1>1. IsFiniteSet(McpCalls) /\ N \in Nat /\ nextId \in Nat
  BY FS_CardinalityType DEF McpAssumption, Books
<1>2. I \subseteq Nat /\ S \subseteq Nat /\ nextId \in I
  BY <1>1
<1>3. S # {}
  <2>. SUFFICES ASSUME I \subseteq DOMAIN traces PROVE FALSE
    OBVIOUS
  <2>. DEFINE f == [i \in I |-> traces[i]]
  <2>1. f \in Injection(I, McpCalls)
    <3>1. ASSUME NEW i \in I PROVE traces[i] \in McpCalls /\ mcall[traces[i]].id = i
      BY DEF Books, McpHeld
    <3>2. \A i, j \in I : traces[i] = traces[j] => i = j
      BY <3>1
    <3>. HIDE DEF I
    <3>. QED
      BY <3>1, <3>2 DEF Injection, IsInjective
  <2>2. Cardinality(I) <= N
    <3>. HIDE DEF f, I
    <3>. QED
      BY <1>1, <2>1, FS_Injection
  <2>3. nextId \in Int /\ nextId + N \in Int
    BY <1>1
  <2>4. Cardinality(I) = IF nextId > nextId + N THEN 0 ELSE (nextId + N) - nextId + 1
    BY <2>3, FS_Interval
  <2>. HIDE DEF N, I
  <2>5. Cardinality(I) = N + 1
    BY <1>1, <2>4
  <2>. QED
    BY <1>1, <2>2, <2>5
<1>13. S \subseteq Nat
  BY <1>2
<1>14. \A i \in I : i >= nextId /\ i \in Nat
  BY <1>1
<1>. HIDE DEF N, I, S
<1>4. IsWellFoundedOn(R, Nat)
  BY NatLessThanWellFounded
<1>5. \A a, b \in Nat : <<a, b>> \in R <=> a < b
  BY DEF OpToRel
<1>. HIDE DEF R
<1>6. PICK a \in S : \A b \in S : ~(<<b, a>> \in R)
  BY <1>2, <1>3, <1>4, WFMin
<1>7. ASSUME NEW b \in S PROVE a <= b
  <2>1. a \in Nat /\ b \in Nat
    BY <1>13
  <2>2. ~(b < a)
    BY <1>5, <1>6, <2>1
  <2>. QED
    BY <2>1, <2>2
<1>8. Min(S) \in S /\ \A b \in S : Min(S) <= b
  BY <1>7 DEF Min
<1>9. Reserve = Min(S)
  BY DEF Reserve, N, I, S
<1>10. nextId \notin DOMAIN traces => Min(S) = nextId
  <2>. SUFFICES ASSUME nextId \notin DOMAIN traces PROVE Min(S) = nextId
    OBVIOUS
  <2>1. nextId \in S
    BY <1>2 DEF S
  <2>2. Min(S) \in I
    BY <1>8 DEF S
  <2>3. Min(S) <= nextId /\ Min(S) >= nextId /\ Min(S) \in Nat
    BY <1>8, <1>14, <2>1, <2>2
  <2>. QED
    BY <1>1, <2>3
<1>11. Min(S) \notin DOMAIN traces
  BY <1>8 DEF S
<1>. QED
  BY <1>8, <1>9, <1>10, <1>11, <1>13

\* A step of the connection: the reservations stay or are cleared, and a session
\* stays or is lost.
LEMMA BooksKept ==
    ASSUME Books, UNCHANGED <<server, mcall, carried>>,
           (traces' = traces /\ creds' = creds) \/ (traces' = Empty /\ creds' = Empty),
           nextId' \in Nat, nextId' >= nextId, links' = links, links \in Nat, link'.session \in {0, link.session},
           link'.task \in {"none", "enter", "gone"} => traces' = Empty
    PROVE  Books'
<1>1. McpHeld(traces', mcall') /\ McpHeld(creds', mcall')
  BY EmptyHeld DEF Books
<1>2. link'.session # 0 => \A i \in DOMAIN traces' : mcall'[traces'[i]].session = link'.session
  BY EmptyHeld DEF Books
<1>3. PerRequest' = PerRequest
  BY DEF PerRequest
<1>4. ASSUME ~PerRequest PROVE Numbered(mcall', link'.session, nextId')
  <2>1. Numbered(mcall, link.session, nextId) /\ mcall \in [McpCalls -> Call] /\ nextId \in Nat
    BY <1>4 DEF Books
  <2>2. \A c \in McpCalls : mcall[c].num \in Nat
    BY <2>1 DEF Call
  <2>3. \A c \in McpCalls : mcall[c].num < nextId => mcall[c].num < nextId'
    BY <2>1, <2>2
  <2>. QED
    BY <2>1, <2>3 DEF Numbered
<1>5. OwnTrace'
  BY <1>3 DEF Books, OwnTrace
<1>6. /\ mcall' \in [McpCalls -> Call]
      /\ \A c \in McpCalls : mcall'[c].session <= links' /\ (mcall'[c].pc \in Reserving \cup Sending => mcall'[c].session # 0)
  BY DEF Books
<1>. QED
  BY <1>1, <1>2, <1>3, <1>4, <1>5, <1>6 DEF Books

\* A step of the call c, which goes on with x.
LEMMA CallMoves ==
    ASSUME Books, NEW c \in McpCalls, NEW x \in Call, mcall' = [mcall EXCEPT ![c] = x],
           UNCHANGED <<server, link, links>>, nextId' \in Nat, nextId' >= nextId,
           McpHeld(traces', mcall'), McpHeld(creds', mcall'), OwnTrace',
           x.session <= links, x.pc \in Reserving \cup Sending => x.session # 0,
           link.task \in {"none", "enter", "gone"} => traces' = Empty,
           \A i \in DOMAIN traces' : IF traces'[i] = c THEN x.session = link.session
                                     ELSE i \in DOMAIN traces /\ traces'[i] = traces[i],
           ~PerRequest =>
               /\ x.pc # "exchange" /\ (x.pc \in {"queued", "sent"} => x.id = x.num)
               /\ x.pc \in Sending /\ x.session = link.session /\ link.session # 0 =>
                     /\ x.num < nextId'
                     /\ \A d \in McpCalls \ {c} :
                            mcall[d].pc \in Sending /\ mcall[d].session = link.session => mcall[d].num # x.num
    PROVE  Books'
<1>0. mcall \in [McpCalls -> Call] /\ nextId \in Nat
  BY DEF Books
<1>1. mcall' \in [McpCalls -> Call] /\ mcall'[c] = x /\ \A d \in McpCalls \ {c} : mcall'[d] = mcall[d]
  BY <1>0
<1>2. PerRequest' = PerRequest
  BY DEF PerRequest
<1>3. ASSUME link.session # 0, NEW i \in DOMAIN traces' PROVE mcall'[traces'[i]].session = link.session
  <2>1. CASE traces'[i] = c
    BY <1>1, <2>1
  <2>2. CASE traces'[i] # c
    <3>1. i \in DOMAIN traces /\ traces'[i] = traces[i] /\ traces[i] \in McpCalls
      BY <2>2 DEF Books, McpHeld
    <3>2. mcall[traces[i]].session = link.session
      BY <1>3, <3>1 DEF Books
    <3>. QED
      BY <1>1, <2>2, <3>1, <3>2
  <2>. QED
    BY <2>1, <2>2
<1>4. ASSUME ~PerRequest PROVE Numbered(mcall', link.session, nextId')
  <2>1. Numbered(mcall, link.session, nextId)
    BY <1>4 DEF Books
  <2>2. \A d \in McpCalls : mcall[d].num \in Nat
    BY <1>0 DEF Call
  <2>3. \A d \in McpCalls : mcall[d].num < nextId => mcall[d].num < nextId'
    BY <1>0, <2>2
  <2>4. \A d \in McpCalls : mcall'[d].pc # "exchange" /\ (mcall'[d].pc \in {"queued", "sent"} => mcall'[d].id = mcall'[d].num)
    BY <1>1, <1>4, <2>1 DEF Numbered
  <2>5. ASSUME link.session # 0, NEW d \in McpCalls, mcall'[d].pc \in Sending, mcall'[d].session = link.session
        PROVE  mcall'[d].num < nextId'
    BY <1>1, <1>4, <2>1, <2>3, <2>5 DEF Numbered
  <2>6. ASSUME link.session # 0, NEW d \in McpCalls, mcall'[d].pc \in Sending, mcall'[d].session = link.session,
               NEW e \in McpCalls, mcall'[e].pc \in Sending, mcall'[e].session = link.session, mcall'[d].num = mcall'[e].num
        PROVE  d = e
    <3>1. CASE d # c /\ e # c
      BY <1>1, <2>1, <2>6, <3>1 DEF Numbered
    <3>2. CASE d = c \/ e = c
      BY <1>1, <1>4, <2>6, <3>2
    <3>. QED
      BY <3>1, <3>2
  <2>. DEFINE m == mcall'
  <2>7. \A d, e \in McpCalls : (/\ m[d].pc \in Sending /\ m[d].session = link.session
                               /\ m[e].pc \in Sending /\ m[e].session = link.session
                               /\ m[d].num = m[e].num /\ link.session # 0) => d = e
    BY <2>6
  <2>8. \A d \in McpCalls : m[d].pc \in Sending /\ m[d].session = link.session /\ link.session # 0 => m[d].num < nextId'
    BY <2>5
  <2>9. \A d \in McpCalls : m[d].pc # "exchange" /\ (m[d].pc \in {"queued", "sent"} => m[d].id = m[d].num)
    BY <2>4
  <2>. HIDE DEF m
  <2>10. Numbered(m, link.session, nextId')
    BY <2>7, <2>8, <2>9 DEF Numbered
  <2>. QED
    BY <2>10 DEF m
<1>5. \A d \in McpCalls :
        mcall'[d].session <= links' /\ (mcall'[d].pc \in Reserving \cup Sending => mcall'[d].session # 0)
  BY <1>1 DEF Books
<1>. QED
  BY <1>1, <1>2, <1>3, <1>4, <1>5 DEF Books

\* A new session numbers its requests afresh, when no reservation is left.
LEMMA BooksInitialized ==
    ASSUME LinkInv, Books, Initialized
    PROVE  Books'
<1>0. /\ mcall \in [McpCalls -> Call] /\ links \in Nat /\ links' = links + 1 /\ nextId' = 1
      /\ UNCHANGED <<server, traces, creds, mcall, carried>> /\ traces = Empty
  BY DEF Books, LinkInv, Initialized
<1>1. link'.task = "hold" /\ link'.session = links + 1
  BY DEF Initialized, LinkInv, Link
<1>2. ASSUME NEW c \in McpCalls PROVE mcall[c].session <= links' /\ mcall[c].session # links + 1
  <2>1. mcall[c].session \in Nat /\ mcall[c].session <= links
    BY <1>0 DEF Books, Call
  <2>. QED
    BY <1>0, <2>1
<1>3. PerRequest' = PerRequest
  BY <1>0 DEF PerRequest
<1>4. ASSUME ~PerRequest PROVE Numbered(mcall, links + 1, 1)
  <2>1. Numbered(mcall, link.session, nextId)
    BY <1>4 DEF Books
  <2>. QED
    BY <1>2, <2>1 DEF Numbered
<1>5. OwnTrace'
  BY <1>0, <1>3 DEF Books, OwnTrace
<1>6. McpHeld(traces', mcall') /\ McpHeld(creds', mcall') /\ DOMAIN traces' = {}
  BY <1>0, EmptyHeld DEF Books
<1>7. \A c \in McpCalls :
        mcall'[c].session <= links' /\ (mcall'[c].pc \in Reserving \cup Sending => mcall'[c].session # 0)
  BY <1>0, <1>2 DEF Books
<1>8. ASSUME ~PerRequest PROVE Numbered(mcall', link'.session, nextId')
  BY <1>0, <1>1, <1>4, <1>8
<1>9. /\ mcall' \in [McpCalls -> Call] /\ nextId' \in Nat
      /\ link'.task \in {"none", "enter", "gone"} => traces' = Empty
      /\ link'.session # 0 => \A i \in DOMAIN traces' : mcall'[traces'[i]].session = link'.session
  BY <1>0, <1>1, <1>6
<1>. QED
  BY <1>3, <1>5, <1>6, <1>7, <1>8, <1>9 DEF Books

\* A call that removes its entries, at its end or when its request is given up.
LEMMA CallReleases ==
    ASSUME LinkInv, Books, NEW c \in McpCalls, NEW x \in Call, mcall' = [mcall EXCEPT ![c] = x],
           traces' = Without(traces, mcall[c].id), creds' = Without(creds, mcall[c].id),
           UNCHANGED <<server, link, links, nextId, carried>>,
           \/ x.pc \in {"done", "error"} /\ x.session = 0
           \/ x.pc = "late" /\ x.session = mcall[c].session /\ x.num = mcall[c].num /\ mcall[c].pc = "queued"
    PROVE  Books'
<1>0. mcall \in [McpCalls -> Call] /\ McpHeld(traces, mcall) /\ McpHeld(creds, mcall) /\ nextId \in Nat /\ links \in Nat
  BY DEF Books, LinkInv
<1>1. McpHeld(traces', mcall') /\ McpHeld(creds', mcall')
  BY <1>0, HeldWithout
<1>2. OwnTrace'
  BY DEF Books, OwnTrace, PerRequest
<1>3. DOMAIN traces' = DOMAIN traces \ {mcall[c].id} /\ \A i \in DOMAIN traces' : traces'[i] = traces[i]
  BY DEF Without
<1>4. ASSUME NEW i \in DOMAIN traces' PROVE traces'[i] # c /\ i \in DOMAIN traces /\ traces'[i] = traces[i]
  BY <1>0, <1>3 DEF McpHeld
<1>5. traces = Empty => traces' = Empty
  BY DEF Without, Empty
<1>6. x.session <= links /\ (x.pc \in Reserving \cup Sending => x.session # 0)
  <2>1. mcall[c].session <= links /\ (mcall[c].pc = "queued" => mcall[c].session # 0)
    BY DEF Books, Reserving, Sending
  <2>. QED
    BY <1>0, <2>1 DEF Reserving, Sending
<1>7. link.task \in {"none", "enter", "gone"} => traces' = Empty
  BY <1>5 DEF Books
<1>8. ASSUME ~PerRequest
      PROVE  /\ x.pc # "exchange" /\ (x.pc \in {"queued", "sent"} => x.id = x.num)
             /\ x.pc \in Sending /\ x.session = link.session /\ link.session # 0 =>
                   /\ x.num < nextId
                   /\ \A d \in McpCalls \ {c} :
                          mcall[d].pc \in Sending /\ mcall[d].session = link.session => mcall[d].num # x.num
  <2>1. Numbered(mcall, link.session, nextId)
    BY <1>8 DEF Books
  <2>. QED
    BY <2>1 DEF Numbered, Sending
<1>9. nextId' \in Nat /\ nextId' >= nextId
  BY <1>0
<1>. QED
  BY <1>1, <1>2, <1>4, <1>6, <1>7, <1>8, <1>9, CallMoves

\* Every step keeps the books of the reservations.
LEMMA BooksStep ==
    ASSUME McpAssumption, LinkInv, Books, [McpNext]_mpvars
    PROVE  Books'
<1>0. /\ mcall \in [McpCalls -> Call] /\ nextId \in Nat /\ links \in Nat
      /\ McpHeld(traces, mcall) /\ McpHeld(creds, mcall) /\ link \in Link /\ LinkSound(link) /\ MgrSound(mgr, link, actor)
  BY DEF Books, LinkInv
<1>1. nextId >= nextId /\ nextId + 1 >= nextId /\ nextId + 3 >= nextId /\ nextId + 1 \in Nat /\ nextId + 3 \in Nat
  BY <1>0
<1>t. link.task \in {"none", "enter", "gone"} => traces = Empty
  BY DEF Books
<1>2. ASSUME UNCHANGED <<server, links, requests>>, link'.session \in {0, link.session},
             link'.task \in {"none", "enter", "gone"} => link.task \in {"none", "enter", "gone"}
      PROVE  Books'
  BY <1>0, <1>1, <1>2, <1>t, BooksKept DEF requests
<1>3. ASSUME NEW reply \in Answers, ConnectServer(reply) PROVE Books'
  <2>1. link.task = "none" /\ UNCHANGED <<server, links, requests>>
    BY <1>0, <1>3 DEF ConnectServer, MgrSound
  <2>2. link' = link \/ link' = Connecting(Endpoint.use)
    BY <1>3 DEF ConnectServer
  <2>3. link'.session = link.session
    BY <1>0, <2>2 DEF Connecting, Link
  <2>. QED
    BY <1>2, <2>1, <2>3
<1>4. ASSUME NEW ok \in BOOLEAN, Exchanged(ok) PROVE Books'
  <2>1. link.task = "none" /\ UNCHANGED <<server, links, requests>>
    BY <1>0, <1>4 DEF Exchanged, MgrSound
  <2>2. link' = link \/ link' = Connecting(Endpoint.use)
    BY <1>4 DEF Exchanged
  <2>3. link'.session = link.session
    BY <1>0, <2>2 DEF Connecting, Link
  <2>. QED
    BY <1>2, <2>1, <2>3
<1>5. ASSUME NEW ok \in BOOLEAN, Discover(ok) PROVE Books'
  <2>1. UNCHANGED <<server, link, links, traces, creds, mcall, carried>> /\ nextId' \in {nextId, nextId + 3}
    BY <1>5 DEF Discover
  <2>2. nextId' \in Nat /\ nextId' >= nextId
    BY <1>0, <1>1, <2>1
  <2>. QED
    BY <1>0, <1>t, <2>1, <2>2, BooksKept
<1>6. ASSUME TransportFails PROVE Books'
  <2>1. UNCHANGED <<server, links, nextId, mcall, carried>> /\ link' = Lost
    BY <1>6 DEF TransportFails
  <2>2. Lost.session = 0 /\ Lost.task \in {"gone", "backoff"}
    BY <1>0 DEF Lost, Link
  <2>3. IF Lost.task = "gone" THEN traces' = Empty /\ creds' = Empty ELSE traces' = traces /\ creds' = creds
    BY <1>6 DEF TransportFails, Cleared
  <2>. QED
    BY <1>0, <1>1, <2>1, <2>2, <2>3, BooksKept
<1>7. ASSUME BackoffEnds \/ TaskEnds PROVE Books'
  <2>1. UNCHANGED <<server, links, nextId, mcall, carried>> /\ traces' = Empty /\ creds' = Empty
    BY <1>7 DEF BackoffEnds, TaskEnds, Cleared
  <2>2. link'.session \in {0, link.session}
    BY <1>0, <1>7 DEF BackoffEnds, TaskEnds, Link
  <2>. QED
    BY <1>0, <1>1, <2>1, <2>2, BooksKept
<1>8. ASSUME CloseSeen PROVE Books'
  <2>1. UNCHANGED <<server, links, requests>> /\ link'.session = link.session /\ link'.task = "exit"
    BY <1>0, <1>8 DEF CloseSeen, Link
  <2>. QED
    BY <1>2, <2>1
<1>9. ASSUME ConnectReturns \/ Aclose PROVE Books'
  <2>1. UNCHANGED <<server, links, requests>> /\ link'.session = link.session /\ link'.task = link.task
    BY <1>0, <1>9 DEF ConnectReturns, Aclose, Link
  <2>. QED
    BY <1>2, <2>1
<1>c. Cancelled \in Link /\ Cancelled.session = link.session
      /\ Cancelled.task = IF link.task = "gone" THEN "gone" ELSE "cancel"
  BY <1>0 DEF Cancelled, Link, TaskStates
<1>10. ASSUME ConnectTimesOut \/ DisconnectTimesOut PROVE Books'
  <2>1. UNCHANGED <<server, links, requests>>
        /\ (link' = Cancelled \/ link' = [Cancelled EXCEPT !.state = "error", !.closing = TRUE])
    BY <1>10 DEF ConnectTimesOut, DisconnectTimesOut
  <2>2. link'.session = Cancelled.session /\ link'.task = Cancelled.task
    BY <1>c, <2>1 DEF Link
  <2>. QED
    BY <1>2, <1>c, <2>1, <2>2
<1>11. ASSUME Aborted \/ Disconnected PROVE Books'
  <2>1. UNCHANGED <<server, links, requests>> /\ link'.session = 0 /\ link'.task = link.task
    BY <1>0, <1>11 DEF Aborted, Disconnected, Link
  <2>. QED
    BY <1>2, <2>1
<1>12. ASSUME NEW c \in McpCalls, CallTool(c) PROVE Books'
  <2>0. mcall[c].pc = "idle" /\ mcall[c] \in Call /\ UNCHANGED <<server, link, links, carried>> /\ OwnTrace'
    BY <1>0, <1>12 DEF CallTool, Books, OwnTrace, PerRequest
  <2>1. CASE ~Usable
    <3>. DEFINE x == [mcall[c] EXCEPT !.pc = "error"]
    <3>1. x \in Call /\ x.pc = "error" /\ x.session = mcall[c].session
      BY <2>0 DEF Call, CallPlaces
    <3>2. mcall' = [mcall EXCEPT ![c] = x] /\ UNCHANGED <<nextId, traces, creds>>
      BY <1>12, <2>1 DEF CallTool
    <3>. HIDE DEF x
    <3>3. McpHeld(traces', mcall') /\ McpHeld(creds', mcall')
      BY <1>0, <2>0, <3>1, <3>2, HeldStill DEF Reserving
    <3>4. \A i \in DOMAIN traces' : traces'[i] # c
      BY <1>0, <2>0, <3>2 DEF McpHeld, Reserving
    <3>5. x.session <= links /\ x.pc \notin Reserving \cup Sending
      BY <3>1 DEF Books, Reserving, Sending
    <3>6. nextId' \in Nat /\ nextId' >= nextId /\ (link.task \in {"none", "enter", "gone"} => traces' = Empty)
      BY <1>0, <1>t, <3>2
    <3>7. x.pc # "exchange" /\ x.pc \notin {"queued", "sent"} /\ x.pc \notin Sending
      BY <3>1 DEF Sending
    <3>. QED
      BY <2>0, <3>1, <3>2, <3>3, <3>4, <3>5, <3>6, <3>7, CallMoves
  <2>2. CASE Usable
    <3>0. link.session # 0 /\ link.session \in Nat /\ link.session <= links /\ link.task \in {"hold", "exit", "cancel"}
      BY <1>0, <2>2 DEF Usable, LinkSound, Link
    <3>1. PICK i \in Nat : i = Reserve /\ (nextId \notin DOMAIN traces => i = nextId)
      BY ReserveIsFree
    <3>2. traces' = With(traces, i, c)
      BY <1>12, <2>2, <3>1 DEF CallTool
    <3>3. \A j \in DOMAIN traces' : traces'[j] # c => j \in DOMAIN traces /\ traces'[j] = traces[j]
      BY <3>2 DEF With
    <3>4. CASE PerRequest
      <4>. DEFINE x == [mcall[c] EXCEPT !.pc = "exchange", !.id = i, !.session = link.session]
      <4>1. x \in Call /\ x.pc = "exchange" /\ x.id = i /\ x.session = link.session
        BY <2>0, <3>0 DEF Call, CallPlaces
      <4>2. mcall' = [mcall EXCEPT ![c] = x] /\ UNCHANGED <<nextId, creds>>
        BY <1>12, <2>2, <3>1, <3>4 DEF CallTool
      <4>. HIDE DEF x
      <4>3. McpHeld(traces', mcall')
        BY <1>0, <2>0, <3>2, <4>1, <4>2, HeldWith DEF Reserving
      <4>4. McpHeld(creds', mcall')
        BY <1>0, <2>0, <4>1, <4>2, HeldStill DEF Reserving
      <4>5. nextId' \in Nat /\ nextId' >= nextId
        BY <1>0, <4>2
      <4>. QED
        BY <2>0, <3>0, <3>3, <3>4, <4>1, <4>2, <4>3, <4>4, <4>5, CallMoves
    <3>5. CASE ~PerRequest
      <4>0. Numbered(mcall, link.session, nextId)
        BY <3>5 DEF Books
      <4>1. nextId \notin DOMAIN traces
        <5>. SUFFICES ASSUME nextId \in DOMAIN traces PROVE FALSE
          OBVIOUS
        <5>1. PICK d \in McpCalls : d = traces[nextId] /\ mcall[d].pc \in Reserving /\ mcall[d].id = nextId
          BY <1>0 DEF McpHeld
        <5>2. mcall[d].session = link.session
          BY <3>0, <5>1 DEF Books
        <5>3. mcall[d].pc \in Sending /\ mcall[d].num = nextId
          BY <4>0, <5>1 DEF Numbered, Reserving, Sending
        <5>4. mcall[d].num < nextId
          BY <3>0, <4>0, <5>2, <5>3 DEF Numbered
        <5>. QED
          BY <1>0, <5>3, <5>4
      <4>2. i = nextId
        BY <3>1, <4>1
      <4>. DEFINE x == [mcall[c] EXCEPT !.pc = "queued", !.id = i, !.session = link.session, !.num = nextId]
      <4>3. x \in Call /\ x.pc = "queued" /\ x.id = i /\ x.session = link.session /\ x.num = nextId
        BY <1>0, <2>0, <3>0 DEF Call, CallPlaces
      <4>4. mcall' = [mcall EXCEPT ![c] = x] /\ nextId' = nextId + 1 /\ creds' = With(creds, i, c)
        BY <1>12, <2>2, <3>1, <3>5 DEF CallTool, Taken
      <4>. HIDE DEF x
      <4>5. McpHeld(traces', mcall') /\ McpHeld(creds', mcall')
        BY <1>0, <2>0, <3>2, <4>3, <4>4, HeldWith DEF Reserving
      <4>6. nextId' \in Nat /\ nextId' >= nextId /\ x.num < nextId'
        BY <1>0, <4>3, <4>4
      <4>7. ASSUME NEW d \in McpCalls, mcall[d].pc \in Sending, mcall[d].session = link.session PROVE mcall[d].num # x.num
        <5>1. mcall[d].num < nextId /\ mcall[d].num \in Nat
          BY <1>0, <3>0, <4>0, <4>7 DEF Numbered, Call
        <5>. QED
          BY <1>0, <4>3, <5>1
      <4>8. x.pc # "exchange" /\ x.id = x.num
        BY <4>2, <4>3
      <4>. QED
        BY <2>0, <3>0, <3>3, <4>3, <4>4, <4>5, <4>6, <4>7, <4>8, CallMoves
    <3>. QED
      BY <3>4, <3>5
  <2>. QED
    BY <2>1, <2>2
<1>r. ASSUME NEW c \in McpCalls, NEW q \in {"done", "error"}, Release(c, q), UNCHANGED <<server, link, links, nextId, carried>>
      PROVE  Books'
  <2>. DEFINE x == [pc |-> q, session |-> 0, id |-> 0, num |-> 0]
  <2>1. x \in Call /\ x.pc \in {"done", "error"} /\ x.session = 0
    BY DEF Call, CallPlaces
  <2>2. /\ mcall' = [mcall EXCEPT ![c] = x]
        /\ traces' = Without(traces, mcall[c].id) /\ creds' = Without(creds, mcall[c].id)
    BY <1>r DEF Release
  <2>. HIDE DEF x
  <2>. QED
    BY <1>r, <2>1, <2>2, CallReleases
<1>13. ASSUME NEW c \in McpCalls, NEW ok \in BOOLEAN, CallExchanged(c, ok) PROVE Books'
  <2>0. mcall[c].pc = "exchange" /\ mcall[c] \in Call /\ UNCHANGED <<server, link, links, carried>> /\ OwnTrace'
    BY <1>0, <1>13 DEF CallExchanged, Books, OwnTrace, PerRequest
  <2>1. CASE ok /\ mcall[c].session = link.session
    <3>0. mcall[c].session # 0 /\ mcall[c].session <= links /\ mcall[c].id \in Nat
      BY <2>0 DEF Books, Reserving, Call
    <3>. DEFINE x == [mcall[c] EXCEPT !.pc = "queued", !.id = mcall[c].id, !.session = link.session, !.num = nextId]
    <3>1. x \in Call /\ x.pc = "queued" /\ x.id = mcall[c].id /\ x.session = mcall[c].session
      BY <1>0, <2>0, <2>1 DEF Call, CallPlaces
    <3>2. /\ mcall' = [mcall EXCEPT ![c] = x] /\ nextId' = nextId + 1
          /\ creds' = With(creds, mcall[c].id, c) /\ traces' = traces
      BY <1>13, <2>1 DEF CallExchanged, Taken
    <3>. HIDE DEF x
    <3>3. McpHeld(creds', mcall')
      BY <1>0, <2>0, <3>0, <3>1, <3>2, HeldWith DEF Reserving
    <3>4. McpHeld(traces', mcall')
      BY <1>0, <2>0, <3>1, <3>2, HeldStill DEF Reserving
    <3>5. PerRequest
      <4>. SUFFICES ASSUME ~PerRequest PROVE FALSE
        OBVIOUS
      <4>1. Numbered(mcall, link.session, nextId)
        BY DEF Books
      <4>. QED
        BY <2>0, <4>1 DEF Numbered
    <3>6. nextId' \in Nat /\ nextId' >= nextId /\ (link.task \in {"none", "enter", "gone"} => traces' = Empty)
      BY <1>0, <1>t, <3>2
    <3>. QED
      BY <2>0, <2>1, <3>0, <3>1, <3>2, <3>3, <3>4, <3>5, <3>6, CallMoves
  <2>2. CASE ~(ok /\ mcall[c].session = link.session)
    <3>1. Release(c, "error") /\ nextId' = nextId
      BY <1>13, <2>2 DEF CallExchanged
    <3>. QED
      BY <1>r, <2>0, <3>1
  <2>. QED
    BY <2>1, <2>2
<1>14. ASSUME NEW c \in McpCalls, Answered(c) PROVE Books'
  BY <1>r, <1>14 DEF Answered
<1>15. ASSUME NEW c \in McpCalls, CallFails(c) PROVE Books'
  <2>0. UNCHANGED <<server, link, links, nextId, carried>> /\ mcall[c] \in Call
    BY <1>0, <1>15 DEF CallFails
  <2>1. CASE mcall[c].pc = "sent"
    <3>1. Release(c, "error")
      BY <1>15, <2>1 DEF CallFails
    <3>. QED
      BY <1>r, <2>0, <3>1
  <2>2. CASE mcall[c].pc # "sent"
    <3>. DEFINE x == [mcall[c] EXCEPT !.pc = "late", !.id = 0]
    <3>1. x \in Call /\ x.pc = "late" /\ x.session = mcall[c].session /\ x.num = mcall[c].num
      BY <2>0 DEF Call, CallPlaces
    <3>2. /\ mcall[c].pc = "queued" /\ mcall' = [mcall EXCEPT ![c] = x]
          /\ traces' = Without(traces, mcall[c].id) /\ creds' = Without(creds, mcall[c].id)
      BY <1>0, <1>15, <2>2 DEF CallFails
    <3>. HIDE DEF x
    <3>. QED
      BY <2>0, <3>1, <3>2, CallReleases
  <2>. QED
    BY <2>1, <2>2
<1>16. ASSUME NEW c \in McpCalls, Emit(c) PROVE Books'
  <2>0. /\ mcall[c].pc \in {"queued", "late"} /\ mcall[c] \in Call /\ mcall[c].session = link.session /\ link.session # 0
        /\ UNCHANGED <<server, link, links, nextId, traces, creds>>
    BY <1>0, <1>16 DEF Emit, LinkSound
  <2>1. PICK q \in {"sent", "error"} : q = IF mcall[c].pc = "late" THEN "error" ELSE "sent"
    BY <2>0
  <2>. DEFINE x == [mcall[c] EXCEPT !.pc = q]
  <2>2. x \in Call /\ x.pc = q /\ x.session = mcall[c].session /\ x.id = mcall[c].id /\ x.num = mcall[c].num
    BY <2>0, <2>1 DEF Call, CallPlaces
  <2>3. mcall' = [mcall EXCEPT ![c] = x]
    BY <1>0, <1>16, <2>1 DEF Emit
  <2>. HIDE DEF x
  <2>4. McpHeld(traces', mcall') /\ McpHeld(creds', mcall')
    BY <1>0, <2>0, <2>1, <2>2, <2>3, HeldStill DEF Reserving
  <2>5. ASSUME ~PerRequest PROVE At(traces, mcall[c].num) \in {c, NoCall}
    <3>. SUFFICES ASSUME mcall[c].num \in DOMAIN traces PROVE traces[mcall[c].num] = c
      BY DEF At
    <3>1. Numbered(mcall, link.session, nextId)
      BY <2>5 DEF Books
    <3>2. PICK d \in McpCalls : d = traces[mcall[c].num] /\ mcall[d].pc \in Reserving /\ mcall[d].id = mcall[c].num
      BY <1>0 DEF McpHeld
    <3>3. mcall[d].session = link.session /\ mcall[d].pc \in Sending /\ mcall[d].num = mcall[c].num
      BY <2>0, <3>1, <3>2 DEF Books, Numbered, Reserving, Sending
    <3>4. mcall[c].pc \in Sending
      BY <2>0 DEF Sending
    <3>. QED
      BY <2>0, <3>1, <3>2, <3>3, <3>4 DEF Numbered
  <2>6. OwnTrace'
    <3>1. carried' \subseteq carried \cup {<<c, At(traces, mcall[c].num), At(creds, mcall[c].num)>>}
      BY <1>16 DEF Emit
    <3>2. OwnTrace /\ PerRequest' = PerRequest
      BY <2>0 DEF Books, PerRequest
    <3>. QED
      BY <2>5, <3>1, <3>2 DEF OwnTrace
  <2>7. \A i \in DOMAIN traces' : IF traces'[i] = c THEN x.session = link.session ELSE i \in DOMAIN traces /\ traces'[i] = traces[i]
    BY <2>0, <2>2
  <2>8. x.session <= links /\ x.session # 0 /\ nextId' \in Nat /\ nextId' >= nextId
        /\ (link.task \in {"none", "enter", "gone"} => traces' = Empty)
    BY <1>0, <1>t, <2>0, <2>2 DEF Books
  <2>9. ASSUME ~PerRequest
        PROVE  /\ x.pc # "exchange" /\ (x.pc \in {"queued", "sent"} => x.id = x.num)
               /\ x.num < nextId'
               /\ \A d \in McpCalls \ {c} :
                      mcall[d].pc \in Sending /\ mcall[d].session = link.session => mcall[d].num # x.num
    <3>1. Numbered(mcall, link.session, nextId)
      BY <2>9 DEF Books
    <3>2. q = "sent" => mcall[c].pc = "queued"
      BY <2>0, <2>1
    <3>3. mcall[c].pc \in Sending
      BY <2>0 DEF Sending
    <3>. QED
      BY <2>0, <2>1, <2>2, <3>1, <3>2, <3>3 DEF Numbered
  <2>. QED
    BY <2>0, <2>2, <2>3, <2>4, <2>6, <2>7, <2>8, <2>9, CallMoves
<1>17. CASE UNCHANGED mpvars
  BY <1>2, <1>17 DEF mpvars, requests
<1>18. ASSUME Initialized PROVE Books'
  BY <1>18, BooksInitialized
<1>. QED
  BY <1>3, <1>4, <1>5, <1>6, <1>7, <1>8, <1>9, <1>10, <1>11, <1>12, <1>13, <1>14, <1>15, <1>16, <1>17, <1>18
     DEF McpNext

\* The inductive invariants give the property.
LEMMA ConnectionImplied ==
    ASSUME McpAssumption, LinkInv, Books
    PROVE  ConnectionSound
<1>0. /\ link \in Link /\ LinkSound(link) /\ MgrSound(mgr, link, actor) /\ mcall \in [McpCalls -> Call]
      /\ McpHeld(traces, mcall) /\ McpHeld(creds, mcall) /\ server \in Servers /\ links \in 0..MaxLinks /\ nextId \in Nat
  BY DEF LinkInv, Books
<1>1. McpTypeOK
  <2>1. Range(traces) \cup Range(creds) \subseteq McpCalls
    BY <1>0 DEF McpHeld, Range
  <2>2. \A c \in McpCalls : mcall[c].pc \in CallPlaces
    BY <1>0 DEF Call
  <2>3. link.session \in 0..links
    BY <1>0 DEF LinkSound, Link
  <2>4. /\ link.state \in {"disconnected", "connecting", "connected", "error"} /\ link.task \in TaskStates
        /\ {link.ref, link.once, link.closing, link.ready} \subseteq BOOLEAN /\ link.tries \in 0..Attempts + 1
    BY <1>0 DEF Link
  <2>5. /\ link.task \in {"hold", "exit"} => link.session # 0
        /\ link.session # 0 => link.task \in {"hold", "exit", "cancel"}
        /\ link.ref => link.task # "none"
    BY <1>0 DEF LinkSound
  <2>6. actor \in {"none", "actor", "delegated"} /\ mgr \in MgrStates
    BY <1>0 DEF MgrSound
  <2>. QED
    BY <1>0, <2>1, <2>2, <2>3, <2>4, <2>5, <2>6 DEF McpTypeOK, CallPlaces, MgrStates
<1>2. EndpointValidated
  BY <1>0 DEF EndpointValidated, Acceptable, Link
<1>3. DeclaredCredentialUsed
  BY <1>0 DEF DeclaredCredentialUsed, MgrSound
<1>4. DisconnectFinal /\ HealthHonest
  BY <1>0 DEF DisconnectFinal, HealthHonest, HealthProbe, LinkSound
<1>5. OwnTrace
  BY DEF Books
<1>6. NoLeakedReservation
  <2>. SUFFICES ASSUME \A c \in McpCalls : mcall[c].pc \notin {"exchange", "queued", "sent"}
                PROVE  traces = Empty /\ creds = Empty
    BY DEF NoLeakedReservation
  <2>1. DOMAIN traces = {} /\ DOMAIN creds = {}
    <3>1. \A c \in McpCalls : mcall[c].pc \notin Reserving
      BY DEF Reserving
    <3>2. \A i \in DOMAIN traces : traces[i] \in McpCalls /\ mcall[traces[i]].pc \in Reserving
      BY <1>0 DEF McpHeld
    <3>3. \A i \in DOMAIN creds : creds[i] \in McpCalls /\ mcall[creds[i]].pc \in Reserving
      BY <1>0 DEF McpHeld
    <3>. QED
      BY <3>1, <3>2, <3>3
  <2>. QED
    BY <1>0, <2>1 DEF McpHeld, Empty
<1>. QED
  BY <1>1, <1>2, <1>3, <1>4, <1>5, <1>6 DEF ConnectionSound

\* A connection is made as declared, honest about its state and final once it is
\* disconnected, and its reservations end with their calls and, where no token is
\* exchanged, serve no other: for any number of calls, reconnects and sessions, with
\* transport failures, timeouts and cancellations between them (ConnectionSound;
\* connect_server, _run, disconnect, call_tool).
THEOREM ConnectionsAreSound ==
    ASSUME McpAssumption
    PROVE  McpSpec => []ConnectionSound
<1>1. McpInit => LinkInv /\ Books
  <2>. SUFFICES ASSUME McpInit PROVE LinkInv /\ Books
    OBVIOUS
  <2>0. Attempts \in Nat /\ MaxLinks \in Nat
    BY DEF McpAssumption
  <2>1. LinkInv
    <3>1. link \in Link /\ link.task = "none" /\ link.session = 0 /\ ~link.ref /\ link.tries = 0 /\ link.state = "disconnected"
      BY <2>0 DEF McpInit, Link, TaskStates
    <3>2. LinkSound(link)
      BY <2>0, <3>1 DEF LinkSound, McpInit
    <3>3. MgrSound(mgr, link, actor)
      BY <3>1 DEF MgrSound, MgrStates, McpInit
    <3>. QED
      BY <2>0, <3>1, <3>2, <3>3 DEF LinkInv, McpInit
  <2>2. Books
    <3>1. mcall \in [McpCalls -> Call] /\ \A c \in McpCalls : mcall[c].pc = "idle" /\ mcall[c].session = 0
      BY DEF McpInit, Call, CallPlaces
    <3>2. McpHeld(traces, mcall) /\ McpHeld(creds, mcall) /\ DOMAIN traces = {}
      BY EmptyHeld DEF McpInit
    <3>3. Numbered(mcall, link.session, nextId)
      BY <3>1 DEF McpInit, Numbered
    <3>4. OwnTrace
      BY DEF McpInit, OwnTrace
    <3>. QED
      BY <3>1, <3>2, <3>3, <3>4 DEF McpInit, Books, Reserving, Sending
  <2>. QED
    BY <2>1, <2>2
<1>2. LinkInv /\ Books /\ [McpNext]_mpvars => LinkInv' /\ Books'
  BY LinkStep, BooksStep
<1>3. LinkInv /\ Books => ConnectionSound
  BY ConnectionImplied
<1>. QED
  BY <1>1, <1>2, <1>3, PTL DEF McpSpec

------------------------------------------------------------------------------
(* The policy evaluator.                                                    *)

\* Some rule of p matches and denies.
Denied(p, q, action) ==
    \E i \in 1..Len(p.rules) : Matching(p.rules[i], q, action) /\ p.rules[i].effect = "deny"

\* The rules refuse exactly what one of them denies.
LEMMA RefusedByRules ==
    ASSUME NEW p, NEW q, NEW action
    PROVE  ByRules(p, q, action) = IF Denied(p, q, action) THEN "denied" ELSE "allowed"
  BY DEF ByRules, RuleDecision, Denied

\* Two policies with the same lists whose rules deny the same decide alike.
LEMMA DecidedByDenials ==
    ASSUME NEW p, NEW r, NEW q,
           \A f \in {"lists", "models", "providers", "side", "approval"} : p[f] = r[f],
           \A action \in {"invoke", "connect", "execute"} : Denied(p, q, action) <=> Denied(r, q, action)
    PROVE  Evaluated(p, q) = Evaluated(r, q)
<1>1. \A action \in {"invoke", "connect", "execute"} : ByRules(p, q, action) = ByRules(r, q, action)
  BY RefusedByRules
<1>2. p.lists = r.lists /\ p.models = r.models /\ p.providers = r.providers /\ p.side = r.side /\ p.approval = r.approval
  OBVIOUS
<1>3. /\ EvaluateListed(p, q, "invoke") = EvaluateListed(r, q, "invoke")
      /\ EvaluateListed(p, q, "connect") = EvaluateListed(r, q, "connect")
  BY <1>1, <1>2 DEF EvaluateListed
<1>4. EvaluateModel(p, q) = EvaluateModel(r, q)
  BY <1>1, <1>2 DEF EvaluateModel
<1>5. EvaluateSideEffect(p, q) = EvaluateSideEffect(r, q)
  BY <1>1, <1>2 DEF EvaluateSideEffect
<1>. QED
  BY <1>3, <1>4, <1>5, Zenon DEF Evaluated

\* Neither the order of the rules nor a rule that allows changes what is denied.
LEMMA OrderAndAllowsIrrelevant ==
    ASSUME NEW p, {"lists", "models", "providers", "side", "approval", "rules"} \subseteq DOMAIN p,
           p.rules \in Seq(Rules(p)), NEW q
    PROVE  LET Reversed == [p EXCEPT !.rules = [i \in 1..Len(p.rules) |-> p.rules[Len(p.rules) + 1 - i]]]
               Denying == {r \in Rules(p) : r.effect = "deny"}
               Denials == [p EXCEPT !.rules = Filtered(p.rules, Denying)]
           IN Evaluated(p, q) = Evaluated(Reversed, q) /\ Evaluated(p, q) = Evaluated(Denials, q)
<1>. DEFINE s == p.rules
            n == Len(s)
            back == [i \in 1..n |-> s[n + 1 - i]]
            Denying == {r \in Rules(p) : r.effect = "deny"}
            few == Filtered(s, Denying)
            Reversed == [p EXCEPT !.rules = back]
            Denials == [p EXCEPT !.rules = few]
<1>0. s \in Seq(Rules(p)) /\ n \in Nat /\ DOMAIN s = 1..n
  OBVIOUS
<1>1. Reversed.rules = back /\ \A f \in {"lists", "models", "providers", "side", "approval"} : p[f] = Reversed[f]
  OBVIOUS
<1>2. Denials.rules = few /\ \A f \in {"lists", "models", "providers", "side", "approval"} : p[f] = Denials[f]
  <2>. HIDE DEF few
  <2>. QED
    OBVIOUS
<1>3. back \in Seq(Rules(p)) /\ Len(back) = n
  <2>1. \A i \in 1..n : s[n + 1 - i] \in Rules(p)
    BY <1>0
  <2>. QED
    BY <1>0, <2>1
<1>4. ASSUME NEW action PROVE Denied(p, q, action) <=> Denied(Reversed, q, action)
  <2>1. ASSUME Denied(p, q, action) PROVE Denied(Reversed, q, action)
    <3>1. PICK i \in 1..n : Matching(s[i], q, action) /\ s[i].effect = "deny"
      BY <2>1 DEF Denied
    <3>2. n + 1 - i \in 1..n /\ back[n + 1 - i] = s[i]
      BY <1>0
    <3>. HIDE DEF s, n, back, Reversed
    <3>. QED
      BY <1>1, <1>3, <3>1, <3>2 DEF Denied
  <2>2. ASSUME Denied(Reversed, q, action) PROVE Denied(p, q, action)
    <3>1. PICK i \in 1..n : Matching(back[i], q, action) /\ back[i].effect = "deny"
      <4>. HIDE DEF n, back, Reversed
      <4>. QED
        BY <1>1, <1>3, <2>2 DEF Denied
    <3>2. n + 1 - i \in 1..n /\ back[i] = s[n + 1 - i]
      BY <1>0
    <3>. HIDE DEF back
    <3>. QED
      BY <3>1, <3>2 DEF Denied
  <2>. QED
    BY <2>1, <2>2
<1>5. few \in Seq(Rules(p)) /\ Selected(few, s, Denying, n)
  <2>. HIDE DEF Denying, s
  <2>. QED
    BY <1>0, FilteredProperties
<1>6. ASSUME NEW action PROVE Denied(p, q, action) <=> Denied(Denials, q, action)
  <2>. HIDE DEF few
  <2>1. ASSUME Denied(p, q, action) PROVE Denied(Denials, q, action)
    <3>1. PICK j \in 1..n : Matching(s[j], q, action) /\ s[j].effect = "deny"
      BY <2>1 DEF Denied
    <3>2. s[j] \in Denying
      BY <1>0, <3>1 DEF Rules
    <3>3. PICK i \in 1..Len(few) : few[i] = s[j]
      <4>. HIDE DEF n, s, Denying
      <4>. QED
        BY <1>5, <3>2 DEF Selected
    <3>. HIDE DEF s, n, Denials
    <3>. QED
      BY <1>2, <3>1, <3>3 DEF Denied
  <2>2. ASSUME Denied(Denials, q, action) PROVE Denied(p, q, action)
    <3>1. PICK i \in 1..Len(few) : Matching(few[i], q, action) /\ few[i].effect = "deny"
      <4>. HIDE DEF Denials
      <4>. QED
        BY <1>2, <2>2 DEF Denied
    <3>2. PICK j \in 1..n : few[i] = s[j]
      <4>. HIDE DEF n, s, Denying
      <4>. QED
        BY <1>5 DEF Selected
    <3>. QED
      BY <3>1, <3>2 DEF Denied
  <2>. QED
    BY <2>1, <2>2
<1>7. Evaluated(p, q) = Evaluated(Reversed, q)
  <2>. HIDE DEF Reversed
  <2>. QED
    BY <1>1, <1>4, DecidedByDenials
<1>8. Evaluated(p, q) = Evaluated(Denials, q)
  <2>. HIDE DEF Denials
  <2>. QED
    BY <1>2, <1>6, DecidedByDenials
<1>. QED
  BY <1>7, <1>8, Zenon

\* An answer is the evaluation of the question that was asked.
PolicyInv ==
    decision # "none" => policy \in Policies /\ question \in Questions /\ decision = Evaluated(policy, question)

\* A matching deny wins over every allow, wherever it stands, for every policy and every
\* question: the order of the rules does not matter, and neither do the allow rules.
THEOREM DenyAlwaysWins ==
    ASSUME PolicyAssumption
    PROVE  PolSpec => []DenyWins
<1>1. PolInit => PolicyInv
  BY DEF PolInit, PolicyInv
<1>2. PolicyInv /\ [PolNext]_plvars => PolicyInv'
  <2>. SUFFICES ASSUME PolicyInv, [PolNext]_plvars PROVE PolicyInv'
    OBVIOUS
  <2>1. CASE PolNext
    BY <2>1 DEF PolNext, Evaluate, PolicyInv
  <2>2. CASE UNCHANGED plvars
    BY <2>2 DEF plvars, PolicyInv
  <2>. QED
    BY <2>1, <2>2
<1>3. PolicyInv => DenyWins
  <2>. SUFFICES ASSUME PolicyInv, decision # "none" PROVE DenyWins
    BY DEF DenyWins
  <2>1. /\ {"lists", "models", "providers", "side", "approval", "rules"} \subseteq DOMAIN policy
        /\ policy.rules \in Seq(Rules(policy)) /\ decision = Evaluated(policy, question)
    BY PolicyAssumption DEF PolicyInv, PolicyAssumption
  <2>. QED
    BY <2>1, OrderAndAllowsIrrelevant, Zenon DEF DenyWins
<1>. QED
  BY <1>1, <1>2, <1>3, PTL DEF PolSpec

------------------------------------------------------------------------------
(* The process entry point.                                                 *)

\* A stage was left without a BootstrapError, and what it constructed is noted.
Constructed(n) ==
    /\ Builder(n) # "error"
    /\ n \in Resources /\ Builder(n) # "none" => n \in DOMAIN built

Configurable ==
    "error" \notin {ResolveDefinitionConfig(deployment), RuntimeName(deployment), CredentialBindings(deployment)}

ReadyRequest == [left : Seq(Stages), bad : BOOLEAN, met : BOOLEAN, answer : {"none", "waiting", "ready", "unready"}]

\* The types of the process, and what holds of its resources throughout.
ProcShape ==
    /\ phase \in {"resolve", "build", "start", "app", "serve", "close", "exited", "aborted"}
    /\ cause \in {"none", "resolve", "build", "init", "check", "tools", "policy", "app", "close"}
    /\ todo \in Seq(Stages)
    /\ DOMAIN built \subseteq {n \in Resources : Builder(n) # "none"}
    /\ \A n \in DOMAIN built : built[n] = Builder(n)
    /\ open \subseteq DOMAIN built
    /\ passed \subseteq Resources
    /\ health \in [DOMAIN health -> {"healthy", "unhealthy"}]
    /\ ready \in [ReadyReqs -> ReadyRequest]

\* What each phase of run() finds done by the ones before it.
ProcStaged ==
    /\ phase \notin {"resolve", "aborted"} => Configurable
    /\ phase = "build" => \A n \in Stages : n \in Members(todo) \/ Constructed(n)
    /\ phase \in {"start", "app", "serve", "close"} => \A n \in Stages : Constructed(n)
    /\ phase \in {"start", "app", "serve"} =>
          \A n \in DOMAIN built \ {"exchange", "audit"} :
              n \in passed \/ built[n] = "native" \/ (phase = "start" /\ n \in Members(todo))
    /\ phase = "serve" => ~AppRefused
    /\ phase = "close" => \A n \in open : n = "audit" \/ \E m \in Members(todo) : n \in Closes(m)
    /\ AllClosed
    /\ LateRefusal

\* A request that waits alone has noted exactly the failures of the probes it ran.
ProcReady ==
    /\ phase \in {"app", "serve"} => DOMAIN health = Members(Probes)
    /\ \A r \in ReadyReqs : ready[r].answer = "waiting" =>
          /\ phase = "serve"
          /\ NoRepeats(ready[r].left)
          /\ Members(ready[r].left) \subseteq DOMAIN health
          /\ \A o \in ReadyReqs : ready[o].answer = "waiting" /\ o # r => ready[r].met
          /\ ~ready[r].met => (ready[r].bad <=> \E n \in DOMAIN health \ Members(ready[r].left) : health[n] = "unhealthy")
    /\ ReadyHonest

ProcInv == ProcShape /\ ProcStaged /\ ProcReady

\* What a deployment determines does not change.
LEMMA DeploymentFixed ==
    ASSUME deployment' = deployment
    PROVE  /\ \A n \in Stages : Builder(n)' = Builder(n)
           /\ Google' = Google /\ AppRefused' = AppRefused /\ Configurable' = Configurable
  BY DEF Builder, Google, AppRefused, Configurable

\* The elements of two sequences, one after the other.
LEMMA MembersConcat ==
    ASSUME NEW A, NEW s \in Seq(A), NEW t \in Seq(A)
    PROVE  s \o t \in Seq(A) /\ Members(s \o t) = Members(s) \cup Members(t)
<1>1. /\ s \o t \in Seq(A) /\ Len(s \o t) = Len(s) + Len(t) /\ Len(s) \in Nat /\ Len(t) \in Nat
      /\ \A i \in 1..Len(s) : (s \o t)[i] = s[i]
      /\ \A i \in Len(s) + 1..Len(s) + Len(t) : (s \o t)[i] = t[i - Len(s)]
  OBVIOUS
<1>. DEFINE u == s \o t
<1>. HIDE DEF u
<1>2. ASSUME NEW i \in 1..Len(u) PROVE u[i] \in Members(s) \cup Members(t)
  <2>1. CASE i \in 1..Len(s)
    BY <1>1, <2>1 DEF Members, u
  <2>2. CASE i \notin 1..Len(s)
    <3>1. i \in Len(s) + 1..Len(s) + Len(t) /\ i - Len(s) \in 1..Len(t)
      BY <1>1, <2>2 DEF u
    <3>. QED
      BY <1>1, <3>1 DEF Members, u
  <2>. QED
    BY <2>1, <2>2
<1>3. ASSUME NEW i \in 1..Len(s) PROVE s[i] \in Members(u)
  <2>1. i \in 1..Len(u) /\ u[i] = s[i]
    BY <1>1 DEF u
  <2>. QED
    BY <2>1 DEF Members
<1>4. ASSUME NEW i \in 1..Len(t) PROVE t[i] \in Members(u)
  <2>1. Len(s) + i \in Len(s) + 1..Len(s) + Len(t) /\ Len(s) + i \in 1..Len(u) /\ (Len(s) + i) - Len(s) = i
    BY <1>1 DEF u
  <2>2. u[Len(s) + i] = t[i]
    BY <1>1, <2>1 DEF u
  <2>. QED
    BY <2>1, <2>2 DEF Members
<1>5. Members(u) = Members(s) \cup Members(t)
  BY <1>2, <1>3, <1>4 DEF Members
<1>. QED
  BY <1>1, <1>5 DEF u

\* Every stage is built.
LEMMA EveryStageBuilt == BuildOrder \in Seq(Stages) /\ Members(BuildOrder) = Stages
<1>. DEFINE a == <<"exchange", "mcp", "tools", "policy", "knowledge", "audit", "model">>
            b == <<"approvals", "session", "memory", "operations">>
            c == <<"session", "memory", "operations", "approvals">>
<1>1. a \in Seq(Stages) /\ b \in Seq(Stages) /\ c \in Seq(Stages)
  BY DEF Stages, Resources
<1>2. Members(a) = {"exchange", "mcp", "tools", "policy", "knowledge", "audit", "model"}
  <2>1. 1..Len(a) = {1, 2, 3, 4, 5, 6, 7}
    OBVIOUS
  <2>. QED
    BY <2>1 DEF Members
<1>3. Members(b) = {"approvals", "session", "memory", "operations"}
  <2>1. 1..Len(b) = {1, 2, 3, 4}
    OBVIOUS
  <2>. QED
    BY <2>1 DEF Members
<1>4. Members(c) = {"approvals", "session", "memory", "operations"}
  <2>1. 1..Len(c) = {1, 2, 3, 4}
    OBVIOUS
  <2>. QED
    BY <2>1 DEF Members
<1>5. BuildOrder = a \o b \/ BuildOrder = a \o c
  BY DEF BuildOrder
<1>. HIDE DEF a, b, c
<1>6. /\ a \o b \in Seq(Stages) /\ Members(a \o b) = Members(a) \cup Members(b)
      /\ a \o c \in Seq(Stages) /\ Members(a \o c) = Members(a) \cup Members(c)
  BY <1>1, MembersConcat
<1>7. Stages = {"exchange", "mcp", "tools", "policy", "knowledge", "audit", "model"}
               \cup {"approvals", "session", "memory", "operations"}
  BY DEF Stages, Resources
<1>8. CASE BuildOrder = a \o b
  BY <1>2, <1>3, <1>6, <1>7, <1>8
<1>9. CASE BuildOrder = a \o c
  BY <1>2, <1>4, <1>6, <1>7, <1>9
<1>. QED
  BY <1>5, <1>8, <1>9

\* Every resource but the token exchange and the audit sink is checked at startup.
LEMMA EveryResourceChecked ==
    /\ AdkStartOrder \in Seq(Stages) /\ Members(AdkStartOrder) = Stages \ {"exchange", "audit"}
    /\ GoogleStartOrder \in Seq(Stages) /\ Members(GoogleStartOrder) = Stages \ {"exchange", "audit", "approvals"}
<1>1. AdkStartOrder \in Seq(Stages) /\ Len(AdkStartOrder) = 10
  BY DEF AdkStartOrder, Stages, Resources
<1>2. 1..10 = {1, 2, 3, 4, 5, 6, 7, 8, 9, 10}
  OBVIOUS
<1>3. Members(AdkStartOrder) = {"model", "session", "memory", "operations", "approvals", "knowledge", "tools", "policy", "mcp"}
  BY <1>1, <1>2 DEF Members, AdkStartOrder
<1>4. GoogleStartOrder \in Seq(Stages) /\ Len(GoogleStartOrder) = 8
  BY DEF GoogleStartOrder, Stages, Resources
<1>5. 1..8 = {1, 2, 3, 4, 5, 6, 7, 8}
  OBVIOUS
<1>6. Members(GoogleStartOrder) = {"model", "session", "operations", "memory", "knowledge", "tools", "policy", "mcp"}
  BY <1>4, <1>5 DEF Members, GoogleStartOrder
<1>. QED
  BY <1>1, <1>3, <1>4, <1>6 DEF Stages, Resources

\* No probe is asked twice.
LEMMA ProbesDiffer ==
    /\ AdkProbes \in Seq(Stages) /\ NoRepeats(AdkProbes)
    /\ GoogleProbes \in Seq(Stages) /\ NoRepeats(GoogleProbes)
<1>1. AdkProbes \in Seq(Stages) /\ Len(AdkProbes) = 7
  BY DEF AdkProbes, Stages, Resources
<1>2. GoogleProbes \in Seq(Stages) /\ Len(GoogleProbes) = 5
  BY DEF GoogleProbes, Stages, Resources
<1>3. NoRepeats(AdkProbes)
  <2>1. 1..7 = {1, 2, 3, 4, 5, 6, 7}
    OBVIOUS
  <2>. QED
    BY <1>1, <2>1 DEF NoRepeats, AdkProbes
<1>4. NoRepeats(GoogleProbes)
  <2>1. 1..5 = {1, 2, 3, 4, 5}
    OBVIOUS
  <2>. QED
    BY <1>2, <2>1 DEF NoRepeats, GoogleProbes
<1>. QED
  BY <1>1, <1>2, <1>3, <1>4

\* Every resource but the token exchange and the audit sink is closed by name.
LEMMA EveryResourceClosed ==
    /\ AdkCloseOrder \in Seq(Stages) /\ Members(AdkCloseOrder) = Resources \ {"exchange", "audit"}
    /\ GoogleCloseOrder \in Seq(Stages) /\ Members(GoogleCloseOrder) = Resources \ {"exchange", "audit", "approvals"}
<1>1. AdkCloseOrder \in Seq(Stages) /\ Len(AdkCloseOrder) = 7
  BY DEF AdkCloseOrder, Stages, Resources
<1>2. 1..7 = {1, 2, 3, 4, 5, 6, 7}
  OBVIOUS
<1>3. Members(AdkCloseOrder) = {"model", "session", "memory", "operations", "approvals", "knowledge", "mcp"}
  BY <1>1, <1>2 DEF Members, AdkCloseOrder
<1>4. GoogleCloseOrder \in Seq(Stages) /\ Len(GoogleCloseOrder) = 6
  BY DEF GoogleCloseOrder, Stages, Resources
<1>5. 1..6 = {1, 2, 3, 4, 5, 6}
  OBVIOUS
<1>6. Members(GoogleCloseOrder) = {"model", "mcp", "memory", "knowledge", "session", "operations"}
  BY <1>4, <1>5 DEF Members, GoogleCloseOrder
<1>. QED
  BY <1>1, <1>3, <1>4, <1>6 DEF Resources

\* The probes and the lists of start() and close() with what is not configured left out.
LEMMA ProbesKnown == Probes \in Seq(Stages) /\ NoRepeats(Probes)
<1>. DEFINE s == IF Google THEN GoogleProbes ELSE AdkProbes
            t == Configured(s)
<1>1. s \in Seq(Stages) /\ NoRepeats(s)
  BY ProbesDiffer
<1>2. t \in Seq(Stages) /\ NoRepeats(t)
  BY <1>1, FilteredMembers DEF Configured
<1>. HIDE DEF t
<1>3. Probed(t) \in Seq(Stages) /\ NoRepeats(Probed(t))
  BY <1>2, FilteredMembers DEF Probed
<1>. QED
  BY <1>3 DEF Probes, t

\* start() checks every resource that is there, except a native model.
LEMMA StartChecksKnown ==
    /\ Probed(StartChecks) \in Seq(Stages)
    /\ \A n \in DOMAIN built \cap Members(IF Google THEN GoogleStartOrder ELSE AdkStartOrder) :
          n \in Members(Probed(StartChecks)) \/ (n = "model" /\ built[n] = "native")
<1>. DEFINE s == IF Google THEN GoogleStartOrder ELSE AdkStartOrder
            t == Configured(s)
<1>1. s \in Seq(Stages)
  BY EveryResourceChecked
<1>2. t \in Seq(Stages) /\ Members(t) = Members(s) \cap ({"tools", "policy"} \cup DOMAIN built)
  BY <1>1, FilteredMembers DEF Configured
<1>3. Members(t) \subseteq Stages
  BY <1>2 DEF Members
<1>. HIDE DEF t
<1>4. /\ Probed(t) \in Seq(Stages)
      /\ Members(Probed(t)) = Members(t) \cap (IF built["model"] = "native" THEN Stages \ {"model"} ELSE Stages)
  BY <1>2, FilteredMembers DEF Probed
<1>5. StartChecks = t
  BY DEF StartChecks, t
<1>. HIDE DEF s
<1>6. \A n \in DOMAIN built \cap Members(s) :
          n \in Members(Probed(t)) \/ (n = "model" /\ built[n] = "native")
  BY <1>2, <1>3, <1>4
<1>. QED
  BY <1>4, <1>5, <1>6 DEF s

\* The close order has every resource that is there.
LEMMA CloseOrderKnown ==
    /\ CloseOrder \in Seq(Stages)
    /\ DOMAIN built \cap Members(IF Google THEN GoogleCloseOrder ELSE AdkCloseOrder) \subseteq Members(CloseOrder)
<1>. DEFINE s == IF Google THEN GoogleCloseOrder ELSE AdkCloseOrder
<1>1. s \in Seq(Stages)
  BY EveryResourceClosed
<1>. HIDE DEF s
<1>2. Configured(s) \in Seq(Stages) /\ Members(Configured(s)) = Members(s) \cap ({"tools", "policy"} \cup DOMAIN built)
  BY <1>1, FilteredMembers DEF Configured
<1>. QED
  BY <1>2 DEF CloseOrder, s

-----------------------------------------------------------------------------
\* A process that has not begun.
LEMMA ProcStarts == ASSUME ProcInit PROVE ProcInv
<1>1. todo = <<>> /\ DOMAIN built = {} /\ DOMAIN health = {} /\ open = {} /\ passed = {}
  BY DEF ProcInit
<1>2. ready \in [ReadyReqs -> ReadyRequest] /\ \A r \in ReadyReqs : ready[r].answer = "none"
  BY DEF ProcInit, NoRequest, ReadyRequest
<1>3. health \in [DOMAIN health -> {"healthy", "unhealthy"}]
  BY <1>1 DEF ProcInit
<1>4. ProcShape
  BY <1>1, <1>2, <1>3 DEF ProcInit, ProcShape
<1>5. ProcStaged
  BY DEF ProcInit, ProcStaged, AllClosed, LateRefusal
<1>6. ProcReady
  BY <1>2 DEF ProcInit, ProcReady, ReadyHonest
<1>. QED
  BY <1>4, <1>5, <1>6 DEF ProcInv

\* An exception that ends the process outside the serving phase; the application is
\* refused late only for the two reasons.
LEMMA AbortKeeps ==
    ASSUME ProcInv, NEW c \in {"resolve", "build", "init", "check", "tools", "policy", "app", "close"}, Abort(c),
           phase # "serve",
           c = "app" => \/ Built("audit") \in {"file", "sqlite"}
                        \/ deployment.identity /\ deployment.auth.mode = "none"
    PROVE  ProcInv'
<1>1. /\ phase' = "aborted" /\ cause' = c /\ todo' = <<>>
      /\ UNCHANGED <<deployment, open, built, passed, health, ready>>
  BY DEF Abort
<1>2. \A n \in Stages : Builder(n)' = Builder(n)
  BY <1>1, DeploymentFixed
<1>3. ProcShape'
  BY <1>1, <1>2 DEF ProcInv, ProcShape, Stages
<1>4. Built("audit")' = Built("audit")
  BY <1>1 DEF Built
<1>5. ProcStaged'
  BY <1>1, <1>4 DEF ProcStaged, AllClosed, LateRefusal
<1>6. ProcReady'
  BY <1>1 DEF ProcInv, ProcReady, ReadyHonest
<1>. QED
  BY <1>3, <1>5, <1>6 DEF ProcInv

\* The definition is resolved, or the process ends without a resource.
LEMMA ResolveKeeps == ASSUME ProcInv, Resolve PROVE ProcInv'
<1>1. CASE Abort("resolve")
  BY <1>1, AbortKeeps DEF Resolve
<1>2. CASE /\ Configurable /\ phase' = "build" /\ todo' = BuildOrder
           /\ UNCHANGED <<deployment, open, built, passed, health, ready, cause>>
  <2>1. \A n \in Stages : Builder(n)' = Builder(n)
    BY <1>2, DeploymentFixed
  <2>2. ProcShape'
    BY <1>2, <2>1, EveryStageBuilt DEF ProcInv, ProcShape, Stages
  <2>3. Configurable'
    BY <1>2, DeploymentFixed
  <2>4. Members(todo') = Stages
    BY <1>2, EveryStageBuilt
  <2>5. ProcStaged'
    BY <1>2, <2>3, <2>4 DEF ProcStaged, AllClosed, LateRefusal
  <2>6. ProcReady'
    BY <1>2 DEF ProcInv, ProcReady, ReadyHonest, Resolve
  <2>. QED
    BY <2>2, <2>5, <2>6 DEF ProcInv
<1>. QED
  BY <1>1, <1>2 DEF Resolve, Configurable

\* A stage is built, or the build is aborted and what is open is closed.
LEMMA BuildKeeps == ASSUME ProcInv, Build \/ AuditFileFails PROVE ProcInv'
<1>1. CASE Abort("build")
  BY <1>1, AbortKeeps DEF Build, AuditFileFails
<1>2. CASE Build /\ ~Abort("build")
  <2>. DEFINE n == Head(todo)
              b == Builder(n)
  <2>1. /\ phase = "build" /\ todo # <<>> /\ b # "error" /\ todo' = Tail(todo)
        /\ open' = IF Held(n, b) THEN open \cup {n} ELSE open
        /\ built' = IF n \in Resources /\ b # "none" THEN [m \in DOMAIN built \cup {n} |-> Builder(m)] ELSE built
        /\ UNCHANGED <<deployment, phase, passed, health, ready, cause>>
    BY <1>2 DEF Build
  <2>2. n \in Stages /\ todo' \in Seq(Stages) /\ Members(todo) = {n} \cup Members(todo')
    BY <2>1, MembersPop DEF ProcInv, ProcShape
  <2>3. \A m \in Stages : Builder(m)' = Builder(m)
    BY <2>1, DeploymentFixed
  <2>. HIDE DEF n, b
  <2>4. /\ DOMAIN built' = IF n \in Resources /\ b # "none" THEN DOMAIN built \cup {n} ELSE DOMAIN built
        /\ \A m \in DOMAIN built' : built'[m] = Builder(m)
    BY <2>1 DEF ProcInv, ProcShape
  <2>5. open' \subseteq DOMAIN built'
    BY <2>1, <2>4 DEF ProcInv, ProcShape, Held
  <2>6. ProcShape'
    BY <2>1, <2>2, <2>3, <2>4, <2>5 DEF ProcInv, ProcShape, Stages, b
  <2>7. \A m \in Stages : m \in Members(todo') \/ Constructed(m)'
    BY <2>1, <2>2, <2>3, <2>4 DEF ProcInv, ProcStaged, Constructed, Stages, b
  <2>8. ProcStaged'
    BY <2>1, <2>7, DeploymentFixed DEF ProcInv, ProcStaged, AllClosed, LateRefusal
  <2>9. ProcReady'
    BY <2>1 DEF ProcInv, ProcReady, ReadyHonest
  <2>. QED
    BY <2>6, <2>8, <2>9 DEF ProcInv
<1>. QED
  BY <1>1, <1>2 DEF Build, AuditFileFails

\* A step of start() that leaves everything but the list of checks and what has passed.
LEMMA CheckKeeps ==
    ASSUME ProcInv, phase = "start", todo # <<>>, todo' = Tail(todo),
           passed' = passed \/ (Head(todo) \in Resources /\ passed' = passed \cup {Head(todo)}),
           Head(todo) \notin {"tools", "policy"} => Head(todo) \in passed',
           UNCHANGED <<deployment, phase, open, built, health, ready, cause>>
    PROVE  ProcInv'
<1>1. Head(todo) \in Stages /\ todo' \in Seq(Stages) /\ Members(todo) = {Head(todo)} \cup Members(todo')
  BY MembersPop DEF ProcInv, ProcShape
<1>2. /\ \A m \in Stages : Builder(m)' = Builder(m)
      /\ Configurable' = Configurable
  BY DeploymentFixed
<1>3. ProcShape'
  BY <1>1, <1>2 DEF ProcInv, ProcShape, Stages
<1>4. \A m \in Stages : Constructed(m) => Constructed(m)'
  BY <1>2 DEF Constructed
<1>5. \A m \in DOMAIN built \ {"exchange", "audit"} :
          m \in passed' \/ built[m] = "native" \/ m \in Members(todo')
  BY <1>1 DEF ProcInv, ProcStaged, ProcShape, Resources
<1>6. ProcStaged'
  BY <1>2, <1>4, <1>5 DEF ProcInv, ProcStaged, AllClosed, LateRefusal
<1>7. ProcReady'
  BY DEF ProcInv, ProcReady, ReadyHonest
<1>. QED
  BY <1>3, <1>6, <1>7 DEF ProcInv

\* A check of start() passes or refuses the start.
LEMMA StartKeeps == ASSUME ProcInv, CheckPasses \/ CheckFails \/ Negotiate \/ CheckPolicy PROVE ProcInv'
<1>1. CASE phase = "start" /\ (Abort("check") \/ Abort("tools") \/ Abort("policy"))
  BY <1>1, AbortKeeps
<1>2. CASE CheckPasses
  <2>1. Head(todo) \in Resources
    <3>1. todo # <<>> /\ todo \in Seq(Stages) /\ Head(todo) \notin {"tools", "policy"}
      BY <1>2 DEF CheckPasses, ProcInv, ProcShape
    <3>2. Head(todo) \in Stages
      BY <3>1
    <3>. QED
      BY <3>1, <3>2 DEF Stages
  <2>. QED
    BY <1>2, <2>1, CheckKeeps DEF CheckPasses
<1>3. CASE (Negotiate \/ CheckPolicy) /\ phase' = "start"
  BY <1>3, CheckKeeps DEF Negotiate, CheckPolicy, Abort
<1>. QED
  BY <1>1, <1>2, <1>3 DEF CheckFails, Negotiate, CheckPolicy

\* The Google adapter has no approval store.
LEMMA GoogleApprovals ==
    ASSUME Google, Constructed("approvals")
    PROVE  Builder("approvals") = "none"
  BY DEF Google, Constructed, Builder, ApprovalStore

\* What is constructed is checked when the process starts, except a native model.
LEMMA StartupKeeps == ASSUME ProcInv, Startup PROVE ProcInv'
<1>1. CASE Abort("init")
  BY <1>1, AbortKeeps DEF Startup
<1>2. CASE Startup /\ ~Abort("init")
  <2>1. /\ phase = "build" /\ todo = <<>> /\ phase' = "start" /\ todo' = Probed(StartChecks)
        /\ UNCHANGED <<deployment, open, built, passed, health, ready, cause>>
    BY <1>2 DEF Startup
  <2>2. \A n \in Stages : Builder(n)' = Builder(n) /\ Constructed(n)
    BY <2>1, DeploymentFixed, MembersEmpty DEF ProcInv, ProcStaged
  <2>3. ProcShape'
    BY <2>1, <2>2, StartChecksKnown DEF ProcInv, ProcShape, Stages
  <2>4. \A n \in Stages : Constructed(n)'
    BY <2>1, <2>2 DEF Constructed
  <2>5. ASSUME NEW n \in DOMAIN built \ {"exchange", "audit"} PROVE built[n] = "native" \/ n \in Members(todo')
    <3>1. n \in Resources /\ Builder(n) # "none"
      BY DEF ProcInv, ProcShape
    <3>2. n \in Members(IF Google THEN GoogleStartOrder ELSE AdkStartOrder)
      <4>1. CASE Google
        <5>1. n # "approvals"
          BY <2>2, <3>1, <4>1, GoogleApprovals DEF Stages
        <5>. QED
          BY <3>1, <4>1, <5>1, EveryResourceChecked DEF Stages
      <4>2. CASE ~Google
        BY <3>1, <4>2, EveryResourceChecked DEF Stages
      <4>. QED
        BY <4>1, <4>2
    <3>. QED
      BY <2>1, <3>2, StartChecksKnown
  <2>6. ProcStaged'
    BY <2>1, <2>4, <2>5, DeploymentFixed DEF ProcInv, ProcStaged, AllClosed, LateRefusal
  <2>7. ProcReady'
    BY <2>1 DEF ProcInv, ProcReady, ReadyHonest
  <2>. QED
    BY <2>3, <2>6, <2>7 DEF ProcInv
<1>. QED
  BY <1>1, <1>2 DEF Startup

\* The probes depend on the deployment and on what is built.
LEMMA ProbesFixed ==
    ASSUME UNCHANGED <<deployment, built>>
    PROVE  Probes' = Probes
<1>1. Google' = Google /\ built' = built
  BY DeploymentFixed
<1>. QED
  BY <1>1 DEF Probes, Probed, Configured

\* The runtime has started: the probes of the health service are known.
LEMMA StartedKeeps == ASSUME ProcInv, Started PROVE ProcInv'
<1>1. /\ phase = "start" /\ todo = <<>> /\ phase' = "app"
      /\ health' = [n \in Members(Probes) |-> "healthy"]
      /\ UNCHANGED <<deployment, todo, open, built, passed, ready, cause>>
  BY DEF Started, Members
<1>2. /\ \A n \in Stages : Builder(n)' = Builder(n)
      /\ \A n \in Stages : Constructed(n)' = Constructed(n)
      /\ Configurable' = Configurable /\ Probes' = Probes
  BY <1>1, DeploymentFixed, ProbesFixed DEF Constructed
<1>3. ProcShape'
  <2>1. DOMAIN health' = Members(Probes) /\ health' \in [DOMAIN health' -> {"healthy", "unhealthy"}]
    BY <1>1
  <2>. QED
    BY <1>1, <1>2, <2>1 DEF ProcInv, ProcShape, Stages
<1>4. Members(todo) = {}
  BY <1>1, MembersEmpty
<1>5. ProcStaged'
  BY <1>1, <1>2, <1>4 DEF ProcInv, ProcStaged, AllClosed, LateRefusal
<1>6. ProcReady'
  <2>1. DOMAIN health' = Members(Probes')
    BY <1>1, <1>2
  <2>2. \A r \in ReadyReqs : ready[r].answer # "waiting"
    BY <1>1 DEF ProcInv, ProcReady
  <2>. QED
    BY <1>1, <2>1, <2>2 DEF ProcInv, ProcReady, ReadyHonest
<1>. QED
  BY <1>3, <1>5, <1>6 DEF ProcInv

\* What validate_config() accepts, create_app() refuses for one reason only.
LEMMA RefusedLate ==
    ASSUME Configurable, AppRefused
    PROVE  deployment.identity /\ deployment.auth.mode = "none"
<1>1. ValidateConfig(deployment)
  BY DEF Configurable, ResolveDefinitionConfig
<1>2. Authenticator(deployment) # "error"
  BY <1>1 DEF ValidateConfig, AuthErrors, Authenticator
<1>3. AuditSink(deployment) # "error"
  BY <1>1 DEF ValidateConfig, AuditErrors, AuditSink
<1>4. ~ \E l \in deployment.limits : l < 1
  BY <1>1 DEF ValidateConfig, LimitErrors
<1>5. ~OriginsRefused(deployment)
  BY <1>1 DEF ValidateConfig, OriginErrors, OriginsRefused
<1>6. deployment.identity /\ Authenticator(deployment) = "none"
  BY <1>2, <1>3, <1>4, <1>5 DEF AppRefused
<1>. QED
  BY <1>6 DEF Authenticator

\* The application is created or refuses the process.
LEMMA AppKeeps == ASSUME ProcInv, App PROVE ProcInv'
<1>1. CASE Abort("app") /\ AppRefused
  BY <1>1, AbortKeeps, RefusedLate DEF App, ProcInv, ProcStaged
<1>2. CASE Abort("app") /\ AuditSink(deployment) \in {"file", "sqlite"}
  <2>1. Constructed("audit") /\ Builder("audit") = AuditSink(deployment) /\ phase = "app"
    <3>1. phase = "app" /\ "audit" \in Stages
      BY DEF App, Stages, Resources
    <3>. QED
      BY <3>1 DEF ProcInv, ProcStaged, Builder
  <2>2. Built("audit") \in {"file", "sqlite"}
    BY <1>2, <2>1 DEF Constructed, Resources, Built, ProcInv, ProcShape
  <2>. QED
    BY <1>2, <2>1, <2>2, AbortKeeps
<1>3. CASE /\ phase = "app" /\ ~AppRefused /\ phase' = "serve"
           /\ UNCHANGED <<deployment, todo, open, built, passed, health, ready, cause>>
  <2>2. /\ \A n \in Stages : Builder(n)' = Builder(n)
        /\ \A n \in Stages : Constructed(n)' = Constructed(n)
        /\ Configurable' = Configurable /\ Probes' = Probes /\ AppRefused' = AppRefused
    BY <1>3, DeploymentFixed, ProbesFixed DEF Constructed
  <2>3. ProcShape'
    BY <1>3, <2>2 DEF ProcInv, ProcShape, Stages
  <2>4. ProcStaged'
    BY <1>3, <2>2 DEF ProcInv, ProcStaged, AllClosed, LateRefusal
  <2>5. ProcReady'
    BY <1>3, <2>2 DEF ProcInv, ProcReady, ReadyHonest
  <2>. QED
    BY <2>3, <2>4, <2>5 DEF ProcInv
<1>. QED
  BY <1>1, <1>2, <1>3 DEF App

\* A step of a readiness request touches the statuses and the requests only.
LEMMA ServingKeeps ==
    ASSUME ProcInv, phase = "serve", UNCHANGED <<deployment, phase, todo, open, built, passed, cause>>,
           DOMAIN health' = DOMAIN health, health' \in [DOMAIN health -> {"healthy", "unhealthy"}],
           ready' \in [ReadyReqs -> ReadyRequest]
    PROVE  ProcShape' /\ ProcStaged' /\ DOMAIN health' = Members(Probes')
<1>1. /\ \A n \in Stages : Builder(n)' = Builder(n)
      /\ \A n \in Stages : Constructed(n)' = Constructed(n)
      /\ Configurable' = Configurable /\ Probes' = Probes /\ AppRefused' = AppRefused
  BY DeploymentFixed, ProbesFixed DEF Constructed
<1>2. ProcShape'
  BY <1>1 DEF ProcInv, ProcShape, Stages
<1>3. ProcStaged'
  BY <1>1 DEF ProcInv, ProcStaged, AllClosed, LateRefusal
<1>. QED
  BY <1>1, <1>2, <1>3 DEF ProcInv, ProcReady

\* A request that others overlap is marked, and so are they.
LEMMA AskKeeps == ASSUME ProcInv, NEW r \in ReadyReqs, Ask(r) PROVE ProcInv'
<1>. DEFINE others == {o \in ReadyReqs : ready[o].answer = "waiting"}
            mine == [left |-> Probes, bad |-> FALSE, met |-> others # {}, answer |-> "waiting"]
<1>0. phase = "serve" /\ ready[r].answer # "waiting"
      /\ UNCHANGED <<deployment, phase, todo, open, built, passed, health, cause>>
  BY DEF Ask
<1>1. ready' = [o \in ReadyReqs |-> IF o = r THEN mine
                                    ELSE IF o \in others THEN [ready[o] EXCEPT !.met = TRUE] ELSE ready[o]]
  BY DEF Ask
<1>2. mine \in ReadyRequest
  <2>1. (others # {}) \in BOOLEAN
    OBVIOUS
  <2>. QED
    BY <2>1, ProbesKnown DEF ReadyRequest
<1>3. ready \in [ReadyReqs -> ReadyRequest]
  BY DEF ProcInv, ProcShape
<1>4. \A o \in ReadyReqs : o \in others => [ready[o] EXCEPT !.met = TRUE] \in ReadyRequest
  BY <1>3 DEF ReadyRequest
<1>5. ready' \in [ReadyReqs -> ReadyRequest]
  <2>. HIDE DEF mine
  <2>. QED
    BY <1>1, <1>2, <1>3, <1>4
<1>6. ProcShape' /\ ProcStaged' /\ DOMAIN health' = Members(Probes')
  <2>1. health \in [DOMAIN health -> {"healthy", "unhealthy"}]
    BY DEF ProcInv, ProcShape
  <2>. QED
    BY <1>0, <1>5, <2>1, ServingKeeps
<1>7. /\ ready'[r].answer = "waiting" /\ ready'[r].left = Probes /\ ~ready'[r].bad /\ (ready'[r].met <=> others # {})
  BY <1>1
<1>8. \A o \in ReadyReqs : o # r =>
          /\ ready'[o].answer = ready[o].answer /\ ready'[o].left = ready[o].left /\ ready'[o].bad = ready[o].bad
          /\ o \in others => ready'[o].met
          /\ o \notin others => ready'[o].met = ready[o].met
  BY <1>1, <1>3 DEF ReadyRequest
<1>. HIDE DEF mine
<1>9. DOMAIN health = Members(Probes) /\ NoRepeats(Probes)
  BY <1>0, ProbesKnown DEF ProcInv, ProcReady
<1>10. ASSUME NEW o \in ReadyReqs, ready'[o].answer = "waiting"
       PROVE  /\ NoRepeats(ready'[o].left)
              /\ Members(ready'[o].left) \subseteq DOMAIN health
              /\ \A p \in ReadyReqs : ready'[p].answer = "waiting" /\ p # o => ready'[o].met
              /\ ~ready'[o].met =>
                    (ready'[o].bad <=> \E n \in DOMAIN health \ Members(ready'[o].left) : health[n] = "unhealthy")
  <2>1. CASE o = r
    <3>1. ASSUME NEW p \in ReadyReqs, ready'[p].answer = "waiting", p # o PROVE ready'[o].met
      BY <1>7, <1>8, <2>1, <3>1
    <3>. QED
      BY <1>7, <1>9, <2>1, <3>1
  <2>2. CASE o # r
    <3>1. o \in others /\ ready'[o].met /\ ready'[o].left = ready[o].left
      BY <1>8, <1>10, <2>2
    <3>. QED
      BY <3>1 DEF ProcInv, ProcReady
  <2>. QED
    BY <2>1, <2>2
<1>11. ReadyHonest'
  <2>. SUFFICES ASSUME NEW o \in ReadyReqs, ready'[o].answer \in {"ready", "unready"}, ~ready'[o].met
                PROVE  (ready'[o].answer = "ready") = ~ready'[o].bad
    BY DEF ReadyHonest
  <2>1. o # r
    BY <1>7
  <2>2. ready'[o].answer = ready[o].answer /\ ready'[o].bad = ready[o].bad /\ ~ready[o].met
    BY <1>8, <2>1
  <2>. QED
    BY <2>2 DEF ProcInv, ProcReady, ReadyHonest
<1>12. ProcReady'
  BY <1>0, <1>6, <1>10, <1>11 DEF ProcReady
<1>. QED
  BY <1>6, <1>12 DEF ProcInv

\* A probe notes its outcome in the status and in the request.
LEMMA ProbeKeeps == ASSUME ProcInv, NEW r \in ReadyReqs, Probe(r) PROVE ProcInv'
<1>. DEFINE n == Head(ready[r].left)
<1>0. /\ ready[r].answer = "waiting" /\ ready[r].left # <<>>
      /\ UNCHANGED <<deployment, phase, todo, open, built, passed, cause>>
  BY DEF Probe
<1>1. PICK ok \in BOOLEAN : /\ health' = UpdateStatus(n, ok)
                            /\ ready' = [ready EXCEPT ![r].left = Tail(@), ![r].bad = @ \/ ~ok]
  BY DEF Probe
<1>2. /\ phase = "serve" /\ NoRepeats(ready[r].left) /\ Members(ready[r].left) \subseteq DOMAIN health
      /\ ready[r].left \in Seq(Stages) /\ ready[r] \in ReadyRequest /\ ready \in [ReadyReqs -> ReadyRequest]
      /\ health \in [DOMAIN health -> {"healthy", "unhealthy"}]
  BY <1>0 DEF ProcInv, ProcShape, ProcReady, ReadyRequest
<1>3. /\ Tail(ready[r].left) \in Seq(Stages)
      /\ Members(ready[r].left) = {n} \cup Members(Tail(ready[r].left))
      /\ n \notin Members(Tail(ready[r].left)) /\ NoRepeats(Tail(ready[r].left))
  BY <1>0, <1>2, MembersPop
<1>. HIDE DEF n
<1>4. /\ DOMAIN health' = DOMAIN health /\ health' \in [DOMAIN health -> {"healthy", "unhealthy"}]
      /\ n \in DOMAIN health /\ (health'[n] = "unhealthy" <=> ~ok)
      /\ \A m \in DOMAIN health : m # n => health'[m] = health[m]
  BY <1>1, <1>2, <1>3 DEF UpdateStatus
<1>5. /\ ready'[r].left = Tail(ready[r].left) /\ (ready'[r].bad <=> ready[r].bad \/ ~ok)
      /\ ready'[r].bad \in BOOLEAN
      /\ ready'[r].met = ready[r].met /\ ready'[r].answer = "waiting"
      /\ \A o \in ReadyReqs : o # r => ready'[o] = ready[o]
  BY <1>0, <1>1, <1>2 DEF ReadyRequest
<1>6. ready' \in [ReadyReqs -> ReadyRequest]
  <2>1. (ready[r].bad \/ ~ok) \in BOOLEAN
    OBVIOUS
  <2>2. [ready[r] EXCEPT !.left = Tail(ready[r].left), !.bad = ready[r].bad \/ ~ok] \in ReadyRequest
    BY <1>2, <1>3, <2>1 DEF ReadyRequest
  <2>3. ready' = [ready EXCEPT ![r] = [ready[r] EXCEPT !.left = Tail(ready[r].left), !.bad = ready[r].bad \/ ~ok]]
    BY <1>1, <1>2 DEF ReadyRequest
  <2>. QED
    BY <1>2, <2>2, <2>3
<1>7. ProcShape' /\ ProcStaged' /\ DOMAIN health' = Members(Probes')
  BY <1>0, <1>2, <1>4, <1>6, ServingKeeps
<1>8. ASSUME ~ready'[r].met
      PROVE  ready'[r].bad <=> \E m \in DOMAIN health \ Members(ready'[r].left) : health'[m] = "unhealthy"
  <2>1. ready[r].bad <=> \E m \in DOMAIN health \ Members(ready[r].left) : health[m] = "unhealthy"
    BY <1>0, <1>5, <1>8 DEF ProcInv, ProcReady
  <2>2. DOMAIN health \ Members(ready'[r].left) = {n} \cup (DOMAIN health \ Members(ready[r].left))
    BY <1>2, <1>3, <1>4, <1>5
  <2>3. \A m \in DOMAIN health \ Members(ready[r].left) : health'[m] = health[m]
    BY <1>3, <1>4
  <2>. QED
    BY <1>4, <1>5, <2>1, <2>2, <2>3
<1>9. ASSUME NEW o \in ReadyReqs, o # r, ready'[o].answer = "waiting" PROVE ready'[o].met
  BY <1>0, <1>5, <1>9 DEF ProcInv, ProcReady
<1>10. ASSUME NEW o \in ReadyReqs, ready'[o].answer = "waiting"
       PROVE  /\ NoRepeats(ready'[o].left)
              /\ Members(ready'[o].left) \subseteq DOMAIN health
              /\ \A p \in ReadyReqs : ready'[p].answer = "waiting" /\ p # o => ready'[o].met
              /\ ~ready'[o].met =>
                    (ready'[o].bad <=> \E m \in DOMAIN health \ Members(ready'[o].left) : health'[m] = "unhealthy")
  <2>1. CASE o = r
    <3>1. ASSUME NEW p \in ReadyReqs, ready'[p].answer = "waiting", p # r PROVE ready'[r].met
      BY <1>0, <1>5, <3>1 DEF ProcInv, ProcReady
    <3>. QED
      BY <1>2, <1>3, <1>5, <1>8, <2>1, <3>1
  <2>2. CASE o # r
    <3>1. ready'[o] = ready[o] /\ ready'[o].met
      BY <1>5, <1>9, <1>10, <2>2
    <3>. QED
      BY <1>10, <3>1 DEF ProcInv, ProcReady
  <2>. QED
    BY <2>1, <2>2
<1>11. ReadyHonest'
  BY <1>5 DEF ProcInv, ProcReady, ReadyHonest
<1>12. ProcReady'
  BY <1>0, <1>2, <1>4, <1>7, <1>10, <1>11 DEF ProcReady
<1>. QED
  BY <1>7, <1>12 DEF ProcInv

\* A request that ran alone answers from its own probes.
LEMMA AnswerKeeps == ASSUME ProcInv, NEW r \in ReadyReqs, AnswerReady(r) PROVE ProcInv'
<1>0. /\ ready[r].answer = "waiting" /\ ready[r].left = <<>>
      /\ ready' = [ready EXCEPT ![r].answer = CheckReadiness]
      /\ UNCHANGED <<deployment, phase, todo, open, built, passed, health, cause>>
  BY DEF AnswerReady
<1>1. /\ phase = "serve" /\ ready[r] \in ReadyRequest /\ ready \in [ReadyReqs -> ReadyRequest]
      /\ health \in [DOMAIN health -> {"healthy", "unhealthy"}]
  BY <1>0 DEF ProcInv, ProcShape, ProcReady
<1>2. CheckReadiness \in {"ready", "unready"}
      /\ (CheckReadiness = "unready" <=> \E n \in DOMAIN health : health[n] = "unhealthy")
  BY DEF CheckReadiness
<1>3. /\ ready'[r].answer = CheckReadiness /\ ready'[r].bad = ready[r].bad /\ ready'[r].met = ready[r].met
      /\ \A o \in ReadyReqs : o # r => ready'[o] = ready[o]
      /\ ready' \in [ReadyReqs -> ReadyRequest]
  BY <1>0, <1>1, <1>2 DEF ReadyRequest
<1>4. ProcShape' /\ ProcStaged' /\ DOMAIN health' = Members(Probes')
  BY <1>0, <1>1, <1>3, ServingKeeps
<1>5. Members(ready[r].left) = {}
  BY <1>0, MembersEmpty
<1>6. ~ready[r].met => (ready[r].bad <=> CheckReadiness = "unready")
  BY <1>0, <1>2, <1>5 DEF ProcInv, ProcReady
<1>7. ReadyHonest'
  <2>. SUFFICES ASSUME NEW o \in ReadyReqs, ready'[o].answer \in {"ready", "unready"}, ~ready'[o].met
                PROVE  (ready'[o].answer = "ready") = ~ready'[o].bad
    BY DEF ReadyHonest
  <2>1. CASE o = r
    BY <1>2, <1>3, <1>6, <2>1
  <2>2. CASE o # r
    BY <1>3, <2>2 DEF ProcInv, ProcReady, ReadyHonest
  <2>. QED
    BY <2>1, <2>2
<1>8. ASSUME NEW o \in ReadyReqs, ready'[o].answer = "waiting" PROVE o # r /\ ready'[o] = ready[o]
  BY <1>2, <1>3, <1>8
<1>9. ProcReady'
  <2>1. \A o \in ReadyReqs : ready'[o].answer = "waiting" => ready'[o] = ready[o]
    BY <1>8
  <2>. QED
    BY <1>0, <1>1, <1>4, <1>7, <2>1 DEF ProcInv, ProcReady
<1>. QED
  BY <1>4, <1>9 DEF ProcInv

\* Everything that is open when the server stops is closed by name, or with the MCP
\* manager, or is the audit sink.
LEMMA StopKeeps == ASSUME ProcInv, StopServing PROVE ProcInv'
<1>1. /\ phase = "serve" /\ phase' = "close" /\ todo' = CloseOrder
      /\ ready' = [r \in ReadyReqs |-> NoRequest]
      /\ UNCHANGED <<deployment, open, built, passed, health, cause>>
  BY DEF StopServing
<1>2. /\ \A n \in Stages : Builder(n)' = Builder(n) /\ Constructed(n)
      /\ \A n \in Stages : Constructed(n)' = Constructed(n)
      /\ Configurable' = Configurable
  BY <1>1, DeploymentFixed DEF Constructed, ProcInv, ProcStaged
<1>3. ready' \in [ReadyReqs -> ReadyRequest] /\ \A r \in ReadyReqs : ready'[r].answer = "none"
  BY <1>1 DEF NoRequest, ReadyRequest
<1>4. ProcShape'
  BY <1>1, <1>2, <1>3, CloseOrderKnown DEF ProcInv, ProcShape, Stages
<1>5. ASSUME NEW n \in open PROVE n = "audit" \/ \E m \in Members(todo') : n \in Closes(m)
  <2>1. n \in DOMAIN built /\ n \in Resources /\ Builder(n) # "none"
    BY DEF ProcInv, ProcShape
  <2>2. CASE n = "exchange"
    <3>1. deployment.mcp
      BY <2>1, <2>2 DEF Builder, TokenExchange
    <3>2. Constructed("mcp") /\ Builder("mcp") = McpManager(deployment)
      BY <1>2 DEF Stages, Resources, Builder
    <3>3. "mcp" \in DOMAIN built
      BY <3>1, <3>2 DEF Constructed, McpManager, Resources
    <3>4. "mcp" \in Members(todo')
      BY <1>1, <3>3, CloseOrderKnown, EveryResourceClosed DEF Resources
    <3>. QED
      BY <2>2, <3>4 DEF Closes
  <2>3. CASE n \notin {"exchange", "audit"}
    <3>1. Google => n # "approvals"
      BY <1>2, <2>1, GoogleApprovals DEF Stages
    <3>2. n \in Members(IF Google THEN GoogleCloseOrder ELSE AdkCloseOrder)
      BY <2>1, <2>3, <3>1, EveryResourceClosed
    <3>3. n \in Members(todo')
      BY <1>1, <2>1, <3>2, CloseOrderKnown
    <3>. QED
      BY <3>3 DEF Closes
  <2>. QED
    BY <2>2, <2>3
<1>6. ProcStaged'
  BY <1>1, <1>2, <1>5 DEF ProcInv, ProcStaged, AllClosed, LateRefusal
<1>7. ProcReady'
  BY <1>1, <1>3 DEF ProcReady, ReadyHonest
<1>. QED
  BY <1>4, <1>6, <1>7 DEF ProcInv

\* The resources are closed one after the other, and the process exits.
LEMMA CloseKeeps == ASSUME ProcInv, Close \/ Exit PROVE ProcInv'
<1>1. CASE Abort("close") /\ phase = "close"
  BY <1>1, AbortKeeps
<1>2. CASE /\ phase = "close" /\ todo # <<>> /\ open' = open \ Closes(Head(todo)) /\ todo' = Tail(todo)
           /\ UNCHANGED <<deployment, phase, built, passed, health, ready, cause>>
  <2>1. todo' \in Seq(Stages) /\ Members(todo) = {Head(todo)} \cup Members(todo')
    BY <1>2, MembersPop DEF ProcInv, ProcShape
  <2>2. /\ \A n \in Stages : Builder(n)' = Builder(n)
        /\ \A n \in Stages : Constructed(n)' = Constructed(n)
        /\ Configurable' = Configurable
    BY <1>2, DeploymentFixed DEF Constructed
  <2>3. ProcShape'
    BY <1>2, <2>1, <2>2 DEF ProcInv, ProcShape, Stages
  <2>4. \A n \in open' : n = "audit" \/ \E m \in Members(todo') : n \in Closes(m)
    BY <1>2, <2>1 DEF ProcInv, ProcStaged
  <2>5. ProcStaged'
    BY <1>2, <2>2, <2>4 DEF ProcInv, ProcStaged, AllClosed, LateRefusal, Closes
  <2>6. ProcReady'
    BY <1>2 DEF ProcInv, ProcReady, ReadyHonest
  <2>. QED
    BY <2>3, <2>5, <2>6 DEF ProcInv
<1>3. CASE Exit
  <2>1. /\ phase = "close" /\ todo = <<>> /\ phase' = "exited"
        /\ UNCHANGED <<deployment, todo, open, built, passed, health, ready, cause>>
    BY <1>3 DEF Exit
  <2>2. /\ \A n \in Stages : Builder(n)' = Builder(n)
        /\ Configurable' = Configurable
    BY <2>1, DeploymentFixed
  <2>3. ProcShape'
    BY <2>1, <2>2 DEF ProcInv, ProcShape, Stages
  <2>4. Members(todo) = {}
    BY <2>1, MembersEmpty
  <2>5. ProcStaged'
    BY <2>1, <2>2, <2>4 DEF ProcInv, ProcStaged, AllClosed, LateRefusal
  <2>6. ProcReady'
    BY <2>1 DEF ProcInv, ProcReady, ReadyHonest
  <2>. QED
    BY <2>3, <2>5, <2>6 DEF ProcInv
<1>. QED
  BY <1>1, <1>2, <1>3 DEF Close

\* The invariant speaks of the variables of the process only.
LEMMA ProcStays == ASSUME ProcInv, UNCHANGED prvars PROVE ProcInv'
<1>1. UNCHANGED <<deployment, phase, todo, open, built, passed, health, ready, cause>>
  BY DEF prvars
<1>2. /\ \A n \in Stages : Builder(n)' = Builder(n)
      /\ \A n \in Stages : Constructed(n)' = Constructed(n)
      /\ Configurable' = Configurable /\ Probes' = Probes /\ AppRefused' = AppRefused
  BY <1>1, DeploymentFixed, ProbesFixed DEF Constructed
<1>3. ProcShape'
  BY <1>1, <1>2 DEF ProcInv, ProcShape, Stages
<1>4. ProcStaged'
  BY <1>1, <1>2 DEF ProcInv, ProcStaged, AllClosed, LateRefusal, Built
<1>5. ProcReady'
  BY <1>1, <1>2 DEF ProcInv, ProcReady, ReadyHonest
<1>. QED
  BY <1>3, <1>4, <1>5 DEF ProcInv

\* A process that serves has what its definition declares.
LEMMA ServesWhatIsDeclared == ASSUME ProcInv PROVE DeclaredSatisfied
<1>. SUFFICES ASSUME phase = "serve" PROVE DeclaredSatisfied
  BY DEF DeclaredSatisfied
<1>. DEFINE d == deployment
<1>1. \A n \in Stages : Constructed(n)
  BY DEF ProcInv, ProcStaged
<1>2. Configurable /\ ~AppRefused
  BY DEF ProcInv, ProcStaged
<1>3. \A n \in Resources : Builder(n) # "none" => Built(n) = Builder(n)
  BY <1>1 DEF ProcInv, ProcShape, Constructed, Stages, Built
<1>4. /\ Builder("policy") = ResolvePolicy(d) /\ Builder("session") = SessionProvider(d)
      /\ Builder("memory") = MemoryProvider(d) /\ Builder("approvals") = ApprovalStore(d)
      /\ Builder("mcp") = McpManager(d) /\ Builder("tools") = ToolBindings(d)
  BY DEF Builder
<1>5. /\ ResolvePolicy(d) # "error" /\ SessionProvider(d) # "error" /\ MemoryProvider(d) # "error"
      /\ ApprovalStore(d) # "error" /\ McpManager(d) # "error" /\ ToolBindings(d) # "error"
  BY <1>1, <1>4 DEF Constructed, Stages, Resources
<1>6. d.refs => ResolvePolicy(d) = "policy"
  BY <1>5 DEF ResolvePolicy
<1>7. d.persistence = "external" => Built("session") \in {"redis", "postgres"}
  BY <1>3, <1>4, <1>5 DEF SessionProvider, Resources
<1>8. d.memoryEndpoint \in {"redis", "postgres"} => Built("memory") = d.memoryEndpoint
  BY <1>3, <1>4, <1>5 DEF MemoryProvider, Resources
<1>9. d.approvals # "none" => Built("approvals") = d.approvals
  BY <1>3, <1>4, <1>5 DEF ApprovalStore, Resources
<1>10. d.identity => Authenticator(d) = "oidc"
  BY <1>2 DEF AppRefused, Authenticator
<1>11. "mcp" \in d.tools => Built("mcp") = "mcp"
  <2>. SUFFICES ASSUME "mcp" \in d.tools PROVE Built("mcp") = "mcp"
    OBVIOUS
  <2>1. d.mcp
    BY <1>5 DEF ToolBindings
  <2>2. McpManager(d) = "mcp"
    BY <1>5, <2>1 DEF McpManager
  <2>. QED
    BY <1>3, <1>4, <2>2 DEF Resources
<1>12. d.key.def # "none" => CatalogKey(d) # "none"
  <2>. SUFFICES ASSUME d.key.def # "none" PROVE CatalogKey(d) # "none"
    OBVIOUS
  <2>1. ModelKey(d) # "none"
    BY DEF ModelKey
  <2>. QED
    BY <2>1 DEF CatalogKey
<1>. QED
  BY <1>6, <1>7, <1>8, <1>9, <1>10, <1>11, <1>12 DEF DeclaredSatisfied

\* The invariant contains what the process promises.
LEMMA ProcImplied == ASSUME ProcInv PROVE ProcessSound
<1>1. ProcTypeOK
  <2>1. \A r \in ReadyReqs : ready[r] \in ReadyRequest
    BY DEF ProcInv, ProcShape
  <2>2. ready \in [ReadyReqs -> [left : {ready[r].left : r \in ReadyReqs}, bad : BOOLEAN, met : BOOLEAN,
                                 answer : {"none", "waiting", "ready", "unready"}]]
    <3>1. \A r \in ReadyReqs :
             ready[r] \in [left : {ready[o].left : o \in ReadyReqs}, bad : BOOLEAN, met : BOOLEAN,
                           answer : {"none", "waiting", "ready", "unready"}]
      BY <2>1 DEF ReadyRequest
    <3>2. ready \in [ReadyReqs -> ReadyRequest]
      BY DEF ProcInv, ProcShape
    <3>. QED
      BY <3>1, <3>2
  <2>3. open \subseteq Resources /\ DOMAIN built \subseteq Resources
    BY DEF ProcInv, ProcShape
  <2>. QED
    BY <2>2, <2>3 DEF ProcInv, ProcShape, ProcTypeOK
<1>2. ServingProbed
  BY DEF ProcInv, ProcStaged, ServingProbed
<1>. QED
  BY <1>1, <1>2, ServesWhatIsDeclared DEF ProcInv, ProcStaged, ProcReady, ProcessSound

\* For every deployment and any number of concurrent readiness requests: what serves was
\* checked and declared, what is refused is refused early, readiness is honest, and a
\* process that ends without an exception has closed what it opened.
THEOREM ProcessIsSound == ProcSpec => []ProcessSound
<1>1. ProcInit => ProcInv
  BY ProcStarts
<1>2. ProcInv /\ [ProcNext]_prvars => ProcInv'
  BY ResolveKeeps, BuildKeeps, StartupKeeps, StartKeeps, StartedKeeps, AppKeeps, AskKeeps, ProbeKeeps,
     AnswerKeeps, StopKeeps, CloseKeeps, ProcStays DEF ProcNext
<1>3. ProcInv => ProcessSound
  BY ProcImplied
<1>. QED
  BY <1>1, <1>2, <1>3, PTL DEF ProcSpec

------------------------------------------------------------------------------
(* Streamed tool calls.                                                     *)

-----------------------------------------------------------------------------
(* Streamed answers. *)

\* The first n fragments of call i.
Fragments(i, n) == [k \in 1..n |-> <<i, k>>]

\* One more fragment.
LEMMA NextFragment ==
    ASSUME NEW i, NEW n \in Nat
    PROVE  Append(Fragments(i, n), <<i, n + 1>>) = Fragments(i, n + 1)
<1>. DEFINE s == Append(Fragments(i, n), <<i, n + 1>>)
            u == Fragments(i, n + 1)
<1>1. Fragments(i, n) \in Seq({i} \X Nat) /\ u \in Seq({i} \X Nat) /\ Len(Fragments(i, n)) = n /\ Len(u) = n + 1
  BY DEF Fragments
<1>2. s \in Seq({i} \X Nat) /\ Len(s) = n + 1
  BY <1>1
<1>3. ASSUME NEW k \in 1..n + 1 PROVE s[k] = u[k]
  <2>1. CASE k = n + 1
    BY <1>1, <2>1 DEF Fragments
  <2>2. CASE k # n + 1
    <3>1. k \in 1..n
      BY <2>2
    <3>. QED
      BY <1>1, <3>1 DEF Fragments
  <2>. QED
    BY <2>1, <2>2
<1>. HIDE DEF s, u
<1>4. s = u
  BY <1>1, <1>2, <1>3
<1>. QED
  BY <1>4 DEF s, u

\* What has arrived is what was sent: the text in order, and of each call that was
\* named the fragments sent so far.
StreamInv ==
    /\ answer \in StreamAnswers
    /\ sent \in [text : 0..answer.texts, frags : [Indexes -> Nat], head : SUBSET Indexes, done : BOOLEAN]
    /\ \A i \in Indexes : sent.frags[i] <= answer.calls[i] /\ (i \notin sent.head => sent.frags[i] = 0)
    /\ parts \in Seq(Nat) /\ Len(parts) = sent.text /\ deltas = parts
    /\ calls = [i \in sent.head |-> [name |-> i, args |-> Fragments(i, sent.frags[i])]]
    /\ sent.done => AllSent
    /\ final.kind = "response" =>
          /\ final.content = deltas
          /\ sent.done => final.requests = ToolRequests(calls)

\* The calls of a whole stream become requests in the order of their indexes.
LEMMA InIndexOrder ==
    ASSUME StreamAssumption, StreamInv, sent.done
    PROVE  ToolRequests(calls) = [i \in Indexes |-> [name |-> i, args |-> IF answer.calls[i] = 0 THEN "empty" ELSE "whole"]]
<1>. DEFINE N == Len(answer.calls)
<1>1. N \in Nat /\ Indexes = 1..N /\ sent.head = Indexes /\ \A i \in Indexes : sent.frags[i] = answer.calls[i] /\ answer.calls[i] \in Nat
  BY DEF StreamInv, StreamAssumption, AllSent, Indexes
<1>2. calls = [i \in 1..N |-> [name |-> i, args |-> Fragments(i, answer.calls[i])]]
  BY <1>1 DEF StreamInv
<1>3. DOMAIN calls = 1..N
  BY <1>2
<1>4. Cardinality(1..N) = N
  BY <1>1, FS_Interval
<1>. DEFINE order == [n \in 1..Cardinality(1..N) |-> CHOOSE i \in 1..N : Cardinality({j \in 1..N : j <= i}) = n]
<1>. HIDE DEF N
<1>5. ASSUME NEW i \in 1..N PROVE Cardinality({j \in 1..N : j <= i}) = i
  <2>1. {j \in 1..N : j <= i} = 1..i
    BY <1>1
  <2>2. Cardinality(1..i) = i
    BY <1>1, FS_Interval
  <2>. QED
    BY <2>1, <2>2
<1>6. ASSUME NEW n \in 1..N PROVE order[n] = n
  <2>1. order[n] = CHOOSE i \in 1..N : Cardinality({j \in 1..N : j <= i}) = n
    BY <1>4
  <2>2. n \in 1..N /\ Cardinality({j \in 1..N : j <= n}) = n
    BY <1>5
  <2>3. order[n] \in 1..N /\ Cardinality({j \in 1..N : j <= order[n]}) = n
    BY <2>1, <2>2, Zenon
  <2>. QED
    BY <1>5, <2>3
<1>. HIDE DEF order
<1>7. ToolRequests(calls) = [n \in 1..N |-> [name |-> calls[order[n]].name, args |-> ParseArguments(calls[order[n]])]]
  BY <1>3, <1>4 DEF ToolRequests, order
<1>8. ASSUME NEW n \in 1..N
      PROVE  [name |-> calls[order[n]].name, args |-> ParseArguments(calls[order[n]])]
                = [name |-> n, args |-> IF answer.calls[n] = 0 THEN "empty" ELSE "whole"]
  <2>1. calls[order[n]].name = n /\ calls[order[n]].args = Fragments(n, answer.calls[n])
    BY <1>2, <1>6
  <2>2. answer.calls[n] \in Nat /\ n # NoName
    BY <1>1 DEF StreamAssumption
  <2>3. Fragments(n, answer.calls[n]) = <<>> <=> answer.calls[n] = 0
    BY <2>2 DEF Fragments
  <2>4. ParseArguments(calls[order[n]]) = IF answer.calls[n] = 0 THEN "empty" ELSE "whole"
    BY <2>1, <2>2, <2>3 DEF ParseArguments, Fragments
  <2>. QED
    BY <2>1, <2>4
<1>. QED
  BY <1>1, <1>7, <1>8

\* The property follows.
LEMMA StreamImplied ==
    ASSUME StreamAssumption, StreamInv PROVE Reassembled
<1>1. MsTypeOK
  <2>1. sent.text \in 0..answer.texts /\ DOMAIN calls \subseteq Indexes
    BY DEF StreamInv
  <2>2. \A i \in Indexes : sent.frags[i] \in 0..answer.calls[i]
    <3>1. \A i \in Indexes : answer.calls[i] \in Nat
      BY DEF StreamInv, StreamAssumption, Indexes
    <3>. QED
      BY <3>1 DEF StreamInv
  <2>3. ASSUME NEW i \in DOMAIN calls PROVE calls[i].name \in Indexes /\ calls[i].args \in Seq(Indexes \X Nat)
    <3>1. i \in sent.head /\ i \in Indexes /\ sent.frags[i] \in Nat /\ calls[i] = [name |-> i, args |-> Fragments(i, sent.frags[i])]
      BY DEF StreamInv
    <3>2. Fragments(i, sent.frags[i]) \in Seq(Indexes \X Nat)
      <4>. DEFINE F == [k \in 1..sent.frags[i] |-> <<i, k>>]
      <4>1. \A k \in 1..sent.frags[i] : k \in Nat /\ <<i, k>> \in Indexes \X Nat
        BY <3>1
      <4>2. F \in [1..sent.frags[i] -> Indexes \X Nat]
        BY <4>1, Zenon
      <4>. HIDE DEF F
      <4>3. F \in Seq(Indexes \X Nat)
        BY <3>1, <4>2
      <4>. QED
        BY <4>3 DEF F, Fragments
    <3>. QED
      BY <3>1, <3>2
  <2>. QED
    BY <2>1, <2>2, <2>3 DEF MsTypeOK
<1>2. ASSUME final.kind = "response", sent.done
      PROVE  Len(final.content) = answer.texts
  BY <1>2 DEF StreamInv, AllSent
<1>. QED
  BY <1>1, <1>2, InIndexOrder DEF Reassembled, StreamInv

\* Initially nothing has been sent.
LEMMA StreamInitialized ==
    ASSUME StreamAssumption, MsInit PROVE StreamInv
<1>1. answer \in [wire : {"openai", "anthropic"}, texts : Nat, calls : Seq(Nat)]
  BY DEF StreamAssumption, MsInit
<1>2. \A i \in Indexes : answer.calls[i] \in Nat
  BY <1>1 DEF Indexes
<1>3. calls = [i \in sent.head |-> [name |-> i, args |-> Fragments(i, sent.frags[i])]]
  BY DEF MsInit
<1>. QED
  BY <1>1, <1>2, <1>3 DEF MsInit, StreamInv, Indexes

\* Every step keeps it.
LEMMA StreamStep ==
    ASSUME StreamAssumption, StreamInv, [MsNext]_msvars PROVE StreamInv'
<1>0. /\ answer \in [wire : {"openai", "anthropic"}, texts : Nat, calls : Seq(Nat)]
      /\ \A i \in Indexes : answer.calls[i] \in Nat
  BY DEF StreamAssumption, StreamInv, Indexes
<1>1. CASE TextDelta
  <2>1. ~sent.done /\ final.kind = "none" /\ UNCHANGED <<answer, calls, final>> /\ sent.text + 1 \in 0..answer.texts
    BY <1>0, <1>1 DEF TextDelta, Live, StreamInv
  <2>2. sent' = [sent EXCEPT !.text = sent.text + 1] /\ parts' = Append(parts, sent.text + 1) /\ deltas' = parts'
    BY <1>1 DEF TextDelta, StreamInv
  <2>3. Indexes' = Indexes
    BY <2>1 DEF Indexes
  <2>4. sent' \in [text : 0..answer.texts, frags : [Indexes -> Nat], head : SUBSET Indexes, done : BOOLEAN]
    BY <2>1, <2>2 DEF StreamInv
  <2>5. sent'.frags = sent.frags /\ sent'.head = sent.head /\ sent'.done = FALSE /\ sent'.text = sent.text + 1
    BY <2>1, <2>2 DEF StreamInv
  <2>6. parts' \in Seq(Nat) /\ Len(parts') = sent.text + 1
    BY <2>2 DEF StreamInv
  <2>. QED
    BY <2>1, <2>2, <2>3, <2>4, <2>5, <2>6 DEF StreamInv
<1>2. ASSUME NEW i \in Indexes, CallStarts(i) PROVE StreamInv'
  <2>1. ~sent.done /\ final.kind = "none" /\ UNCHANGED <<answer, parts, deltas, final>> /\ i \notin sent.head
    BY <1>2 DEF CallStarts, Live
  <2>2. sent' = [sent EXCEPT !.head = sent.head \cup {i}]
    BY <1>2 DEF CallStarts
  <2>3. Indexes' = Indexes
    BY <2>1 DEF Indexes
  <2>4. sent' \in [text : 0..answer.texts, frags : [Indexes -> Nat], head : SUBSET Indexes, done : BOOLEAN]
    BY <2>1, <2>2 DEF StreamInv
  <2>5. sent'.frags = sent.frags /\ sent'.head = sent.head \cup {i} /\ sent'.done = FALSE /\ sent'.text = sent.text
    BY <2>1, <2>2 DEF StreamInv
  <2>6. i \notin DOMAIN calls /\ DOMAIN calls = sent.head /\ sent.frags[i] = 0 /\ Fragments(i, 0) = <<>>
    BY <2>1 DEF StreamInv, Fragments
  <2>7. calls' = Put(i, [name |-> i, args |-> Fragments(i, sent.frags[i])])
    BY <1>2, <2>6 DEF CallStarts, Known
  <2>8. calls' = [j \in sent'.head |-> [name |-> j, args |-> Fragments(j, sent'.frags[j])]]
    BY <2>5, <2>6, <2>7 DEF Put, StreamInv
  <2>. QED
    BY <2>1, <2>2, <2>3, <2>4, <2>5, <2>8 DEF StreamInv
<1>3. ASSUME NEW i \in Indexes, ArgumentDelta(i) PROVE StreamInv'
  <2>1. ~sent.done /\ final.kind = "none" /\ UNCHANGED <<answer, parts, deltas, final>> /\ i \in sent.head
    BY <1>3 DEF ArgumentDelta, Live
  <2>2. sent' = [sent EXCEPT !.frags[i] = sent.frags[i] + 1] /\ sent.frags[i] \in Nat /\ sent.frags[i] + 1 <= answer.calls[i]
    <3>1. sent' = [sent EXCEPT !.frags[i] = sent.frags[i] + 1] /\ sent.frags[i] < answer.calls[i]
      BY <1>3 DEF ArgumentDelta
    <3>2. sent.frags[i] \in Nat /\ answer.calls[i] \in Nat
      BY <1>0 DEF StreamInv
    <3>. QED
      BY <3>1, <3>2
  <2>3. Indexes' = Indexes
    BY <2>1 DEF Indexes
  <2>5. /\ sent'.frags = [sent.frags EXCEPT ![i] = sent.frags[i] + 1]
        /\ sent'.head = sent.head /\ sent'.done = FALSE /\ sent'.text = sent.text
        /\ sent' = [text |-> sent'.text, frags |-> sent'.frags, head |-> sent'.head, done |-> sent'.done]
    BY <2>1, <2>2 DEF StreamInv
  <2>11. sent'.frags \in [Indexes -> Nat]
    BY <2>2, <2>5 DEF StreamInv
  <2>4. sent' \in [text : 0..answer.texts, frags : [Indexes -> Nat], head : SUBSET Indexes, done : BOOLEAN]
    BY <2>5, <2>11 DEF StreamInv
  <2>6. i \in DOMAIN calls /\ DOMAIN calls = sent.head /\ calls[i] = [name |-> i, args |-> Fragments(i, sent.frags[i])]
    BY <2>1 DEF StreamInv
  <2>7. Append(Fragments(i, sent.frags[i]), <<i, sent.frags[i] + 1>>) = Fragments(i, sent.frags[i] + 1)
    BY <2>2, NextFragment
  <2>8. calls' = Put(i, [name |-> i, args |-> Fragments(i, sent.frags[i] + 1)])
    <3>. DEFINE a == Fragments(i, sent.frags[i])
                b == Fragments(i, sent.frags[i] + 1)
    <3>1. Known(i) = [name |-> i, args |-> a]
      BY <2>6 DEF Known
    <3>. HIDE DEF a, b
    <3>2. Append(Known(i).args, <<i, sent.frags[i] + 1>>) = b
      BY <2>7, <3>1 DEF a, b
    <3>. DEFINE c == Append(Known(i).args, <<i, sent.frags[i] + 1>>)
    <3>3. calls' = Put(i, [Known(i) EXCEPT !.args = c])
      BY <1>3 DEF ArgumentDelta, FragmentOf
    <3>. HIDE DEF c
    <3>4. [Known(i) EXCEPT !.args = c] = [name |-> i, args |-> c]
      BY <3>1
    <3>. QED
      BY <3>2, <3>3, <3>4 DEF b, c
  <2>9. calls' = [j \in sent'.head |-> [name |-> j, args |-> Fragments(j, sent'.frags[j])]]
    BY <2>1, <2>5, <2>6, <2>8 DEF Put, StreamInv
  <2>10. \A j \in Indexes : sent'.frags[j] <= answer.calls[j] /\ (j \notin sent'.head => sent'.frags[j] = 0)
    BY <2>1, <2>2, <2>5 DEF StreamInv
  <2>. QED
    BY <2>1, <2>2, <2>3, <2>4, <2>5, <2>9, <2>10 DEF StreamInv
<1>4. CASE FinishReason
  <2>1. ~sent.done /\ final.kind = "none" /\ UNCHANGED <<answer, parts, calls, deltas, final>> /\ AllSent
    BY <1>4 DEF FinishReason, Live
  <2>2. sent' = [sent EXCEPT !.done = TRUE]
    BY <1>4 DEF FinishReason
  <2>3. Indexes' = Indexes
    BY <2>1 DEF Indexes
  <2>4. sent' \in [text : 0..answer.texts, frags : [Indexes -> Nat], head : SUBSET Indexes, done : BOOLEAN]
    BY <2>1, <2>2 DEF StreamInv
  <2>5. sent'.frags = sent.frags /\ sent'.head = sent.head /\ sent'.text = sent.text
    BY <2>1, <2>2 DEF StreamInv
  <2>6. AllSent'
    BY <2>1, <2>3, <2>5 DEF AllSent
  <2>. QED
    BY <2>1, <2>3, <2>4, <2>5, <2>6 DEF StreamInv
<1>5. CASE StreamEnd
  <2>1. UNCHANGED <<answer, sent, parts, calls, deltas>> /\ deltas = parts
    BY <1>5 DEF StreamEnd, StreamInv
  <2>2. final'.content = parts /\ final'.requests = ToolRequests(calls)
    BY <1>5 DEF StreamEnd
  <2>3. Indexes' = Indexes /\ AllSent' = AllSent /\ ToolRequests(calls)' = ToolRequests(calls)
    BY <2>1 DEF Indexes, AllSent, ToolRequests, ParseArguments
  <2>. QED
    BY <2>1, <2>2, <2>3 DEF StreamInv
<1>6. CASE StreamRaises \/ UNCHANGED msvars
  <2>1. UNCHANGED <<answer, sent, parts, calls, deltas>> /\ (final' = final \/ final' = [kind |-> "raised"])
    BY <1>6 DEF StreamRaises, msvars
  <2>2. Indexes' = Indexes /\ AllSent' = AllSent /\ ToolRequests(calls)' = ToolRequests(calls)
    BY <2>1 DEF Indexes, AllSent, ToolRequests, ParseArguments
  <2>. QED
    BY <2>1, <2>2 DEF StreamInv
<1>. QED
  BY <1>1, <1>2, <1>3, <1>4, <1>5, <1>6 DEF MsNext

\* For any answer, however its calls are interleaved and wherever the stream breaks,
\* a whole stream yields its calls in order with their own arguments, and the content
\* is what was shown (openai_compat.py, anthropic.py).
THEOREM AnswersAreReassembled ==
    ASSUME StreamAssumption PROVE MsSpec => []Reassembled
<1>1. MsInit => StreamInv
  BY StreamInitialized
<1>2. StreamInv /\ [MsNext]_msvars => StreamInv'
  BY StreamStep
<1>3. StreamInv => Reassembled
  BY StreamImplied
<1>. QED
  BY <1>1, <1>2, <1>3, PTL DEF MsSpec

------------------------------------------------------------------------------
(* The knowledge context.                                                   *)

Block == [source : 1..NSources, content : Contents, size : Nat \ {0}]
Stored == {c \in Contents : Size[c] > 0}

\* The parts of a block.
LEMMA BlockAt ==
    ASSUME NEW s \in Seq(Block), NEW i \in 1..Len(s)
    PROVE  s[i].source \in 1..NSources /\ s[i].content \in Contents /\ s[i].size \in Nat \ {0}
<1>1. s[i] \in Block
  OBVIOUS
<1>. QED
  BY <1>1 DEF Block

\* What a block counts for some sources.
Counted(b, sources) == IF b.source \in sources THEN b.size ELSE 0

\* f[i] is the count of the first i blocks.
Counts(f, s, sources) == f[0] = 0 /\ \A i \in 1..Len(s) : f[i] = f[i - 1] + Counted(s[i], sources)

\* The recursion of Characters is well defined.
LEMMA CharactersCount ==
    ASSUME NEW s \in Seq(Block), NEW sources
    PROVE  \E f \in [0..Len(s) -> Nat] : Characters(s, sources) = f[Len(s)] /\ Counts(f, s, sources)
<1>. DEFINE h == [p \in Nat \X (1..Len(s)) |-> p[1] + Counted(s[p[2]], sources)]
            Step(g) == [i \in 0..Len(s) |-> IF i = 0 THEN 0 ELSE g[i - 1] + (IF s[i].source \in sources THEN s[i].size ELSE 0)]
            F == CHOOSE g : g = Step(g)
<1>0. ASSUME NEW i \in 1..Len(s) PROVE Counted(s[i], sources) \in Nat
  <2>1. s[i] \in Block
    OBVIOUS
  <2>. QED
    BY <2>1 DEF Counted, Block
<1>1. h \in [Nat \X (1..Len(s)) -> Nat]
  BY <1>0
<1>2. PICK f \in [0..Len(s) -> Nat] : Recurses(f, Len(s), 0, h)
  <2>1. Len(s) \in Nat /\ 0 \in Nat
    OBVIOUS
  <2>. HIDE DEF h
  <2>. QED
    BY <1>1, <2>1, Recursion
<1>3. Counts(f, s, sources)
  <2>1. ASSUME NEW i \in 1..Len(s) PROVE f[i] = f[i - 1] + Counted(s[i], sources)
    <3>1. f[i] = h[<<f[i - 1], i>>]
      <4>. HIDE DEF h
      <4>. QED
        BY <1>2 DEF Recurses
    <3>2. f[i - 1] \in Nat
      <4>1. i - 1 \in 0..Len(s)
        OBVIOUS
      <4>. QED
        BY <4>1
    <3>3. <<f[i - 1], i>> \in Nat \X (1..Len(s))
      BY <3>2
    <3>4. h[<<f[i - 1], i>>] = f[i - 1] + Counted(s[i], sources)
      BY <3>3
    <3>. QED
      BY <3>1, <3>4
  <2>. QED
    BY <1>2, <2>1 DEF Counts, Recurses
<1>4. f = Step(f)
  <2>1. ASSUME NEW i \in 0..Len(s) PROVE f[i] = Step(f)[i]
    <3>1. CASE i = 0
      BY <1>3, <3>1 DEF Counts
    <3>2. CASE i # 0
      <4>1. i \in 1..Len(s)
        BY <3>2
      <4>. QED
        BY <1>3, <3>2, <4>1 DEF Counts, Counted
    <3>. QED
      BY <3>1, <3>2
  <2>2. f = [i \in 0..Len(s) |-> f[i]] /\ Step(f) = [i \in 0..Len(s) |-> Step(f)[i]]
    BY Zenon
  <2>. HIDE DEF Step
  <2>. QED
    BY <2>1, <2>2, Zenon
<1>5. F = Step(F)
  <2>. HIDE DEF Step
  <2>. QED
    BY <1>4
<1>. DEFINE Same == {i \in 0..Len(s) : F[i] = f[i]}
<1>6. \A i \in 0..Len(s) : F[i] = IF i = 0 THEN 0 ELSE F[i - 1] + Counted(s[i], sources)
  <2>. HIDE DEF F
  <2>. QED
    BY <1>5 DEF Counted
<1>7. 0 \in Same
  <2>. HIDE DEF F
  <2>. QED
    BY <1>3, <1>6 DEF Counts
<1>8. \A k \in 0..Len(s) : k \in Same /\ k < Len(s) => k + 1 \in Same
  <2>. HIDE DEF F
  <2>. SUFFICES ASSUME NEW k \in 0..Len(s), k \in Same, k < Len(s) PROVE k + 1 \in Same
    BY Zenon
  <2>1. k + 1 \in 1..Len(s) /\ k + 1 \in 0..Len(s) /\ (k + 1) - 1 = k /\ k + 1 # 0
    OBVIOUS
  <2>2. F[k + 1] = f[k + 1]
    BY <1>3, <1>6, <2>1 DEF Counts
  <2>. QED
    BY <2>1, <2>2
<1>9. F[Len(s)] = f[Len(s)]
  <2>1. Len(s) \in Nat /\ Len(s) \in 0..Len(s)
    OBVIOUS
  <2>2. Len(s) \in Same
    <3>. HIDE DEF Same
    <3>. QED
      BY <1>7, <1>8, <2>1, Induction
  <2>. QED
    BY <2>2
<1>10. Characters(s, sources) = F[Len(s)]
  BY DEF Characters
<1>. QED
  <2>. HIDE DEF F
  <2>. QED
    BY <1>3, <1>9, <1>10

\* It is a number.
LEMMA CharactersType ==
    ASSUME NEW s \in Seq(Block), NEW sources
    PROVE  Characters(s, sources) \in Nat
<1>1. PICK f \in [0..Len(s) -> Nat] : Characters(s, sources) = f[Len(s)] /\ Counts(f, s, sources)
  BY CharactersCount
<1>2. Len(s) \in 0..Len(s)
  OBVIOUS
<1>3. f[Len(s)] \in Nat
  BY <1>2
<1>. QED
  BY <1>1, <1>3

\* The characters of no block.
LEMMA CharactersEmpty ==
    ASSUME NEW sources
    PROVE  Characters(<<>>, sources) = 0
<1>1. <<>> \in Seq(Block) /\ Len(<<>>) = 0
  OBVIOUS
<1>2. PICK f \in [0..0 -> Nat] : Characters(<<>>, sources) = f[0] /\ Counts(f, <<>>, sources)
  BY <1>1, CharactersCount
<1>. QED
  BY <1>2 DEF Counts

\* A block adds its size to its source.
LEMMA CharactersAppend ==
    ASSUME NEW s \in Seq(Block), NEW b \in Block, NEW sources
    PROVE  Characters(s, sources) \in Nat /\ Characters(Append(s, b), sources) = Characters(s, sources) + Counted(b, sources)
<1>. DEFINE t == Append(s, b)
            n == Len(s)
<1>1. t \in Seq(Block) /\ Len(t) = n + 1 /\ n \in Nat /\ t[n + 1] = b /\ \A i \in 1..n : t[i] = s[i]
  OBVIOUS
<1>. HIDE DEF t
<1>2. PICK f \in [0..n -> Nat] : Characters(s, sources) = f[n] /\ Counts(f, s, sources)
  BY CharactersCount
<1>3. PICK g \in [0..n + 1 -> Nat] : Characters(t, sources) = g[n + 1] /\ Counts(g, t, sources)
  BY <1>1, CharactersCount
<1>. DEFINE Same == {i \in 0..n : f[i] = g[i]}
<1>4. 0 \in Same
  BY <1>1, <1>2, <1>3 DEF Counts
<1>5. ASSUME NEW k \in 0..n, k \in Same, k < n PROVE k + 1 \in Same
  <2>1. k + 1 \in 1..n /\ k + 1 \in 1..n + 1 /\ (k + 1) - 1 = k /\ k + 1 \in 0..n
    BY <1>1, <1>5
  <2>2. f[k + 1] = f[k] + Counted(s[k + 1], sources)
    BY <1>2, <2>1 DEF Counts
  <2>3. g[k + 1] = g[k] + Counted(t[k + 1], sources)
    BY <1>1, <1>3, <2>1 DEF Counts
  <2>. QED
    BY <1>1, <1>5, <2>1, <2>2, <2>3
<1>6. n \in Same
  <2>1. n \in Nat /\ n \in 0..n
    BY <1>1
  <2>. HIDE DEF Same, n
  <2>. QED
    BY <1>4, <1>5, <2>1, Induction
<1>7. g[n + 1] = g[n] + Counted(b, sources)
  <2>1. n + 1 \in 1..Len(t) /\ (n + 1) - 1 = n
    BY <1>1
  <2>. HIDE DEF n
  <2>. QED
    BY <1>1, <1>3, <2>1 DEF Counts
<1>8. f[n] \in Nat
  BY <1>1, <1>2
<1>. QED
  BY <1>2, <1>3, <1>6, <1>7, <1>8 DEF t

\* Without a block of the sources there is nothing to count.
LEMMA CharactersNone ==
    ASSUME NEW s \in Seq(Block), NEW sources, \A i \in 1..Len(s) : s[i].source \notin sources
    PROVE  Characters(s, sources) = 0
<1>. DEFINE n == Len(s)
<1>1. PICK f \in [0..n -> Nat] : Characters(s, sources) = f[n] /\ Counts(f, s, sources)
  BY CharactersCount
<1>. DEFINE Zero == {i \in 0..n : f[i] = 0}
<1>2. n \in Nat /\ n \in 0..n
  OBVIOUS
<1>3. 0 \in Zero
  BY <1>1 DEF Counts
<1>4. ASSUME NEW k \in 0..n, k \in Zero, k < n PROVE k + 1 \in Zero
  <2>1. k + 1 \in 1..n /\ (k + 1) - 1 = k /\ k + 1 \in 0..n
    BY <1>2, <1>4
  <2>2. f[k + 1] = f[k] + Counted(s[k + 1], sources)
    BY <1>1, <2>1 DEF Counts
  <2>3. Counted(s[k + 1], sources) = 0
    BY <2>1 DEF Counted
  <2>. QED
    BY <1>4, <2>1, <2>2, <2>3
<1>5. n \in Zero
  <2>. HIDE DEF Zero, n
  <2>. QED
    BY <1>2, <1>3, <1>4, Induction
<1>. QED
  BY <1>1, <1>5

-----------------------------------------------------------------------------
\* The state of the loop over the entries of a source.
LoopState == [blocks : Seq(Block), seen : SUBSET Contents, on : BOOLEAN]

\* The blocks of the sources up to n: clipped, without repetition, within the budgets.
BlocksFit(bs, hashes, n) ==
    /\ bs \in Seq(Block)
    /\ \A i \in 1..Len(bs) : bs[i].source <= n /\ bs[i].size <= Size[bs[i].content]
    /\ hashes = {bs[i].content : i \in 1..Len(bs)}
    /\ \A i, j \in 1..Len(bs) : bs[i].content = bs[j].content => i = j
    /\ Total(bs) <= budget.total
    /\ \A s \in 1..NSources : Characters(bs, {s}) <= budget.each

\* A source is represented, or the total is used up, or its entries are there.
Heard(bs, s, entries) ==
    \/ \E b \in 1..Len(bs) : bs[b].source = s
    \/ Total(bs) >= budget.total
    \/ \A i \in 1..Len(entries) : \E b \in 1..Len(bs) : bs[b].content = entries[i]

\* After k entries of source s.
LoopInv(st, s, entries, k) ==
    /\ BlocksFit(st.blocks, st.seen, s)
    /\ \A r \in 1..s - 1 : Heard(st.blocks, r, got[r])
    /\ st.on => \A i \in 1..k : entries[i] \in st.seen
    /\ ~st.on => Characters(st.blocks, {s}) >= budget.each \/ Total(st.blocks) >= budget.total

\* Room is a number, and what is clipped to it is not empty.
LEMMA RoomIsNumber ==
    ASSUME KnowledgeAssumption, budget \in Budgets, NEW s \in 1..NSources, NEW bs \in Seq(Block), NEW c \in Stored
    PROVE  /\ Remaining(s, bs) \in Int
           /\ Remaining(s, bs) <= budget.each - Characters(bs, {s})
           /\ Remaining(s, bs) <= budget.total - Total(bs)
           /\ Remaining(s, bs) <= 0 => Characters(bs, {s}) >= budget.each \/ Total(bs) >= budget.total
           /\ Remaining(s, bs) > 0 => /\ [source |-> s, content |-> c, size |-> Lesser(Size[c], Remaining(s, bs))] \in Block
                                      /\ Lesser(Size[c], Remaining(s, bs)) <= Size[c]
                                      /\ Lesser(Size[c], Remaining(s, bs)) <= Remaining(s, bs)
<1>1. Characters(bs, {s}) \in Nat /\ Total(bs) \in Nat
  <2>1. \A sources : Characters(bs, sources) \in Nat
    BY CharactersType
  <2>. QED
    BY <2>1 DEF Total
<1>2. budget.each \in Nat /\ budget.total \in Nat /\ Size[c] \in Nat /\ Size[c] > 0 /\ c \in Contents
  BY DEF KnowledgeAssumption, Stored
<1>3. Remaining(s, bs) = Lesser(budget.each - Characters(bs, {s}), budget.total - Total(bs))
  BY DEF Remaining
<1>. QED
  BY <1>1, <1>2, <1>3 DEF Lesser, Block

\* What Considered() does in its three cases.
Weighed(s, st, c, room) ==
    \/ ~st.on /\ Considered(s, st, c) = st
    \/ c \in st.seen /\ Considered(s, st, c) = st
    \/ room <= 0 /\ Considered(s, st, c) = [st EXCEPT !.on = FALSE]
    \/ /\ st.on /\ c \notin st.seen /\ ~(room <= 0)
       /\ Considered(s, st, c) = [blocks |-> Append(st.blocks, [source |-> s, content |-> c, size |-> Lesser(Size[c], room)]),
                                  seen |-> st.seen \cup {c}, on |-> TRUE]

\* The three things the loop does with a candidate.
LEMMA ConsideredCases ==
    ASSUME KnowledgeAssumption, NEW s, NEW st \in LoopState, NEW c \in Stored
    PROVE  Weighed(s, st, c, Remaining(s, st.blocks))
<1>1. Size[c] \in Nat /\ Size[c] > 0 /\ Size[c] # 0
  BY DEF KnowledgeAssumption, Stored
<1>. QED
  BY <1>1 DEF Considered, Weighed

\* The loop keeps a sequence of blocks and a set of sources heard.
LEMMA ConsideredType ==
    ASSUME KnowledgeAssumption, budget \in Budgets, NEW s \in 1..NSources, NEW st \in LoopState, NEW c \in Stored
    PROVE  Considered(s, st, c) \in LoopState
<1>. DEFINE room == Remaining(s, st.blocks)
            b == [source |-> s, content |-> c, size |-> Lesser(Size[c], room)]
<1>1. st.blocks \in Seq(Block) /\ st.seen \in SUBSET Contents /\ c \in Contents
  BY DEF LoopState, Stored
<1>2. room \in Int /\ (room > 0 => b \in Block)
  BY <1>1, RoomIsNumber
<1>. HIDE DEF room, b
<1>3. [st EXCEPT !.on = FALSE] \in LoopState
  BY DEF LoopState
<1>4. b \in Block => [blocks |-> Append(st.blocks, b), seen |-> st.seen \cup {c}, on |-> TRUE] \in LoopState
  BY <1>1 DEF LoopState
<1>5. room = Remaining(s, st.blocks) /\ b = [source |-> s, content |-> c, size |-> Lesser(Size[c], room)]
  BY DEF room, b
<1>6. \/ Considered(s, st, c) = st
      \/ Considered(s, st, c) = [st EXCEPT !.on = FALSE]
      \/ /\ ~(room <= 0)
         /\ Considered(s, st, c) = [blocks |-> Append(st.blocks, b), seen |-> st.seen \cup {c}, on |-> TRUE]
  <2>1. Weighed(s, st, c, room)
    BY <1>5, ConsideredCases
  <2>. QED
    BY <1>5, <2>1 DEF Weighed
<1>7. ~(room <= 0) => room > 0
  BY <1>2
<1>. QED
  BY <1>2, <1>3, <1>4, <1>6, <1>7, Zenon

\* A further block is no loss for those that were heard.
LEMMA HeardGrows ==
    ASSUME NEW bs \in Seq(Block), NEW b \in Block, NEW r, NEW entries, Heard(bs, r, entries),
           Total(Append(bs, b)) >= Total(bs), Total(Append(bs, b)) \in Nat, Total(bs) \in Nat, budget.total \in Nat
    PROVE  Heard(Append(bs, b), r, entries)
<1>1. Len(Append(bs, b)) = Len(bs) + 1 /\ \A i \in 1..Len(bs) : i \in 1..Len(bs) + 1 /\ Append(bs, b)[i] = bs[i]
  OBVIOUS
<1>2. CASE \E i \in 1..Len(bs) : bs[i].source = r
  <2>1. \E i \in 1..Len(bs) + 1 : Append(bs, b)[i].source = r
    BY <1>1, <1>2
  <2>. QED
    BY <1>1, <2>1 DEF Heard
<1>3. CASE Total(bs) >= budget.total
  BY <1>3 DEF Heard
<1>4. CASE \A i \in 1..Len(entries) : \E j \in 1..Len(bs) : bs[j].content = entries[i]
  <2>1. \A i \in 1..Len(entries) : \E j \in 1..Len(bs) + 1 : Append(bs, b)[j].content = entries[i]
    BY <1>1, <1>4
  <2>. QED
    BY <1>1, <2>1 DEF Heard
<1>. QED
  BY <1>2, <1>3, <1>4 DEF Heard

\* A block that fits into the room keeps the budgets.
LEMMA BlockFits ==
    ASSUME KnowledgeAssumption, budget \in Budgets, NEW s \in 1..NSources, NEW bs, NEW hashes, BlocksFit(bs, hashes, s),
           NEW b \in Block, b.source = s, b.content \notin hashes, b.size <= Size[b.content],
           b.size <= budget.each - Characters(bs, {s}), b.size <= budget.total - Total(bs)
    PROVE  /\ BlocksFit(Append(bs, b), hashes \cup {b.content}, s)
           /\ Total(bs) \in Nat /\ Total(Append(bs, b)) \in Nat /\ Total(Append(bs, b)) >= Total(bs)
<1>. DEFINE t == Append(bs, b)
            n == Len(bs)
<1>1. bs \in Seq(Block) /\ NSources \in Nat /\ budget.each \in Nat /\ budget.total \in Nat /\ b.size \in Nat
      /\ s \in Nat
  BY DEF BlocksFit, KnowledgeAssumption, Block
<1>2. t \in Seq(Block) /\ Len(t) = n + 1 /\ n \in Nat /\ t[n + 1] = b /\ \A i \in 1..n : t[i] = bs[i]
  BY <1>1
<1>3. Total(bs) \in Nat /\ Total(t) = Total(bs) + b.size
  BY <1>1, CharactersAppend DEF Total, Counted
<1>4. ASSUME NEW r \in 1..NSources PROVE Characters(t, {r}) <= budget.each
  <2>1. Characters(bs, {r}) \in Nat /\ Characters(t, {r}) = Characters(bs, {r}) + Counted(b, {r})
    BY <1>1, CharactersAppend
  <2>2. Characters(bs, {r}) <= budget.each
    BY DEF BlocksFit
  <2>. HIDE DEF t
  <2>3. CASE r = s
    BY <1>1, <2>1, <2>3 DEF Counted
  <2>4. CASE r # s
    BY <1>1, <2>1, <2>2, <2>4 DEF Counted
  <2>. QED
    BY <2>3, <2>4
<1>. HIDE DEF t
<1>5. \A i \in 1..n + 1 : i \in 1..n \/ i = n + 1
  BY <1>2
<1>6. \A i \in 1..n : i \in 1..n + 1
  BY <1>2
<1>7. n + 1 \in 1..n + 1
  BY <1>2
<1>. HIDE DEF n
<1>8. ASSUME NEW i \in 1..n + 1 PROVE t[i].source <= s /\ t[i].size <= Size[t[i].content]
  <2>1. CASE i = n + 1
    BY <1>2, <2>1
  <2>2. CASE i \in 1..n
    BY <1>2, <2>2 DEF BlocksFit, n
  <2>. QED
    BY <1>5, <2>1, <2>2
<1>9. hashes = {bs[i].content : i \in 1..n}
  BY DEF BlocksFit, n
<1>10. hashes \cup {b.content} = {t[i].content : i \in 1..n + 1}
  <2>1. \A i \in 1..n : t[i].content = bs[i].content
    BY <1>2
  <2>2. t[n + 1].content = b.content
    BY <1>2
  <2>3. ASSUME NEW i \in 1..n + 1 PROVE t[i].content \in hashes \cup {b.content}
    BY <1>5, <1>9, <2>1, <2>2
  <2>4. ASSUME NEW i \in 1..n PROVE \E j \in 1..n + 1 : bs[i].content = t[j].content
    BY <1>6, <2>1
  <2>5. \E j \in 1..n + 1 : b.content = t[j].content
    BY <1>7, <2>2
  <2>. QED
    BY <1>9, <2>3, <2>4, <2>5
<1>11. ASSUME NEW i \in 1..n + 1, NEW j \in 1..n + 1, t[i].content = t[j].content PROVE i = j
  <2>1. \A k \in 1..n : bs[k].content # b.content
    BY <1>9
  <2>2. CASE i \in 1..n /\ j \in 1..n
    BY <1>2, <1>11, <2>2 DEF BlocksFit, n
  <2>. QED
    BY <1>2, <1>5, <1>11, <2>1, <2>2
<1>12. BlocksFit(t, hashes \cup {b.content}, s)
  <2>1. Total(t) <= budget.total
    BY <1>1, <1>3
  <2>. QED
    BY <1>2, <1>4, <1>8, <1>10, <1>11, <2>1 DEF BlocksFit
<1>. QED
  BY <1>1, <1>3, <1>12 DEF t

\* One more entry of the source.
LEMMA LoopNext ==
    ASSUME KnowledgeAssumption, budget \in Budgets, NEW s \in 1..NSources, NEW entries \in Seq(Stored),
           NEW st \in LoopState, NEW k \in 0..Len(entries) - 1, LoopInv(st, s, entries, k)
    PROVE  LoopInv(Considered(s, st, entries[k + 1]), s, entries, k + 1)
<1>. DEFINE c == entries[k + 1]
            room == Remaining(s, st.blocks)
            b == [source |-> s, content |-> c, size |-> Lesser(Size[c], room)]
            nx == Considered(s, st, c)
<1>1. c \in Stored /\ st.blocks \in Seq(Block) /\ BlocksFit(st.blocks, st.seen, s)
  BY DEF LoopState, LoopInv
<1>2. \A i \in 1..k + 1 : i \in 1..k \/ i = k + 1
  OBVIOUS
<1>3. Weighed(s, st, c, room)
  BY <1>1, ConsideredCases
<1>4. /\ room \in Int /\ room <= budget.each - Characters(st.blocks, {s}) /\ room <= budget.total - Total(st.blocks)
      /\ room <= 0 => Characters(st.blocks, {s}) >= budget.each \/ Total(st.blocks) >= budget.total
      /\ room > 0 => b \in Block /\ b.size <= Size[c] /\ b.size <= room
  BY <1>1, RoomIsNumber
<1>5. b.source = s /\ b.content = c /\ b.size = Lesser(Size[c], room)
  OBVIOUS
<1>6. CASE ~st.on /\ nx = st
  BY <1>6 DEF LoopInv
<1>7. CASE c \in st.seen /\ nx = st
  <2>1. st.on => \A i \in 1..k + 1 : entries[i] \in st.seen
    BY <1>2, <1>7 DEF LoopInv
  <2>. QED
    BY <1>7, <2>1 DEF LoopInv
<1>8. CASE room <= 0 /\ nx = [st EXCEPT !.on = FALSE]
  <2>1. nx.blocks = st.blocks /\ nx.seen = st.seen /\ ~nx.on
    BY <1>8 DEF LoopState
  <2>. HIDE DEF nx, room
  <2>2. LoopInv(nx, s, entries, k + 1)
    BY <1>4, <1>8, <2>1 DEF LoopInv
  <2>. QED
    BY <2>2 DEF nx
<1>9. CASE /\ st.on /\ c \notin st.seen /\ ~(room <= 0)
           /\ nx = [blocks |-> Append(st.blocks, b), seen |-> st.seen \cup {c}, on |-> TRUE]
  <2>. HIDE DEF nx, room, b
  <2>1. nx.blocks = Append(st.blocks, b) /\ nx.seen = st.seen \cup {c} /\ nx.on
    BY <1>9
  <2>. HIDE DEF c
  <2>2. b \in Block /\ b.size <= Size[c] /\ b.size <= room
    BY <1>4, <1>9
  <2>3. /\ Characters(st.blocks, {s}) \in Nat /\ Total(st.blocks) \in Nat
        /\ budget.each \in Nat /\ budget.total \in Nat /\ b.size \in Nat
    BY <1>1, <2>2, CharactersType DEF Total, KnowledgeAssumption, Block
  <2>4. b.size <= budget.each - Characters(st.blocks, {s}) /\ b.size <= budget.total - Total(st.blocks)
    <3>1. \A i, j, m \in Int : i <= j /\ j <= m => i <= m
      OBVIOUS
    <3>. QED
      BY <1>4, <2>2, <2>3, <3>1
  <2>5. /\ BlocksFit(Append(st.blocks, b), st.seen \cup {c}, s)
        /\ Total(Append(st.blocks, b)) \in Nat /\ Total(Append(st.blocks, b)) >= Total(st.blocks)
    BY <1>1, <1>5, <1>9, <2>2, <2>4, BlockFits
  <2>6. ASSUME NEW r \in 1..s - 1 PROVE Heard(nx.blocks, r, got[r])
    <3>1. Heard(st.blocks, r, got[r]) /\ st.blocks \in Seq(Block)
      BY <1>1, <2>6 DEF LoopInv
    <3>2. Heard(Append(st.blocks, b), r, got[r])
      BY <2>2, <2>3, <2>5, <3>1, HeardGrows
    <3>. QED
      BY <2>1, <3>2
  <2>7. \A i \in 1..k + 1 : entries[i] \in nx.seen
    BY <1>2, <1>9, <2>1 DEF LoopInv, c
  <2>. QED
    BY <2>1, <2>5, <2>6, <2>7 DEF LoopInv, nx, c
<1>. QED
  BY <1>3, <1>6, <1>7, <1>8, <1>9 DEF Weighed

\* f[k] is the state after k entries.
Loops(f, s, entries) ==
    /\ f[0] = [blocks |-> blocks, seen |-> seen, on |-> TRUE]
    /\ \A i \in 1..Len(entries) : f[i] = Considered(s, f[i - 1], entries[i])

\* The recursion of Formatted is well defined.
LEMMA FormattedSteps ==
    ASSUME KnowledgeAssumption, budget \in Budgets, NEW s \in 1..NSources, NEW entries \in Seq(Stored),
           blocks \in Seq(Block), seen \in SUBSET Contents
    PROVE  \E f \in [0..Len(entries) -> LoopState] : Formatted(s, entries) = f[Len(entries)] /\ Loops(f, s, entries)
<1>. DEFINE n == Len(entries)
            x == [blocks |-> blocks, seen |-> seen, on |-> TRUE]
            h == [p \in LoopState \X (1..n) |-> Considered(s, p[1], entries[p[2]])]
            Step(g) == [i \in 0..n |-> IF i = 0 THEN x ELSE Considered(s, g[i - 1], entries[i])]
            F == CHOOSE g : g = Step(g)
<1>0. n \in Nat /\ x \in LoopState
  BY DEF LoopState
<1>1. h \in [LoopState \X (1..n) -> LoopState]
  <2>1. ASSUME NEW p \in LoopState \X (1..n) PROVE Considered(s, p[1], entries[p[2]]) \in LoopState
    <3>1. p[1] \in LoopState /\ entries[p[2]] \in Stored
      OBVIOUS
    <3>. QED
      BY <3>1, ConsideredType
  <2>. QED
    BY <2>1
<1>2. PICK f \in [0..n -> LoopState] : Recurses(f, n, x, h)
  <2>. HIDE DEF h, n, x
  <2>. QED
    BY <1>0, <1>1, Recursion
<1>3. Loops(f, s, entries)
  <2>1. ASSUME NEW i \in 1..n PROVE f[i] = Considered(s, f[i - 1], entries[i])
    <3>1. f[i] = h[<<f[i - 1], i>>]
      <4>. HIDE DEF h
      <4>. QED
        BY <1>2 DEF Recurses
    <3>2. f[i - 1] \in LoopState
      <4>1. i - 1 \in 0..n
        BY <1>0
      <4>. QED
        BY <4>1
    <3>3. <<f[i - 1], i>> \in LoopState \X (1..n)
      BY <3>2
    <3>4. h[<<f[i - 1], i>>] = Considered(s, f[i - 1], entries[i])
      BY <3>3
    <3>. QED
      BY <3>1, <3>4
  <2>2. f[0] = x
    BY <1>2 DEF Recurses
  <2>. QED
    BY <2>1, <2>2 DEF Loops
<1>4. f = Step(f)
  <2>1. ASSUME NEW i \in 0..n PROVE f[i] = Step(f)[i]
    <3>1. CASE i = 0
      BY <1>3, <3>1 DEF Loops
    <3>2. CASE i # 0
      <4>1. i \in 1..n
        BY <3>2
      <4>. QED
        BY <1>3, <3>2, <4>1 DEF Loops
    <3>. QED
      BY <3>1, <3>2
  <2>2. f = [i \in 0..n |-> f[i]] /\ Step(f) = [i \in 0..n |-> Step(f)[i]]
    BY Zenon
  <2>. HIDE DEF Step
  <2>. QED
    BY <2>1, <2>2, Zenon
<1>5. F = Step(F)
  <2>. HIDE DEF Step
  <2>. QED
    BY <1>4
<1>. DEFINE Same == {i \in 0..n : F[i] = f[i]}
<1>6. \A i \in 0..n : F[i] = IF i = 0 THEN x ELSE Considered(s, F[i - 1], entries[i])
  <2>. HIDE DEF F
  <2>. QED
    BY <1>5
<1>7. 0 \in Same
  <2>1. 0 \in 0..n /\ f[0] = x
    BY <1>0, <1>3 DEF Loops
  <2>. HIDE DEF F, x
  <2>. QED
    BY <1>6, <2>1
<1>8. \A k \in 0..n : k \in Same /\ k < n => k + 1 \in Same
  <2>. HIDE DEF F
  <2>. SUFFICES ASSUME NEW k \in 0..n, k \in Same, k < n PROVE k + 1 \in Same
    BY Zenon
  <2>1. k + 1 \in 1..n /\ k + 1 \in 0..n /\ (k + 1) - 1 = k /\ k + 1 # 0
    BY <1>0
  <2>2. f[k + 1] = Considered(s, f[k], entries[k + 1])
    BY <1>3, <2>1 DEF Loops
  <2>3. F[k + 1] = Considered(s, F[k], entries[k + 1])
    <3>. HIDE DEF x
    <3>. QED
      BY <1>6, <2>1
  <2>. QED
    BY <2>1, <2>2, <2>3
<1>9. F[n] = f[n]
  <2>1. n \in 0..n
    BY <1>0
  <2>2. n \in Same
    <3>. HIDE DEF Same, n
    <3>. QED
      BY <1>0, <1>7, <1>8, <2>1, Induction
  <2>. QED
    BY <2>2
<1>10. Formatted(s, entries) = F[n]
  BY DEF Formatted
<1>. QED
  <2>. HIDE DEF F
  <2>. QED
    BY <1>3, <1>9, <1>10

\* A linear order of S, and that the number of those before it ranks S without a gap.
Linear(S, R) ==
    /\ \A d, e \in S : d # e => <<d, e>> \in R \/ <<e, d>> \in R
    /\ \A d, e, f \in S : <<d, e>> \in R /\ <<e, f>> \in R => <<d, f>> \in R
    /\ \A d \in S : <<d, d>> \notin R
Ranked(S, R) == \A i \in 1..Cardinality(S) : \E d \in S : 1 + Cardinality({e \in S : <<e, d>> \in R}) = i

\* The numbers of elements before an element are the ranks 1..Cardinality(S).
LEMMA RanksEnumerate ==
    ASSUME NEW S, IsFiniteSet(S), NEW R, Linear(S, R)
    PROVE  Ranked(S, R)
<1>. DEFINE P(d) == {e \in S : <<e, d>> \in R}
            rank == [d \in S |-> 1 + Cardinality(P(d))]
            n == Cardinality(S)
<1>1. n \in Nat
  BY FS_CardinalityType
<1>2. ASSUME NEW d \in S PROVE IsFiniteSet(P(d)) /\ Cardinality(P(d)) \in Nat /\ Cardinality(P(d)) < n
  <2>1. P(d) \in SUBSET S /\ P(d) # S
    BY DEF Linear
  <2>. HIDE DEF P
  <2>2. IsFiniteSet(P(d)) /\ Cardinality(P(d)) <= n /\ (n = Cardinality(P(d)) => S = P(d))
    BY <2>1, FS_Subset
  <2>3. Cardinality(P(d)) \in Nat
    BY <2>2, FS_CardinalityType
  <2>. QED
    BY <1>1, <2>1, <2>2, <2>3
<1>3. ASSUME NEW d \in S, NEW e \in S, <<d, e>> \in R PROVE Cardinality(P(d)) < Cardinality(P(e))
  <2>1. P(d) \in SUBSET P(e)
    BY <1>3 DEF Linear
  <2>2. d \in P(e) /\ d \notin P(d)
    BY <1>3 DEF Linear
  <2>. HIDE DEF P
  <2>3. Cardinality(P(d)) <= Cardinality(P(e)) /\ (Cardinality(P(e)) = Cardinality(P(d)) => P(e) = P(d))
    BY <1>2, <2>1, FS_Subset
  <2>. QED
    BY <1>2, <2>2, <2>3
<1>4. rank \in Injection(S, 1..n)
  <2>1. \A d \in S : rank[d] = 1 + Cardinality(P(d)) /\ rank[d] \in 1..n
    <3>. HIDE DEF P
    <3>. QED
      BY <1>1, <1>2
  <2>2. ASSUME NEW d \in S, NEW e \in S, d # e PROVE rank[d] # rank[e]
    <3>1. <<d, e>> \in R \/ <<e, d>> \in R
      BY <2>2 DEF Linear
    <3>2. Cardinality(P(d)) \in Nat /\ Cardinality(P(e)) \in Nat /\ Cardinality(P(d)) # Cardinality(P(e))
      <4>. HIDE DEF P
      <4>. QED
        BY <1>2, <1>3, <3>1
    <3>. HIDE DEF P
    <3>. QED
      BY <2>1, <3>2
  <2>3. rank \in [S -> 1..n]
    <3>1. rank = [d \in S |-> rank[d]]
      OBVIOUS
    <3>. HIDE DEF rank
    <3>. QED
      BY <2>1, <3>1
  <2>. HIDE DEF rank
  <2>. QED
    BY <2>2, <2>3 DEF Injection, IsInjective
<1>5. IsFiniteSet(1..n) /\ Cardinality(1..n) = n
  <2>1. 1 \in Int /\ n \in Int
    BY <1>1
  <2>. HIDE DEF n
  <2>. QED
    BY <1>1, <2>1, FS_Interval
<1>6. rank \in Surjection(S, 1..n)
  <2>. HIDE DEF rank
  <2>. QED
    BY <1>4, <1>5, FS_Injection
<1>7. \A i \in 1..n : \E d \in S : rank[d] = i
  <2>. HIDE DEF rank
  <2>. QED
    BY <1>6 DEF Surjection
<1>. QED
  BY <1>7 DEF Ranked

\* What is retrieved is stored content that is not blank.
LEMMA RetrievedStored ==
    ASSUME KnowledgeAssumption, NEW s, docs[s] \in [DocIds -> Stored \cup {NoDoc}], NEW limit \in Nat
    PROVE  Retrieved(s, limit) \in Seq(Stored)
<1>. DEFINE hits == {d \in DocIds : docs[s][d] # NoDoc /\ Relevance[docs[s][d]] > 0}
            Before(d, e) == \/ Relevance[docs[s][d]] > Relevance[docs[s][e]]
                            \/ Relevance[docs[s][d]] = Relevance[docs[s][e]] /\ d < e
            rank == [d \in hits |-> 1 + Cardinality({e \in hits : Before(e, d)})]
            n == IF Cardinality(hits) < limit THEN Cardinality(hits) ELSE limit
            R == {p \in hits \X hits : Before(p[1], p[2])}
<1>1. hits \in SUBSET DocIds /\ \A d \in hits : docs[s][d] \in Stored /\ Relevance[docs[s][d]] \in Nat /\ d \in Int
  BY DEF KnowledgeAssumption, Stored
<1>2. IsFiniteSet(hits) /\ Cardinality(hits) \in Nat
  <2>. HIDE DEF hits
  <2>1. IsFiniteSet(hits)
    BY <1>1, FS_Subset DEF KnowledgeAssumption
  <2>. QED
    BY <2>1, FS_CardinalityType
<1>3. \A d, e \in hits : <<d, e>> \in R <=> Before(d, e)
  <2>. HIDE DEF hits, Before
  <2>. QED
    OBVIOUS
<1>4. /\ \A d, e \in hits : d # e => Before(d, e) \/ Before(e, d)
      /\ \A d, e, f \in hits : Before(d, e) /\ Before(e, f) => Before(d, f)
      /\ \A d \in hits : ~Before(d, d)
  <2>. DEFINE rel == [d \in hits |-> Relevance[docs[s][d]]]
  <2>1. \A d \in hits : rel[d] = Relevance[docs[s][d]] /\ rel[d] \in Nat /\ d \in Int
    BY <1>1
  <2>2. \A d, e \in hits : Before(d, e) <=> rel[d] > rel[e] \/ (rel[d] = rel[e] /\ d < e)
    BY <2>1
  <2>. HIDE DEF hits, rel, Before
  <2>. QED
    BY <2>1, <2>2
<1>5. Ranked(hits, R)
  <2>. HIDE DEF hits, R, Before
  <2>1. Linear(hits, R)
    BY <1>3, <1>4 DEF Linear
  <2>. QED
    BY <1>2, <2>1, RanksEnumerate
<1>6. \A d \in hits : {e \in hits : <<e, d>> \in R} = {e \in hits : Before(e, d)}
  <2>. HIDE DEF hits, R, Before
  <2>. QED
    BY <1>3
<1>7. n \in Nat /\ n <= Cardinality(hits)
  <2>. HIDE DEF hits
  <2>. QED
    BY <1>2
<1>8. ASSUME NEW i \in 1..n PROVE docs[s][CHOOSE d \in hits : rank[d] = i] \in Stored
  <2>. HIDE DEF hits, R, Before, n
  <2>1. i \in 1..Cardinality(hits)
    <3>. DEFINE m == Cardinality(hits)
    <3>1. m \in Nat /\ n \in Nat /\ n <= m
      BY <1>2, <1>7
    <3>. HIDE DEF m
    <3>2. i \in 1..m
      BY <3>1
    <3>. QED
      BY <3>2 DEF m
  <2>2. \E d \in hits : rank[d] = i
    <3>1. PICK d \in hits : 1 + Cardinality({e \in hits : <<e, d>> \in R}) = i
      BY <1>5, <2>1 DEF Ranked
    <3>2. {e \in hits : <<e, d>> \in R} = {e \in hits : Before(e, d)}
      BY <1>6
    <3>3. rank[d] = 1 + Cardinality({e \in hits : Before(e, d)})
      OBVIOUS
    <3>4. rank[d] = i
      <4>. HIDE DEF rank
      <4>. QED
        BY <3>1, <3>2, <3>3, Zenon
    <3>. HIDE DEF rank
    <3>. QED
      BY <3>4
  <2>3. (CHOOSE d \in hits : rank[d] = i) \in hits
    <3>. HIDE DEF rank
    <3>. QED
      BY <2>2
  <2>. HIDE DEF rank
  <2>. QED
    BY <1>1, <2>3
<1>9. Retrieved(s, limit) = [i \in 1..n |-> docs[s][CHOOSE d \in hits : rank[d] = i]]
  BY DEF Retrieved
<1>. HIDE DEF hits, rank, n
<1>10. [i \in 1..n |-> docs[s][CHOOSE d \in hits : rank[d] = i]] \in Seq(Stored)
  <2>. DEFINE at(i) == docs[s][CHOOSE d \in hits : rank[d] = i]
  <2>1. \A i \in 1..n : at(i) \in Stored
    BY <1>8
  <2>. HIDE DEF at
  <2>2. [i \in 1..n |-> at(i)] \in Seq(Stored)
    BY <1>7, <2>1
  <2>. QED
    BY <2>2 DEF at
<1>. QED
  BY <1>9, <1>10

\* So is what is left of the answer of a backend.
LEMMA BackendStored ==
    ASSUME NEW n \in Nat, NEW reply \in [1..n -> Stored], NEW limit \in Nat
    PROVE  FromBackend(limit, reply) \in Seq(Stored)
<1>1. reply \in Seq(Stored) /\ Len(reply) = n
  OBVIOUS
<1>. QED
  BY <1>1 DEF FromBackend

-----------------------------------------------------------------------------
\* The context between two requests to the sources.
KnInv ==
    /\ budget \in Budgets
    /\ docs \in [1..NSources -> [DocIds -> Stored \cup {NoDoc}]]
    /\ asked \in 0..NSources
    /\ BlocksFit(blocks, seen, asked)
    /\ \A s \in 1..asked : Heard(blocks, s, got[s])
    /\ DOMAIN got = 1..NSources
    /\ outcome \in {"none", "context", "error"}

\* A source has been taken in whole.
LEMMA TakeKeeps ==
    ASSUME KnowledgeAssumption, KnInv, asked < NSources, NEW entries \in Seq(Stored), TakeFrom(asked + 1, entries)
    PROVE  KnInv'
<1>. DEFINE s == asked + 1
            n == Len(entries)
<1>0. /\ NSources \in Nat /\ asked \in Nat /\ s \in 1..NSources /\ s - 1 = asked /\ n \in Nat /\ n \in 0..n
      /\ budget.each \in Nat \ {0} /\ budget.total \in Nat
  BY DEF KnowledgeAssumption, KnInv
<1>1. blocks \in Seq(Block) /\ seen \in SUBSET Contents
  <2>1. blocks \in Seq(Block) /\ seen = {blocks[i].content : i \in 1..Len(blocks)}
    BY DEF KnInv, BlocksFit
  <2>2. \A i \in 1..Len(blocks) : blocks[i].content \in Contents
    BY <2>1, BlockAt
  <2>. QED
    BY <2>1, <2>2
<1>. HIDE DEF s, n
<1>2. PICK f \in [0..n -> LoopState] : Formatted(s, entries) = f[n] /\ Loops(f, s, entries)
  BY <1>0, <1>1, FormattedSteps DEF KnInv, n
<1>. DEFINE S == {k \in 0..n : LoopInv(f[k], s, entries, k)}
<1>3. 0 \in S
  <2>1. f[0] = [blocks |-> blocks, seen |-> seen, on |-> TRUE]
    BY <1>2 DEF Loops
  <2>2. f[0].blocks = blocks /\ f[0].seen = seen /\ f[0].on
    BY <2>1
  <2>3. BlocksFit(blocks, seen, s)
    <3>1. \A i \in 1..Len(blocks) : blocks[i].source \in Nat /\ blocks[i].source <= asked
      BY <1>0, <1>1, BlockAt DEF KnInv, BlocksFit
    <3>2. \A i \in 1..Len(blocks) : blocks[i].source <= s
      BY <1>0, <3>1 DEF s
    <3>. QED
      BY <3>2 DEF KnInv, BlocksFit
  <2>4. \A r \in 1..s - 1 : Heard(blocks, r, got[r])
    BY <1>0 DEF KnInv
  <2>. QED
    BY <1>0, <2>2, <2>3, <2>4 DEF LoopInv
<1>4. ASSUME NEW k \in 0..n, k \in S, k < n PROVE k + 1 \in S
  <2>1. k + 1 \in 1..n /\ (k + 1) - 1 = k /\ k + 1 \in 0..n /\ k \in 0..n - 1
    BY <1>0, <1>4
  <2>2. f[k + 1] = Considered(s, f[k], entries[k + 1]) /\ f[k] \in LoopState
    BY <1>2, <2>1 DEF Loops, n
  <2>3. LoopInv(Considered(s, f[k], entries[k + 1]), s, entries, k + 1)
    BY <1>0, <1>4, <2>1, <2>2, LoopNext DEF KnInv, n
  <2>. QED
    BY <2>1, <2>2, <2>3
<1>5. LoopInv(f[n], s, entries, n) /\ f[n] \in LoopState
  <2>1. n \in S
    <3>. HIDE DEF S
    <3>. QED
      BY <1>0, <1>3, <1>4, Induction
  <2>. QED
    BY <1>0, <2>1
<1>6. /\ blocks' = f[n].blocks /\ seen' = f[n].seen /\ asked' = s /\ got' = [got EXCEPT ![s] = entries]
      /\ UNCHANGED <<budget, docs, outcome>>
  BY <1>2 DEF TakeFrom, s
<1>. DEFINE bs == f[n].blocks
            hs == f[n].seen
<1>7. /\ BlocksFit(bs, hs, s) /\ bs \in Seq(Block)
      /\ \A r \in 1..s - 1 : Heard(bs, r, got[r])
      /\ f[n].on => \A i \in 1..n : entries[i] \in hs
      /\ ~f[n].on => Characters(bs, {s}) >= budget.each \/ Total(bs) >= budget.total
  BY <1>5 DEF LoopInv, LoopState
<1>. HIDE DEF bs, hs
<1>8. Heard(bs, s, entries)
  <2>1. CASE f[n].on
    <3>1. hs = {bs[i].content : i \in 1..Len(bs)}
      BY <1>7 DEF BlocksFit
    <3>2. \A i \in 1..n : \E b \in 1..Len(bs) : bs[b].content = entries[i]
      BY <1>7, <2>1, <3>1
    <3>. QED
      BY <3>2 DEF Heard, n
  <2>2. CASE Total(bs) >= budget.total
    BY <2>2 DEF Heard
  <2>3. CASE Characters(bs, {s}) >= budget.each
    <3>1. Characters(bs, {s}) # 0
      BY <1>0, <1>7, <2>3, CharactersType
    <3>2. \E b \in 1..Len(bs) : bs[b].source = s
      BY <1>7, <3>1, CharactersNone
    <3>. QED
      BY <3>2 DEF Heard
  <2>. QED
    BY <1>7, <2>1, <2>2, <2>3
<1>9. /\ DOMAIN got' = 1..NSources /\ got'[s] = entries /\ \A r \in 1..NSources : r # s => got'[r] = got[r]
  BY <1>0, <1>6 DEF KnInv
<1>10. ASSUME NEW r \in 1..s PROVE Heard(bs, r, got'[r])
  <2>1. CASE r = s
    BY <1>8, <1>9, <2>1
  <2>2. CASE r # s
    <3>1. r \in 1..s - 1 /\ r \in 1..NSources
      BY <1>0, <2>2
    <3>. QED
      BY <1>7, <1>9, <2>2, <3>1
  <2>. QED
    BY <2>1, <2>2
<1>11. blocks' = bs /\ seen' = hs
  BY <1>6 DEF bs, hs
<1>12. BlocksFit(blocks, seen, asked)' /\ \A r \in 1..asked' : Heard(blocks, r, got[r])'
  <2>1. BlocksFit(blocks', seen', asked') /\ \A r \in 1..asked' : Heard(blocks', r, got'[r])
    BY <1>6, <1>7, <1>10, <1>11
  <2>2. BlocksFit(blocks, seen, asked)'
    BY <1>6, <2>1 DEF BlocksFit
  <2>3. ASSUME NEW r \in 1..asked' PROVE Heard(blocks, r, got[r])'
    BY <1>6, <2>1 DEF Heard
  <2>. QED
    BY <2>2, <2>3
<1>13. asked' \in 0..NSources
  BY <1>0, <1>6
<1>. QED
  BY <1>6, <1>9, <1>12, <1>13 DEF KnInv

\* The blocks say the same while nothing is taken.
LEMMA BlocksKept ==
    ASSUME KnInv, UNCHANGED <<budget, asked, blocks, seen, got>>
    PROVE  BlocksFit(blocks, seen, asked)' /\ \A r \in 1..asked' : Heard(blocks, r, got[r])'
<1>1. BlocksFit(blocks, seen, asked)'
  BY DEF KnInv, BlocksFit
<1>2. \A r \in 1..asked' : Heard(blocks, r, got[r])'
  BY DEF KnInv, Heard
<1>. QED
  BY <1>1, <1>2

\* Adding and deleting documents touches nothing but the stored documents.
LEMMA DocumentsKeep ==
    ASSUME KnowledgeAssumption, KnInv, NEW s \in 1..NSources,
           \/ \E d \in DocIds, c \in Contents : AddDocument(s, d, c)
           \/ \E ids \in SUBSET DocIds : DeleteDocument(s, ids)
    PROVE  KnInv'
<1>1. UNCHANGED <<budget, asked, blocks, seen, got, outcome>>
  BY DEF AddDocument, DeleteDocument, context
<1>2. docs' \in [1..NSources -> [DocIds -> Stored \cup {NoDoc}]]
  <2>1. ASSUME NEW d \in DocIds, NEW c \in Contents, AddDocument(s, d, c)
        PROVE  docs' \in [1..NSources -> [DocIds -> Stored \cup {NoDoc}]]
    <3>1. c \in Stored /\ docs' = [docs EXCEPT ![s][d] = c]
      BY <2>1 DEF AddDocument, Stored
    <3>2. docs[s] \in [DocIds -> Stored \cup {NoDoc}]
      BY DEF KnInv
    <3>3. [docs[s] EXCEPT ![d] = c] \in [DocIds -> Stored \cup {NoDoc}]
      BY <3>1, <3>2
    <3>. QED
      BY <3>1, <3>3 DEF KnInv
  <2>2. ASSUME NEW ids \in SUBSET DocIds, DeleteDocument(s, ids)
        PROVE  docs' \in [1..NSources -> [DocIds -> Stored \cup {NoDoc}]]
    <3>1. docs' = [docs EXCEPT ![s] = [d \in DocIds |-> IF d \in ids THEN NoDoc ELSE docs[s][d]]]
      BY <2>2 DEF DeleteDocument
    <3>2. docs[s] \in [DocIds -> Stored \cup {NoDoc}]
      BY DEF KnInv
    <3>3. [d \in DocIds |-> IF d \in ids THEN NoDoc ELSE docs[s][d]] \in [DocIds -> Stored \cup {NoDoc}]
      BY <3>2
    <3>. QED
      BY <3>1, <3>3 DEF KnInv
  <2>. QED
    BY <2>1, <2>2
<1>3. BlocksFit(blocks, seen, asked)' /\ \A r \in 1..asked' : Heard(blocks, r, got[r])'
  BY <1>1, BlocksKept
<1>. QED
  BY <1>1, <1>2, <1>3 DEF KnInv

\* A context that ends keeps what it has.
LEMMA EndKeeps ==
    ASSUME KnInv, UNCHANGED <<budget, docs, asked, blocks, seen, got>>, outcome' \in {"none", "context", "error"}
    PROVE  KnInv'
<1>1. BlocksFit(blocks, seen, asked)' /\ \A r \in 1..asked' : Heard(blocks, r, got[r])'
  BY BlocksKept
<1>. QED
  BY <1>1 DEF KnInv

\* Nothing is retrieved at first.
LEMMA KnStarts == ASSUME KnowledgeAssumption, KnInit PROVE KnInv
<1>1. Total(<<>>) = 0 /\ \A s \in 1..NSources : Characters(<<>>, {s}) = 0
  BY CharactersEmpty DEF Total
<1>2. budget \in Budgets /\ budget.each \in Nat /\ budget.total \in Nat /\ NSources \in Nat
  BY DEF KnInit, KnowledgeAssumption
<1>3. BlocksFit(<<>>, {}, 0)
  BY <1>1, <1>2 DEF BlocksFit
<1>4. docs \in [1..NSources -> [DocIds -> Stored \cup {NoDoc}]] /\ DOMAIN got = 1..NSources
  BY DEF KnInit
<1>. QED
  BY <1>2, <1>3, <1>4 DEF KnInit, KnInv

\* The invariant contains what the context promises.
LEMMA KnImplied == ASSUME KnowledgeAssumption, KnInv PROVE ContextSound
<1>1. blocks \in Seq(Block) /\ asked \in Nat
  BY DEF KnInv, BlocksFit, KnowledgeAssumption
<1>2. ASSUME NEW i \in 1..Len(blocks)
      PROVE  /\ blocks[i].source \in 1..asked /\ blocks[i].content \in Contents
             /\ blocks[i].size \in 1..Size[blocks[i].content]
  <2>1. blocks[i] \in Block /\ blocks[i].source <= asked /\ blocks[i].size <= Size[blocks[i].content]
    BY <1>1 DEF KnInv, BlocksFit
  <2>2. blocks[i].source \in Nat \ {0} /\ blocks[i].content \in Contents /\ blocks[i].size \in Nat \ {0}
        /\ Size[blocks[i].content] \in Nat
    BY <2>1 DEF Block, KnowledgeAssumption
  <2>. QED
    BY <1>1, <2>1, <2>2
<1>3. seen \subseteq Contents
  BY <1>2 DEF KnInv, BlocksFit
<1>4. docs \in [1..NSources -> [DocIds -> Contents \cup {NoDoc}]]
  <2>1. Stored \cup {NoDoc} \subseteq Contents \cup {NoDoc}
    BY DEF Stored
  <2>2. \A s \in 1..NSources : docs[s] \in [DocIds -> Contents \cup {NoDoc}]
    BY <2>1 DEF KnInv
  <2>3. docs = [s \in 1..NSources |-> docs[s]]
    BY DEF KnInv
  <2>. QED
    BY <2>2, <2>3
<1>5. KnTypeOK
  BY <1>2, <1>3, <1>4 DEF KnInv, KnTypeOK
<1>6. ContextBounded
  BY DEF KnInv, BlocksFit, ContextBounded
<1>7. EverySourceHeard
  BY DEF KnInv, Heard, EverySourceHeard
<1>. QED
  BY <1>5, <1>6, <1>7 DEF ContextSound

\* For every choice of sources, contents and budgets: the context stays within the budgets,
\* has no content twice, and hears every source, whatever is added and deleted meanwhile.
THEOREM ContextIsSound ==
    ASSUME KnowledgeAssumption
    PROVE  KnSpec => []ContextSound
<1>1. KnInit => KnInv
  BY KnStarts
<1>2. KnInv /\ [KnNext]_knvars => KnInv'
  <2>. SUFFICES ASSUME KnInv, [KnNext]_knvars PROVE KnInv'
    OBVIOUS
  <2>0. (budget.limit \in Nat /\ asked + 1 \in 1..NSources) \/ ~(asked < NSources)
    BY DEF KnInv, KnowledgeAssumption
  <2>1. CASE RetrieveSqlite
    <3>1. asked < NSources /\ TakeFrom(asked + 1, Retrieved(asked + 1, budget.limit))
      BY <2>1 DEF RetrieveSqlite
    <3>2. docs[asked + 1] \in [DocIds -> Stored \cup {NoDoc}] /\ budget.limit \in Nat
      BY <2>0, <3>1 DEF KnInv
    <3>3. Retrieved(asked + 1, budget.limit) \in Seq(Stored)
      BY <3>2, RetrievedStored
    <3>. QED
      BY <3>1, <3>3, TakeKeeps
  <2>2. CASE RetrieveHttp
    <3>0. PICK n \in 0..MaxHttp : \E reply \in [1..n -> Stored] : TakeFrom(asked + 1, FromBackend(budget.limit, reply))
      BY <2>2 DEF RetrieveHttp, Stored
    <3>1. PICK reply \in [1..n -> Stored] : TakeFrom(asked + 1, FromBackend(budget.limit, reply))
      BY <3>0
    <3>2. n \in Nat /\ asked < NSources /\ budget.limit \in Nat
      BY <2>0, <2>2 DEF RetrieveHttp, KnowledgeAssumption
    <3>3. FromBackend(budget.limit, reply) \in Seq(Stored)
      BY <3>2, BackendStored
    <3>. QED
      BY <3>1, <3>2, <3>3, TakeKeeps
  <2>3. CASE RetrieveFails \/ ContextDone
    BY <2>3, EndKeeps DEF RetrieveFails, ContextDone
  <2>4. ASSUME NEW s \in 1..NSources,
               \/ \E d \in DocIds, c \in Contents : AddDocument(s, d, c)
               \/ \E ids \in {DocIds} \cup {{d} : d \in DocIds} : DeleteDocument(s, ids)
        PROVE  KnInv'
    <3>1. {DocIds} \cup {{d} : d \in DocIds} \subseteq SUBSET DocIds
      OBVIOUS
    <3>2. \/ \E d \in DocIds, c \in Contents : AddDocument(s, d, c)
          \/ \E ids \in SUBSET DocIds : DeleteDocument(s, ids)
      BY <2>4, <3>1, Zenon
    <3>. QED
      BY <3>2, DocumentsKeep
  <2>5. CASE UNCHANGED knvars
    BY <2>5, EndKeeps DEF knvars, KnInv
  <2>. QED
    BY <2>1, <2>2, <2>3, <2>4, <2>5 DEF KnNext
<1>3. KnInv => ContextSound
  BY KnImplied
<1>. QED
  BY <1>1, <1>2, <1>3, PTL DEF KnSpec

------------------------------------------------------------------------------
(* The Google ADK adapter.                                                  *)

Pcs == Outside \cup InRunner \cup Ended \cup {"idle", "finish", "snap", "save"}
Session == [ver : Nat, whole : BOOLEAN, events : Seq(Event)]
Invocation == [pc : Pcs, kind : {"fresh", "resume", "approve"}, inv : Requests, out : Seq(Event),
               next : {"idle", "model", "tool", "finish"}, ver : Nat, seen : Seq(Event), call : Requests,
               says : {"none", "yes", "no"}, called : BOOLEAN, yielded : Seq(Event)]
Snapshots == [held : BOOLEAN, events : Seq(Event)]

\* The types, and the sequences that are never empty where their head is taken.
RowSound(s) == s \in Session /\ (s.ver = 0 => s = NoSession) /\ (~s.whole => s.events = <<>>)
ReqSound(x) ==
    /\ x.pc \in {"get", "put"} => x.out # <<>>
    /\ x.pc = "put" => x.ver # 0
    /\ x.kind = "approve" => x.says # "none"
AdkTypes ==
    /\ setup \in Setups /\ RowSound(sess)
    /\ req \in [Requests -> Invocation] /\ \A r \in Requests : ReqSound(req[r])
    /\ ckpt \in [Requests -> Snapshots] /\ \A i \in Requests : ckpt[i].held => ckpt[i].events # <<>>
    /\ claimed \subseteq Requests /\ approved \subseteq Requests /\ rolled \in BOOLEAN
    /\ ran \in [Requests -> Nat]

\* A decision is one of an approval, and an approved call is noted before it is claimed.
Gated ==
    /\ \A r \in Requests :
        /\ req[r].says # "none" => req[r].kind = "approve"
        /\ req[r].says = "yes" /\ req[r].pc \notin Ended \cup {"check"} => req[r].call \in approved
    /\ setup.gated /\ setup.tool = "unsafe" =>
        /\ \A c \in Requests : ran[c] > 0 => c \in approved
        /\ \A r \in Requests : req[r].pc \in {"claim", "exec"} => req[r].says = "yes"

\* Of the requests with the same call one holds the claim, and only before it has run.
Registered ==
    setup.registry /\ setup.tool = "unsafe" =>
        /\ \A c \in Requests : ran[c] <= 1 /\ (ran[c] > 0 => c \in claimed)
        /\ \A r \in Requests : req[r].pc = "exec" => req[r].call \in claimed /\ ran[req[r].call] = 0
        /\ \A r, q \in Requests : req[r].pc = "exec" /\ req[q].pc = "exec" /\ req[r].call = req[q].call => r = q

\* Requests that follow each other: an invocation that is finished is nobody's any more.
OneAtATime == \A r, q \in Requests : Active(r) /\ Active(q) => r = q
Finished ==
    /\ \A i \in Requests : ckpt[i].held => req[i].pc # "idle"
    /\ \A r \in Requests : req[r].inv # r => req[req[r].inv].pc # "idle"
    /\ \A r \in Requests : req[r].pc \in {"success", "paused"} =>
        ~ckpt[req[r].inv].held /\ \A q \in Requests : Active(q) => req[q].inv # req[r].inv
Sequential == ~setup.overlap => OneAtATime /\ Finished

\* The calls of invocation i among the events E have their responses.
Settled(E, i) ==
    \A c \in Requests : <<"call", c, i, c>> \in E => \E e \in E : KindOf(e) = "resp" /\ CallOf(e) = c

\* What a request that is alone finds the session in.
Alone(r) ==
    /\ req[r].pc = "create" => sess.ver = 0
    /\ req[r].pc = "fill" => sess.ver = 1 /\ ~sess.whole
    /\ req[r].pc \in InRunner => sess.whole
    /\ req[r].pc = "put" => req[r].seen = sess.events /\ req[r].ver = sess.ver
    /\ req[r].pc \in Outside \cup {"run"} => req[r].next = "idle"
    /\ req[r].pc \in {"run", "ensure", "check"} => req[r].out = <<>>
    /\ req[r].pc = "ensure" => req[r].kind = "fresh"
    /\ req[r].pc = "check" => req[r].kind = "approve"

\* A resumed invocation has no call without a response.
Resumed(r) ==
    req[r].kind = "resume" /\ req[r].next = "idle" =>
        /\ req[r].pc \in Outside => Settled(ToSet(req[r].out), req[r].inv)
        /\ req[r].pc \in {"get", "put", "run"} => Settled(ToSet(req[r].out) \cup ToSet(sess.events), req[r].inv)

\* Without a gate a request runs its own call, once.
NoAsk(E) == \A e \in E : KindOf(e) # "ask"
Own(r) ==
    /\ req[r].kind # "approve" /\ req[r].pc # "paused" /\ NoAsk(ToSet(req[r].yielded))
    /\ req[r].next # "idle" => NoAsk(ToSet(req[r].out))
    /\ ran[r] <= 1
    /\ req[r].pc = "idle" \/ (Active(r) /\ ~req[r].called) => ran[r] = 0
    /\ req[r].pc \in {"tool", "claim", "exec"} \/ (req[r].pc \in {"get", "put"} /\ req[r].next = "tool")
         => req[r].call = r /\ ran[r] = 0 /\ req[r].called

\* Among the events E there is one of the kinds K about the call c.
Told(K, c, E) == \E e \in E : KindOf(e) \in K /\ CallOf(e) = c

\* With a gate a call is run by the approval that has answered its confirmation.
Confirmed(r) ==
    req[r].kind = "approve" =>
        /\ req[r].pc \in {"run", "get", "put", "tool", "claim", "exec"} /\ req[r].next \in {"idle", "tool"} => ran[req[r].call] = 0
        /\ req[r].pc \in {"get", "put"} /\ req[r].next = "tool" => req[r].out = <<<<req[r].says, r, r, req[r].call>>>>
        /\ req[r].pc \in {"tool", "claim", "exec"} =>
               req[r].next = "tool" /\ Told({req[r].says}, req[r].call, ToSet(sess.events))

SnapshotsSettled == \A i \in Requests : ckpt[i].held => Settled(ToSet(ckpt[i].events), i)
Decided == \A c \in Requests : ran[c] <= 1 /\ (ran[c] > 0 => Told({"yes"}, c, ToSet(sess.events)))

RunsOnce ==
    ~setup.overlap =>
        /\ \A r \in Requests : Alone(r)
        /\ setup.tool = "unsafe" =>
            /\ SnapshotsSettled
            /\ \A r \in Requests : Resumed(r)
            /\ ~setup.gated => \A r \in Requests : Own(r)
            /\ setup.gated /\ ~rolled => Decided /\ \A r \in Requests : Confirmed(r)

\* No event is written twice.
Distinct(s) == \A i, j \in DOMAIN s : s[i] = s[j] => i = j
Unrepeated ==
    /\ Distinct(sess.events)
    /\ \A r \in Requests : req[r].pc = "put" => Distinct(req[r].seen) /\ ~Contains(req[r].seen, Head(req[r].out))

\* In a session that was there and is not restored: an answer comes after its call,
\* and what a request has yielded is in the session.
Answering(e) == KindOf(e) \in {"ask", "resp"}
Made(c) == Has({"call"}, c, sess.events)
Kept(r) ==
    /\ req[r].pc \notin {"exists", "create", "fill"} /\ (req[r].pc \in {"get", "put"} => req[r].next # "idle")
    /\ req[r].pc = "ensure" => req[r].kind = "fresh"
    /\ req[r].pc = "put" => req[r].ver <= sess.ver /\ (req[r].ver = sess.ver => req[r].seen = sess.events)
    /\ ToSet(req[r].yielded) \subseteq ToSet(sess.events)
    /\ req[r].pc \in {"get", "put"} => \A e \in ToSet(req[r].out) : Answering(e) => Made(CallOf(e))
    /\ req[r].pc \in {"tool", "claim", "exec", "record"} => Made(req[r].call)
    /\ req[r].kind = "approve" /\ (req[r].pc = "run" \/ (req[r].pc \in {"get", "put"} /\ req[r].next = "tool")) => Made(req[r].call)
    /\ req[r].kind # "approve" /\ req[r].pc \in {"get", "put"} /\ req[r].next = "tool" =>
           req[r].out = <<<<"call", r, req[r].inv, r>>>> /\ req[r].call = r
Ordered ==
    setup.begun /\ ~rolled =>
        /\ sess.whole
        /\ \A i \in DOMAIN sess.events : Answering(sess.events[i]) =>
            \E j \in 1..i : KindOf(sess.events[j]) = "call" /\ CallOf(sess.events[j]) = CallOf(sess.events[i])
        /\ \A r \in Requests : Kept(r)

AdkInv == AdkTypes /\ Gated /\ Registered /\ Sequential /\ RunsOnce /\ Unrepeated /\ Ordered

\* A request at rest, and one that has failed.
AtRest(x, r) ==
    /\ x.kind = "fresh" /\ x.inv = r /\ x.out = <<>> /\ x.next = "idle" /\ x.ver = 0 /\ x.seen = <<>>
    /\ x.call = r /\ x.says = "none" /\ ~x.called /\ x.yielded = <<>>

LEMMA QuietIs ==
    ASSUME NEW r \in Requests
    PROVE  /\ Quiet(r) \in Invocation /\ Dead(r) \in Invocation
           /\ Quiet(r).pc = "idle" /\ AtRest(Quiet(r), r)
           /\ Dead(r).pc = "failed" /\ AtRest(Dead(r), r)
<1>0. "idle" \in Pcs /\ "failed" \in Pcs /\ <<>> \in Seq(Event)
  BY DEF Pcs, Ended
<1>1. Quiet(r) \in Invocation
  BY <1>0 DEF Quiet, Invocation
<1>2. Quiet(r).pc = "idle" /\ AtRest(Quiet(r), r)
  BY DEF Quiet, AtRest
<1>. DEFINE y == Quiet(r)
<1>. HIDE DEF y
<1>3. Dead(r) = [y EXCEPT !.pc = "failed"] /\ y \in Invocation /\ AtRest(y, r)
  BY <1>1, <1>2 DEF Dead, y
<1>4. Dead(r) \in Invocation
  BY <1>0, <1>3 DEF Invocation
<1>5. Dead(r).pc = "failed" /\ AtRest(Dead(r), r)
  BY <1>3 DEF AtRest, Invocation
<1>. QED
  BY <1>1, <1>2, <1>4, <1>5

\* A request that has changed where it is and nothing that says what it is doing.
SameTask(x, y) ==
    x.kind = y.kind /\ x.inv = y.inv /\ x.next = y.next /\ x.call = y.call /\ x.says = y.says /\ (x.called <=> y.called)

\* What Advanced() changes.
IsAdvanced(x, y) ==
    /\ x \in Invocation /\ SameTask(x, y)
    /\ x.out = Tail(y.out) /\ x.ver = 0 /\ x.seen = <<>>
    /\ x.out # <<>> => x.pc = "get"
    /\ x.out = <<>> => x.pc = IF y.next = "idle" THEN "run" ELSE y.next
    /\ x.yielded = IF y.next = "idle" THEN y.yielded ELSE Append(y.yielded, Head(y.out))

LEMMA AdvancedIs ==
    ASSUME NEW r \in Requests, req[r] \in Invocation, req[r].out # <<>>
    PROVE  IsAdvanced(Advanced(r), req[r])
<1>. DEFINE y == req[r]
            z == IF y.next = "idle" THEN y.yielded ELSE Append(y.yielded, Head(y.out))
            p == IF Tail(y.out) # <<>> THEN "get" ELSE IF y.next = "idle" THEN "run" ELSE y.next
            t == Tail(y.out)
            e == <<>>
<1>1. t \in Seq(Event) /\ Head(y.out) \in Event /\ z \in Seq(Event) /\ e \in Seq(Event)
  BY DEF Invocation
<1>2. p \in Pcs
  BY DEF Invocation, Pcs, InRunner
<1>3. Advanced(r) = [y EXCEPT !.pc = p, !.out = t, !.ver = 0, !.seen = e, !.yielded = z]
  BY DEF Advanced, Invocation
<1>4. y \in Invocation
  OBVIOUS
<1>. HIDE DEF z, p, t, y, e
<1>5. Advanced(r) \in Invocation
  <2>1. [y EXCEPT !.pc = p, !.out = t, !.ver = 0, !.seen = e, !.yielded = z] \in Invocation
    BY <1>1, <1>2, <1>4 DEF Invocation
  <2>. QED
    BY <1>3, <2>1, Zenon
<1>6. SameTask(Advanced(r), y)
  BY <1>3, <1>4 DEF Invocation, SameTask
<1>7. LET x == Advanced(r) IN x.pc = p /\ x.out = t /\ x.ver = 0 /\ x.seen = e /\ x.yielded = z
  BY <1>3, <1>4 DEF Invocation
<1>. QED
  BY <1>5, <1>6, <1>7 DEF z, p, t, e, y, IsAdvanced

\* What Failed() changes.
IsFailed(x, y) ==
    /\ x \in Invocation /\ SameTask(x, y) /\ x.pc = "snap" /\ x.out = <<>> /\ x.ver = 0 /\ x.seen = <<>> /\ x.yielded = y.yielded
    /\ y.kind # "approve" /\ (y.pc \in {"get", "put"} => y.next # "idle")

LEMMA FailedIs ==
    ASSUME NEW r \in Requests, req[r] \in Invocation
    PROVE  Failed(r) = Dead(r) \/ IsFailed(Failed(r), req[r])
<1>1. CASE Failed(r) # Dead(r)
  <2>. DEFINE y == req[r]
              e == <<>>
  <2>1. /\ Failed(r) = [y EXCEPT !.pc = "snap", !.out = e, !.ver = 0, !.seen = e]
        /\ y.kind # "approve" /\ (y.pc \in {"get", "put"} => y.next # "idle")
    BY <1>1 DEF Failed
  <2>2. "snap" \in Pcs /\ e \in Seq(Event) /\ y \in Invocation
    BY DEF Pcs
  <2>. HIDE DEF y, e
  <2>3. Failed(r) \in Invocation
    <3>1. [y EXCEPT !.pc = "snap", !.out = e, !.ver = 0, !.seen = e] \in Invocation
      BY <2>2 DEF Invocation
    <3>. QED
      BY <2>1, <3>1, Zenon
  <2>4. SameTask(Failed(r), y)
    BY <2>1, <2>2 DEF Invocation, SameTask
  <2>5. LET x == Failed(r) IN x.pc = "snap" /\ x.out = e /\ x.ver = 0 /\ x.seen = e /\ x.yielded = y.yielded
    BY <2>1, <2>2 DEF Invocation
  <2>. QED
    BY <2>1, <2>3, <2>4, <2>5 DEF IsFailed, y, e
<1>. QED
  BY <1>1

-----------------------------------------------------------------------------
\* The steps of a request by what they change: y becomes x.
Others(r) == req' \in [Requests -> Invocation] /\ \A q \in Requests : q # r => req'[q] = req[q]
Steady == UNCHANGED <<setup, sess, ckpt, claimed, ran, approved, rolled>>

Jumped(x, y, p) ==
    SameTask(x, y) /\ x.pc = p /\ x.out = y.out /\ x.ver = y.ver /\ x.seen = y.seen /\ x.yielded = y.yielded
Sent(x, y, es, p) ==
    /\ x.kind = y.kind /\ x.inv = y.inv /\ x.call = y.call /\ x.says = y.says /\ (x.called <=> y.called)
    /\ x.ver = y.ver /\ x.seen = y.seen /\ x.yielded = y.yielded
    /\ x.pc = "get" /\ x.out = es /\ x.next = p

\* A request takes a record.
LEMMA SetMoves ==
    ASSUME AdkTypes, NEW r \in Requests, NEW x \in Invocation, Set(r, x)
    PROVE  Others(r) /\ req'[r] = x
  BY DEF AdkTypes, Set, Others

\* A request goes somewhere else.
LEMMA GoMoves ==
    ASSUME AdkTypes, NEW r \in Requests, NEW p \in Pcs, Go(r, p)
    PROVE  /\ Others(r)
           /\ p = "failed" => req'[r] = Dead(r)
           /\ p # "failed" => Jumped(req'[r], req[r], p)
<1>1. CASE p = "failed"
  BY <1>1, SetMoves, QuietIs DEF Go
<1>2. CASE p # "failed"
  <2>1. req[r] \in Invocation
    BY DEF AdkTypes
  <2>2. [req[r] EXCEPT !.pc = p] \in Invocation
    BY <2>1 DEF Invocation
  <2>3. Others(r) /\ req'[r] = [req[r] EXCEPT !.pc = p]
    BY <1>2, <2>2, SetMoves DEF Go
  <2>4. Jumped(req'[r], req[r], p)
    BY <2>1, <2>3 DEF Jumped, SameTask, Invocation
  <2>. QED
    BY <1>2, <2>3, <2>4
<1>. QED
  BY <1>1, <1>2

\* A request has events to append.
LEMMA SendMoves ==
    ASSUME AdkTypes, NEW r \in Requests, NEW es \in Seq(Event), NEW p \in {"model", "tool", "finish"}, Append2(r, es, p)
    PROVE  Others(r) /\ Sent(req'[r], req[r], es, p)
<1>1. req[r] \in Invocation /\ "get" \in Pcs
  BY DEF AdkTypes, Pcs, InRunner
<1>2. [req[r] EXCEPT !.pc = "get", !.out = es, !.next = p] \in Invocation
  BY <1>1 DEF Invocation
<1>3. Others(r) /\ req'[r] = [req[r] EXCEPT !.pc = "get", !.out = es, !.next = p]
  BY <1>2, SetMoves DEF Append2
<1>4. Sent(req'[r], req[r], es, p)
  BY <1>1, <1>3 DEF Sent, Invocation
<1>. QED
  BY <1>3, <1>4

Dies(r) == Active(r) /\ Others(r) /\ req'[r] = Dead(r) /\ Steady
Fails(r) == req[r].pc \in InRunner /\ Others(r) /\ IsFailed(req'[r], req[r]) /\ Steady
Begins(r) ==
    MayEnter(r) /\ Others(r) /\ Steady /\ req'[r].pc = "ensure" /\ AtRest(req'[r], r)
Restores(r, i) ==
    /\ MayEnter(r) /\ Others(r) /\ Steady /\ ckpt[i].held
    /\ LET x == req'[r] IN
        /\ x.pc = "restore" /\ x.kind = "resume" /\ x.inv = i /\ x.out = ckpt[i].events /\ x.next = "idle" /\ x.ver = 0
        /\ x.seen = <<>> /\ x.call = r /\ x.says = "none" /\ ~x.called /\ x.yielded = <<>>
Decides(r, c, says) ==
    /\ MayEnter(r) /\ Others(r) /\ Steady /\ \E q \in Requests : req[q].pc = "paused" /\ req[q].call = c
    /\ LET x == req'[r] IN
        /\ x.pc = "check" /\ x.kind = "approve" /\ x.inv = r /\ x.out = <<>> /\ x.next = "idle" /\ x.ver = 0
        /\ x.seen = <<>> /\ x.call = c /\ x.says = says /\ ~x.called /\ x.yielded = <<>>
Jumps(r, from, to) == req[r].pc = from /\ Others(r) /\ Jumped(req'[r], req[r], to)
Finds(r) ==
    /\ Steady
    /\ \/ Jumps(r, "ensure", "exists") /\ sess.ver = 0
       \/ Jumps(r, "ensure", "run") /\ sess.whole
       \/ Jumps(r, "restore", "exists") /\ sess.ver = 0
       \/ Jumps(r, "restore", "delete") /\ sess.ver # 0
       \/ Jumps(r, "exists", "create") /\ sess.ver = 0
Checks(r) ==
    /\ Jumps(r, "check", "run") /\ HasPendingConfirmation(req[r].call)
    /\ approved' = IF req[r].says = "yes" THEN approved \cup {req[r].call} ELSE approved
    /\ UNCHANGED <<setup, sess, ckpt, claimed, ran, rolled>>
Deletes(r) ==
    /\ Jumps(r, "delete", "exists") /\ sess' = NoSession /\ rolled' = TRUE
    /\ UNCHANGED <<setup, ckpt, claimed, ran, approved>>
Creates(r) ==
    /\ Jumps(r, "create", "fill") /\ sess' = [ver |-> 1, whole |-> FALSE, events |-> <<>>]
    /\ UNCHANGED <<setup, stores>>
Fills(r) ==
    /\ Jumps(r, "fill", IF req[r].out = <<>> THEN "run" ELSE "get")
    /\ sess.ver = 1 /\ sess' = [ver |-> 2, whole |-> TRUE, events |-> <<>>]
    /\ UNCHANGED <<setup, stores>>
Skips(r) ==
    /\ req[r].pc = "get" /\ Others(r) /\ IsAdvanced(req'[r], req[r]) /\ Steady
    /\ sess.ver = 0 \/ (sess.whole /\ Contains(sess.events, Head(req[r].out)))
Reads(r) ==
    /\ req[r].pc = "get" /\ Others(r) /\ SameTask(req'[r], req[r]) /\ Steady
    /\ sess.ver # 0 /\ sess.whole /\ ~Contains(sess.events, Head(req[r].out))
    /\ LET x == req'[r] IN
        x.pc = "put" /\ x.out = req[r].out /\ x.yielded = req[r].yielded /\ x.ver = sess.ver /\ x.seen = sess.events
Writes(r) ==
    /\ req[r].pc = "put" /\ Others(r) /\ IsAdvanced(req'[r], req[r])
    /\ sess.ver = req[r].ver
    /\ sess' = [ver |-> sess.ver + 1, whole |-> TRUE, events |-> Append(req[r].seen, Head(req[r].out))]
    /\ UNCHANGED <<setup, stores>>
Repeats(r, c) ==
    /\ req[r].pc = "run" /\ req[r].kind = "resume" /\ sess.whole /\ Others(r) /\ Steady
    /\ c \in Pending(sess.events, req[r].inv)
    /\ LET x == req'[r]
           y == req[r]
       IN /\ x.pc = "tool" /\ x.next = "model" /\ x.call = c /\ x.kind = y.kind /\ x.inv = y.inv /\ x.out = y.out
          /\ x.says = y.says /\ (x.called <=> y.called) /\ x.yielded = y.yielded
Continues(r) ==
    /\ req[r].pc = "run" /\ req[r].kind = "resume" /\ sess.whole /\ Others(r) /\ Steady
    /\ LET x == req'[r]
           y == req[r]
       IN /\ x.pc = "model" /\ x.next = "model" /\ x.call = y.call /\ x.kind = y.kind /\ x.inv = y.inv /\ x.out = y.out
          /\ x.says = y.says /\ (x.called <=> y.called) /\ x.yielded = y.yielded
Sends(r, es, p) == Others(r) /\ Sent(req'[r], req[r], es, p)
Says(r) ==
    /\ Steady
    /\ \/ req[r].pc = "run" /\ sess.whole /\ req[r].kind = "fresh" /\ Sends(r, <<<<"user", r, r, r>>>>, "model")
       \/ req[r].pc = "model" /\ Sends(r, <<<<"text", r, req[r].inv, r>>>>, "finish")
Approves(r) ==
    /\ req[r].pc = "run" /\ sess.whole /\ req[r].kind = "approve" /\ Steady
    /\ Sends(r, <<<<req[r].says, r, r, req[r].call>>>>, "tool")
Calls(r) ==
    /\ req[r].pc = "model" /\ ~req[r].called /\ req[r].kind # "approve" /\ Others(r) /\ Steady
    /\ LET x == req'[r]
           y == req[r]
       IN /\ x.pc = "get" /\ x.next = "tool" /\ x.call = r /\ x.kind = y.kind /\ x.inv = y.inv
          /\ x.out = <<<<"call", r, y.inv, r>>>> /\ x.says = y.says /\ x.called /\ x.yielded = y.yielded
Gate == setup.gated /\ setup.tool # "read_only"
AsksFor(r) ==
    /\ req[r].pc = "tool" /\ Gate /\ req[r].says = "none" /\ Steady
    /\ Sends(r, <<<<"ask", r, req[r].inv, req[r].call>>, Response(r)>>, "finish")
Responds(r) == req[r].pc \in {"tool", "claim", "record"} /\ Sends(r, <<Response(r)>>, "model") /\ Steady
Allows(r) == Jumps(r, "tool", "claim") /\ ~(Gate /\ req[r].says # "yes") /\ Steady
Claims(r) ==
    /\ Jumps(r, "claim", "exec") /\ ~(setup.registry /\ setup.tool # "read_only" /\ req[r].call \in claimed)
    /\ claimed' = claimed \cup {req[r].call}
    /\ UNCHANGED <<setup, sess, ckpt, ran, approved, rolled>>
Executes(r) ==
    /\ Jumps(r, "exec", "record") /\ ran' = [ran EXCEPT ![req[r].call] = @ + 1]
    /\ UNCHANGED <<setup, sess, ckpt, claimed, approved, rolled>>
Finishes(r) ==
    /\ \/ Jumps(r, "finish", "success")
       \/ Jumps(r, "finish", "paused") /\ Asked(r)
    /\ ckpt' = [ckpt EXCEPT ![req[r].inv] = NoSnapshot]
    /\ UNCHANGED <<setup, sess, claimed, ran, approved, rolled>>
Snaps(r) ==
    /\ req[r].pc = "snap" /\ Others(r) /\ SameTask(req'[r], req[r]) /\ Steady
    /\ LET x == req'[r] IN
        /\ x.pc = "save" /\ x.out = req[r].out /\ x.yielded = req[r].yielded
        /\ x.seen = IF sess.events # <<>> THEN sess.events ELSE req[r].yielded
Saves(r) ==
    /\ req[r].pc = "save" /\ Others(r) /\ req'[r] = Dead(r)
    /\ ckpt' = [ckpt EXCEPT ![req[r].inv] =
                  IF req[r].seen = <<>> \/ UnsafePending(req[r].seen, req[r].inv) THEN NoSnapshot
                  ELSE [held |-> TRUE, events |-> req[r].seen]]
    /\ UNCHANGED <<setup, sess, claimed, ran, approved, rolled>>

Turns(r) ==
    \/ Dies(r) \/ Fails(r) \/ Begins(r) \/ Finds(r) \/ Checks(r) \/ Deletes(r) \/ Creates(r) \/ Fills(r)
    \/ Skips(r) \/ Reads(r) \/ Writes(r) \/ Continues(r) \/ Says(r) \/ Approves(r) \/ Calls(r) \/ AsksFor(r)
    \/ Responds(r) \/ Allows(r) \/ Claims(r) \/ Executes(r) \/ Finishes(r) \/ Snaps(r) \/ Saves(r)
    \/ \E i \in Requests : Restores(r, i) \/ Repeats(r, i) \/ \E says \in {"yes", "no"} : Decides(r, i, says)

\* The events a request appends are events.
Batch == Seq(Event) \ {<<>>}
LEMMA EventsAre ==
    ASSUME AdkTypes, NEW r \in Requests
    PROVE  /\ <<<<"user", r, r, r>>>> \in Batch /\ <<<<"text", r, req[r].inv, r>>>> \in Batch
           /\ <<<<"call", r, req[r].inv, r>>>> \in Batch
           /\ req[r].kind = "approve" => <<<<req[r].says, r, r, req[r].call>>>> \in Batch
           /\ <<Response(r)>> \in Batch
           /\ <<<<"ask", r, req[r].inv, req[r].call>>, Response(r)>> \in Batch
<1>1. /\ req[r].inv \in Requests /\ req[r].call \in Requests
      /\ req[r].says \in {"none", "yes", "no"} /\ (req[r].kind = "approve" => req[r].says # "none")
  BY DEF AdkTypes, ReqSound, Invocation
<1>2. \A k \in Kinds, i, c \in Requests : <<k, r, i, c>> \in Event
  BY DEF Event
<1>3. {"user", "text", "call", "ask", "resp", "yes", "no"} \subseteq Kinds
  BY DEF Kinds
<1>4. \A e, f \in Event : <<e>> \in Batch /\ <<e, f>> \in Batch
  BY DEF Batch
<1>. QED
  BY <1>1, <1>2, <1>3, <1>4 DEF Response

\* invoke(), and the requests that end.
LEMMA EntersTurns ==
    ASSUME AdkTypes, NEW r \in Requests,
           \/ Invoke(r) \/ Fault(r) \/ Abandon(r) \/ SnapshotLost(r)
           \/ \E i \in Requests : Resume(r, i) \/ \E says \in {"yes", "no"} : Decide(r, i, says)
    PROVE  Turns(r)
<1>0. req[r] \in Invocation
  BY DEF AdkTypes
<1>q. Quiet(r) \in Invocation /\ Dead(r) \in Invocation /\ Quiet(r).pc = "idle" /\ AtRest(Quiet(r), r)
  BY QuietIs
<1>1. CASE Invoke(r)
  <2>1. MayEnter(r) /\ Set(r, [Quiet(r) EXCEPT !.pc = "ensure"]) /\ Steady
    BY <1>1 DEF Invoke, Steady, stores
  <2>2. [Quiet(r) EXCEPT !.pc = "ensure"] \in Invocation /\ AtRest([Quiet(r) EXCEPT !.pc = "ensure"], r)
    BY <1>q DEF Invocation, AtRest, Pcs, Outside
  <2>3. Others(r) /\ req'[r] = [Quiet(r) EXCEPT !.pc = "ensure"]
    BY <2>1, <2>2, SetMoves
  <2>4. Begins(r)
    BY <1>q, <2>1, <2>2, <2>3 DEF Begins, Invocation
  <2>. QED
    BY <2>4 DEF Turns
<1>2. ASSUME NEW i \in Requests, Resume(r, i) PROVE Restores(r, i)
  <2>. DEFINE x == [Quiet(r) EXCEPT !.pc = "restore", !.kind = "resume", !.inv = i, !.out = ckpt[i].events]
  <2>1. MayEnter(r) /\ Set(r, x) /\ Steady /\ ckpt[i].held
    BY <1>2 DEF Resume, Steady, stores
  <2>2. ckpt[i].events \in Seq(Event) /\ "restore" \in Pcs
    BY DEF AdkTypes, Snapshots, Pcs, Outside
  <2>3. x \in Invocation
    BY <1>q, <2>2 DEF Invocation
  <2>4. Others(r) /\ req'[r] = x
    <3>. HIDE DEF x
    <3>. QED
      BY <2>1, <2>3, SetMoves
  <2>. QED
    BY <1>q, <2>1, <2>4 DEF Restores, Invocation, AtRest
<1>3. ASSUME NEW c \in Requests, NEW says \in {"yes", "no"}, Decide(r, c, says) PROVE Decides(r, c, says)
  <2>. DEFINE x == [Quiet(r) EXCEPT !.pc = "check", !.kind = "approve", !.call = c, !.says = says]
  <2>1. MayEnter(r) /\ Set(r, x) /\ Steady /\ \E q \in Requests : req[q].pc = "paused" /\ req[q].call = c
    BY <1>3 DEF Decide, Steady, stores
  <2>2. "check" \in Pcs
    BY DEF Pcs, Outside
  <2>3. x \in Invocation
    BY <1>q, <2>2 DEF Invocation
  <2>4. Others(r) /\ req'[r] = x
    <3>. HIDE DEF x
    <3>. QED
      BY <2>1, <2>3, SetMoves
  <2>. QED
    BY <1>q, <2>1, <2>4 DEF Decides, Invocation, AtRest
<1>4. ASSUME Active(r), Steady, Set(r, Dead(r)) PROVE Dies(r)
  BY <1>q, <1>4, SetMoves DEF Dies
<1>5. ASSUME Active(r), req[r].pc \in InRunner, Steady, Set(r, Failed(r)) PROVE Dies(r) \/ Fails(r)
  <2>1. CASE Failed(r) = Dead(r)
    BY <1>4, <1>5, <2>1
  <2>2. CASE IsFailed(Failed(r), req[r])
    <3>1. Failed(r) \in Invocation
      BY <2>2 DEF IsFailed
    <3>. QED
      BY <1>5, <2>2, <3>1, SetMoves DEF Fails
  <2>. QED
    BY <1>0, <2>1, <2>2, FailedIs
<1>6. CASE Fault(r) \/ Abandon(r)
  <2>1. Active(r) /\ Steady /\ Set(r, IF req[r].pc \in InRunner THEN Failed(r) ELSE Dead(r))
    BY <1>6 DEF Fault, Abandon, Steady, stores
  <2>. QED
    BY <1>4, <1>5, <2>1 DEF Turns
<1>7. CASE SnapshotLost(r)
  <2>1. Active(r) /\ Steady /\ Set(r, Dead(r))
    BY <1>7 DEF SnapshotLost, Steady, stores, Go, Active, Ended
  <2>. QED
    BY <1>4, <2>1 DEF Turns
<1>. QED
  BY <1>1, <1>2, <1>3, <1>6, <1>7 DEF Turns

\* A request that dies because of what it finds, or fails in the runner.
LEMMA EndsTurns ==
    ASSUME AdkTypes, NEW r \in Requests, Active(r), Steady
    PROVE  /\ Go(r, "failed") => Dies(r)
           /\ req[r].pc \in InRunner /\ Set(r, Failed(r)) => Dies(r) \/ Fails(r)
<1>0. req[r] \in Invocation /\ Dead(r) \in Invocation
  BY QuietIs DEF AdkTypes
<1>1. ASSUME Set(r, Dead(r)) PROVE Dies(r)
  BY <1>0, <1>1, SetMoves DEF Dies
<1>2. ASSUME req[r].pc \in InRunner, IsFailed(Failed(r), req[r]), Set(r, Failed(r)) PROVE Fails(r)
  <2>1. Failed(r) \in Invocation
    BY <1>2 DEF IsFailed
  <2>. QED
    BY <1>2, <2>1, SetMoves DEF Fails
<1>. QED
  BY <1>0, <1>1, <1>2, FailedIs DEF Go

\* The steps of the session service.
LEMMA SessionTurns ==
    ASSUME AdkTypes, NEW r \in Requests,
           \/ EnsureSession(r) \/ Check(r) \/ Restore(r) \/ DeleteSession(r) \/ SessionExists(r) \/ CreateRow(r)
           \/ FillRow(r)
    PROVE  Turns(r)
<1>p. {"exists", "run", "delete", "create", "fill", "get", "failed"} \subseteq Pcs
  BY DEF Pcs, Outside, InRunner, Ended
<1>a. req[r].pc \in Outside => Active(r)
  BY DEF Active, Outside, Ended
<1>f. ASSUME req[r].pc \in Outside, Go(r, "failed"), Steady PROVE Turns(r)
  BY <1>a, <1>f, EndsTurns DEF Turns
<1>g. ASSUME NEW from, NEW to \in Pcs \ {"failed"}, req[r].pc = from, Go(r, to) PROVE Jumps(r, from, to)
  BY <1>g, GoMoves DEF Jumps
<1>1. CASE EnsureSession(r)
  <2>1. req[r].pc = "ensure" /\ Steady /\ Go(r, IF sess.ver = 0 THEN "exists" ELSE IF sess.whole THEN "run" ELSE "failed")
    BY <1>1 DEF EnsureSession, Steady, stores
  <2>2. CASE sess.ver = 0
    BY <1>p, <1>g, <2>1, <2>2 DEF Finds, Turns
  <2>3. CASE sess.ver # 0 /\ sess.whole
    BY <1>p, <1>g, <2>1, <2>3 DEF Finds, Turns
  <2>4. CASE sess.ver # 0 /\ ~sess.whole
    BY <1>f, <2>1, <2>4 DEF Outside
  <2>. QED
    BY <2>2, <2>3, <2>4
<1>2. CASE Check(r)
  <2>1. CASE HasPendingConfirmation(req[r].call)
    <3>1. req[r].pc = "check" /\ Go(r, "run")
      BY <1>2, <2>1 DEF Check
    <3>2. Jumps(r, "check", "run")
      BY <1>p, <1>g, <3>1
    <3>. QED
      BY <1>2, <2>1, <3>2 DEF Check, Checks, Turns
  <2>2. CASE ~HasPendingConfirmation(req[r].call)
    <3>1. req[r].pc = "check" /\ Go(r, "failed") /\ Steady
      BY <1>2, <2>2 DEF Check, Steady
    <3>. QED
      BY <1>f, <3>1 DEF Outside
  <2>. QED
    BY <2>1, <2>2
<1>3. CASE Restore(r)
  <2>1. req[r].pc = "restore" /\ Steady /\ Go(r, IF sess.ver = 0 THEN "exists" ELSE IF sess.whole THEN "delete" ELSE "failed")
    BY <1>3 DEF Restore, Steady, stores
  <2>2. CASE sess.ver = 0
    BY <1>p, <1>g, <2>1, <2>2 DEF Finds, Turns
  <2>3. CASE sess.ver # 0 /\ sess.whole
    BY <1>p, <1>g, <2>1, <2>3 DEF Finds, Turns
  <2>4. CASE sess.ver # 0 /\ ~sess.whole
    BY <1>f, <2>1, <2>4 DEF Outside
  <2>. QED
    BY <2>2, <2>3, <2>4
<1>4. CASE DeleteSession(r)
  <2>1. Jumps(r, "delete", "exists")
    BY <1>p, <1>g, <1>4 DEF DeleteSession
  <2>. QED
    BY <1>4, <2>1 DEF DeleteSession, Deletes, Turns
<1>5. CASE SessionExists(r)
  <2>1. req[r].pc = "exists" /\ Steady /\ Go(r, IF sess.ver = 0 THEN "create" ELSE "failed")
    BY <1>5 DEF SessionExists, Steady, stores
  <2>2. CASE sess.ver = 0
    BY <1>p, <1>g, <2>1, <2>2 DEF Finds, Turns
  <2>3. CASE sess.ver # 0
    BY <1>f, <2>1, <2>3 DEF Outside
  <2>. QED
    BY <2>2, <2>3
<1>6. CASE CreateRow(r)
  <2>1. Jumps(r, "create", "fill")
    BY <1>p, <1>g, <1>6 DEF CreateRow
  <2>. QED
    BY <1>6, <2>1 DEF CreateRow, Creates, Turns
<1>7. CASE FillRow(r)
  <2>1. CASE sess.ver = 1
    <3>. DEFINE to == IF req[r].out = <<>> THEN "run" ELSE "get"
    <3>1. req[r].pc = "fill" /\ Go(r, to) /\ to \in Pcs \ {"failed"}
      BY <1>p, <1>7, <2>1 DEF FillRow
    <3>. HIDE DEF to
    <3>2. Jumps(r, "fill", to)
      BY <1>g, <3>1
    <3>3. Fills(r)
      BY <1>7, <2>1, <3>2 DEF FillRow, Fills, to
    <3>. QED
      BY <3>3 DEF Turns
  <2>2. CASE sess.ver # 1
    <3>1. req[r].pc = "fill" /\ Steady /\ Go(r, "failed")
      BY <1>7, <2>2 DEF FillRow, Steady, stores
    <3>. QED
      BY <1>f, <3>1 DEF Outside
  <2>. QED
    BY <2>1, <2>2
<1>. QED
  BY <1>1, <1>2, <1>3, <1>4, <1>5, <1>6, <1>7

\* append_event().
LEMMA AppendTurns ==
    ASSUME AdkTypes, NEW r \in Requests, AppendRead(r) \/ AppendWrite(r)
    PROVE  Turns(r)
<1>0. req[r] \in Invocation /\ req[r].pc \in {"get", "put"} /\ req[r].out # <<>>
  BY DEF AdkTypes, ReqSound, AppendRead, AppendWrite
<1>a. Active(r) /\ req[r].pc \in InRunner
  BY <1>0 DEF Active, Ended, InRunner
<1>f. ASSUME Set(r, Failed(r)), Steady PROVE Turns(r)
  BY <1>a, <1>f, EndsTurns DEF Turns
<1>d. ASSUME Set(r, Advanced(r)) PROVE Others(r) /\ IsAdvanced(req'[r], req[r])
  <2>1. IsAdvanced(Advanced(r), req[r]) /\ Advanced(r) \in Invocation
    BY <1>0, AdvancedIs DEF IsAdvanced
  <2>. QED
    BY <1>d, <2>1, SetMoves
<1>1. CASE AppendRead(r)
  <2>0. req[r].pc = "get" /\ Steady
    BY <1>1 DEF AppendRead, Steady, stores
  <2>1. CASE sess.ver = 0 \/ (sess.whole /\ Contains(sess.events, Head(req[r].out)))
    <3>1. Set(r, Advanced(r))
      BY <1>1, <2>1 DEF AppendRead
    <3>. QED
      BY <1>d, <2>0, <2>1, <3>1 DEF Skips, Turns
  <2>2. CASE sess.ver # 0 /\ ~sess.whole
    BY <1>f, <1>1, <2>0, <2>2 DEF AppendRead
  <2>3. CASE sess.ver # 0 /\ sess.whole /\ ~Contains(sess.events, Head(req[r].out))
    <3>. DEFINE y == req[r]
                v == sess.ver
                s == sess.events
    <3>1. Set(r, [y EXCEPT !.pc = "put", !.ver = v, !.seen = s]) /\ y \in Invocation
      BY <1>0, <1>1, <2>3 DEF AppendRead
    <3>2. v \in Nat /\ s \in Seq(Event) /\ "put" \in Pcs
      BY DEF AdkTypes, RowSound, Session, Pcs, InRunner
    <3>. DEFINE x == [y EXCEPT !.pc = "put", !.ver = v, !.seen = s]
    <3>. HIDE DEF y, v, s
    <3>3. x \in Invocation
      BY <3>1, <3>2 DEF Invocation
    <3>4. SameTask(x, y) /\ x.pc = "put" /\ x.out = y.out /\ x.yielded = y.yielded /\ x.ver = v /\ x.seen = s
      BY <3>1 DEF Invocation, SameTask
    <3>. HIDE DEF x
    <3>5. Others(r) /\ req'[r] = x
      BY <3>1, <3>3, SetMoves DEF x
    <3>6. Reads(r)
      BY <2>0, <2>3, <3>4, <3>5 DEF Reads, y, v, s
    <3>. QED
      BY <3>6 DEF Turns
  <2>. QED
    BY <2>1, <2>2, <2>3
<1>2. CASE AppendWrite(r)
  <2>1. CASE sess.ver = req[r].ver
    <3>1. req[r].pc = "put" /\ Set(r, Advanced(r))
      BY <1>2, <2>1 DEF AppendWrite
    <3>2. Writes(r)
      BY <1>2, <1>d, <2>1, <3>1 DEF AppendWrite, Writes
    <3>. QED
      BY <3>2 DEF Turns
  <2>2. CASE sess.ver # req[r].ver
    <3>1. Set(r, Failed(r)) /\ Steady
      BY <1>2, <2>2 DEF AppendWrite, Steady, stores
    <3>. QED
      BY <1>f, <3>1
  <2>. QED
    BY <2>1, <2>2
<1>. QED
  BY <1>1, <1>2

\* run_async().
LEMMA RunTurns ==
    ASSUME AdkTypes, NEW r \in Requests, RunAsync(r)
    PROVE  Turns(r)
<1>. DEFINE y == req[r]
<1>0. y \in Invocation /\ y.pc = "run" /\ Steady /\ {"tool", "model"} \subseteq Pcs
  BY DEF AdkTypes, RunAsync, Steady, stores, Pcs, InRunner
<1>a. Active(r) /\ req[r].pc \in InRunner
  BY <1>0 DEF Active, Ended, InRunner
<1>1. CASE ~sess.whole
  <2>1. Set(r, Failed(r))
    BY <1>1 DEF RunAsync
  <2>. QED
    BY <1>0, <1>a, <2>1, EndsTurns DEF Turns
<1>2. ASSUME sess.whole, y.kind = "resume", NEW c \in Pending(sess.events, y.inv),
             Set(r, [y EXCEPT !.pc = "tool", !.call = c, !.next = "model"])
      PROVE  Turns(r)
  <2>0. c \in Requests
    BY DEF Pending
  <2>. DEFINE x == [y EXCEPT !.pc = "tool", !.call = c, !.next = "model"]
  <2>. HIDE DEF y
  <2>1. x \in Invocation
    BY <1>0, <2>0 DEF Invocation
  <2>2. /\ x.pc = "tool" /\ x.next = "model" /\ x.call = c /\ x.kind = y.kind /\ x.inv = y.inv /\ x.out = y.out
        /\ x.says = y.says /\ (x.called <=> y.called) /\ x.yielded = y.yielded
    BY <1>0 DEF Invocation
  <2>. HIDE DEF x
  <2>3. Others(r) /\ req'[r] = x
    BY <1>2, <2>1, SetMoves DEF x
  <2>4. Repeats(r, c)
    BY <1>0, <1>2, <2>2, <2>3 DEF Repeats, y
  <2>. QED
    BY <2>0, <2>4 DEF Turns
<1>3. ASSUME sess.whole, y.kind = "resume", Set(r, [y EXCEPT !.pc = "model", !.next = "model"])
      PROVE  Turns(r)
  <2>. DEFINE x == [y EXCEPT !.pc = "model", !.next = "model"]
  <2>. HIDE DEF y
  <2>1. x \in Invocation
    BY <1>0 DEF Invocation
  <2>2. /\ x.pc = "model" /\ x.next = "model" /\ x.call = y.call /\ x.kind = y.kind /\ x.inv = y.inv /\ x.out = y.out
        /\ x.says = y.says /\ (x.called <=> y.called) /\ x.yielded = y.yielded
    BY <1>0 DEF Invocation
  <2>. HIDE DEF x
  <2>3. Others(r) /\ req'[r] = x
    BY <1>3, <2>1, SetMoves DEF x
  <2>4. Continues(r)
    BY <1>0, <1>3, <2>2, <2>3 DEF Continues, y
  <2>. QED
    BY <2>4 DEF Turns
<1>4. ASSUME sess.whole, y.kind = "fresh", Append2(r, <<<<"user", r, r, r>>>>, "model") PROVE Turns(r)
  <2>1. Sends(r, <<<<"user", r, r, r>>>>, "model")
    BY <1>4, EventsAre, SendMoves DEF Sends, Batch
  <2>2. Says(r)
    BY <1>0, <1>4, <2>1 DEF Says
  <2>. QED
    BY <2>2 DEF Turns
<1>5. ASSUME sess.whole, y.kind = "approve", Append2(r, <<<<y.says, r, r, y.call>>>>, "tool") PROVE Turns(r)
  <2>1. Sends(r, <<<<y.says, r, r, y.call>>>>, "tool")
    BY <1>5, EventsAre, SendMoves DEF Sends, Batch
  <2>2. Approves(r)
    BY <1>0, <1>5, <2>1 DEF Approves
  <2>. QED
    BY <2>2 DEF Turns
<1>. QED
  BY <1>1, <1>2, <1>3, <1>4, <1>5 DEF RunAsync

\* The model and the tool adapter.
LEMMA ToolTurns ==
    ASSUME AdkTypes, NEW r \in Requests,
           ModelCalls(r) \/ ModelAnswers(r) \/ RunTool(r) \/ Claim(r) \/ Execute(r) \/ Record(r)
    PROVE  Turns(r)
<1>. DEFINE y == req[r]
<1>0. y \in Invocation /\ {"get", "claim", "exec", "record"} \subseteq Pcs
  BY DEF AdkTypes, Pcs, InRunner
<1>g. ASSUME NEW from, NEW to \in {"claim", "exec", "record"}, req[r].pc = from, Go(r, to) PROVE Jumps(r, from, to)
  BY <1>0, <1>g, GoMoves DEF Jumps
<1>1. CASE ModelCalls(r)
  <2>. DEFINE es == <<<<"call", r, y.inv, r>>>>
  <2>1. es \in Seq(Event)
    BY EventsAre DEF Batch
  <2>2. y.pc = "model" /\ ~y.called /\ y.kind # "approve" /\ Steady
    BY <1>1 DEF ModelCalls, Steady, stores
  <2>3. Set(r, [y EXCEPT !.pc = "get", !.out = es, !.next = "tool", !.call = r, !.called = TRUE])
    BY <1>1 DEF ModelCalls
  <2>. DEFINE x == [y EXCEPT !.pc = "get", !.out = es, !.next = "tool", !.call = r, !.called = TRUE]
  <2>. HIDE DEF y, es
  <2>4. x \in Invocation
    BY <1>0, <2>1 DEF Invocation
  <2>5. /\ x.pc = "get" /\ x.next = "tool" /\ x.call = r /\ x.kind = y.kind /\ x.inv = y.inv
        /\ x.out = es /\ x.says = y.says /\ x.called /\ x.yielded = y.yielded
    BY <1>0 DEF Invocation
  <2>. HIDE DEF x
  <2>6. Others(r) /\ req'[r] = x
    BY <2>3, <2>4, SetMoves DEF x
  <2>7. Calls(r)
    BY <2>2, <2>5, <2>6 DEF Calls, y, es
  <2>. QED
    BY <2>7 DEF Turns
<1>2. CASE ModelAnswers(r)
  <2>1. req[r].pc = "model" /\ Append2(r, <<<<"text", r, req[r].inv, r>>>>, "finish") /\ Steady
    BY <1>2 DEF ModelAnswers, Steady, stores
  <2>2. Sends(r, <<<<"text", r, req[r].inv, r>>>>, "finish")
    BY <2>1, EventsAre, SendMoves DEF Sends, Batch
  <2>. QED
    BY <2>1, <2>2 DEF Says, Turns
<1>r. ASSUME req[r].pc \in {"tool", "claim", "record"}, Append2(r, <<Response(r)>>, "model"), Steady PROVE Turns(r)
  <2>1. Sends(r, <<Response(r)>>, "model")
    BY <1>r, EventsAre, SendMoves DEF Sends, Batch
  <2>. QED
    BY <1>r, <2>1 DEF Responds, Turns
<1>3. CASE RunTool(r)
  <2>0. req[r].pc = "tool" /\ Steady
    BY <1>3 DEF RunTool, Steady, stores
  <2>1. CASE Gate /\ req[r].says = "none" /\ Append2(r, <<<<"ask", r, req[r].inv, req[r].call>>, Response(r)>>, "finish")
    <3>1. Sends(r, <<<<"ask", r, req[r].inv, req[r].call>>, Response(r)>>, "finish")
      BY <2>1, EventsAre, SendMoves DEF Sends, Batch
    <3>. QED
      BY <2>0, <2>1, <3>1 DEF AsksFor, Turns
  <2>2. CASE Append2(r, <<Response(r)>>, "model")
    BY <1>r, <2>0, <2>2
  <2>3. CASE ~(Gate /\ req[r].says # "yes") /\ Go(r, "claim")
    <3>1. Jumps(r, "tool", "claim")
      BY <1>g, <2>0, <2>3
    <3>. QED
      BY <2>0, <2>3, <3>1 DEF Allows, Turns
  <2>. QED
    BY <1>3, <2>1, <2>2, <2>3 DEF RunTool, Gate
<1>4. CASE Claim(r)
  <2>1. CASE setup.registry /\ setup.tool # "read_only" /\ req[r].call \in claimed
    <3>1. req[r].pc = "claim" /\ Append2(r, <<Response(r)>>, "model") /\ Steady
      BY <1>4, <2>1 DEF Claim, Steady
    <3>. QED
      BY <1>r, <3>1
  <2>2. CASE ~(setup.registry /\ setup.tool # "read_only" /\ req[r].call \in claimed)
    <3>1. req[r].pc = "claim" /\ Go(r, "exec")
      BY <1>4, <2>2 DEF Claim
    <3>2. Jumps(r, "claim", "exec")
      BY <1>g, <3>1
    <3>3. Claims(r)
      BY <1>4, <2>2, <3>2 DEF Claim, Claims
    <3>. QED
      BY <3>3 DEF Turns
  <2>. QED
    BY <2>1, <2>2
<1>5. CASE Execute(r)
  <2>1. Jumps(r, "exec", "record")
    BY <1>g, <1>5 DEF Execute
  <2>2. Executes(r)
    BY <1>5, <2>1 DEF Execute, Executes
  <2>. QED
    BY <2>2 DEF Turns
<1>6. CASE Record(r)
  <2>1. req[r].pc = "record" /\ Append2(r, <<Response(r)>>, "model") /\ Steady
    BY <1>6 DEF Record, Steady, stores
  <2>. QED
    BY <1>r, <2>1
<1>. QED
  BY <1>1, <1>2, <1>3, <1>4, <1>5, <1>6

\* The end of an invocation.
LEMMA EndTurns ==
    ASSUME AdkTypes, NEW r \in Requests, Finish(r) \/ Snapshot(r) \/ SaveSnapshot(r)
    PROVE  Turns(r)
<1>. DEFINE y == req[r]
<1>0. y \in Invocation /\ {"success", "paused", "save", "failed"} \subseteq Pcs
  BY DEF AdkTypes, Pcs, Ended
<1>1. CASE Finish(r)
  <2>1. req[r].pc = "finish" /\ Go(r, IF Asked(r) THEN "paused" ELSE "success")
    BY <1>1 DEF Finish
  <2>2. Jumps(r, "finish", "success") \/ (Jumps(r, "finish", "paused") /\ Asked(r))
    BY <1>0, <2>1, GoMoves DEF Jumps
  <2>3. Finishes(r)
    BY <1>1, <2>2 DEF Finish, Finishes
  <2>. QED
    BY <2>3 DEF Turns
<1>2. CASE Snapshot(r)
  <2>0. y.pc = "snap" /\ Steady /\ Active(r)
    BY <1>2 DEF Snapshot, Steady, stores, Active, Ended
  <2>1. CASE sess.ver # 0 /\ ~sess.whole
    <3>1. Go(r, "failed")
      BY <1>2, <2>1 DEF Snapshot, Go
    <3>. QED
      BY <2>0, <3>1, EndsTurns DEF Turns
  <2>2. CASE ~(sess.ver # 0 /\ ~sess.whole)
    <3>. DEFINE s == IF sess.events # <<>> THEN sess.events ELSE y.yielded
    <3>1. Set(r, [y EXCEPT !.pc = "save", !.seen = s])
      BY <1>2, <2>2 DEF Snapshot
    <3>2. s \in Seq(Event)
      BY <1>0 DEF AdkTypes, RowSound, Session, Invocation
    <3>. DEFINE x == [y EXCEPT !.pc = "save", !.seen = s]
    <3>. HIDE DEF y, s
    <3>3. x \in Invocation
      BY <1>0, <3>2 DEF Invocation
    <3>4. SameTask(x, y) /\ x.pc = "save" /\ x.out = y.out /\ x.yielded = y.yielded /\ x.seen = s
      BY <1>0 DEF Invocation, SameTask
    <3>. HIDE DEF x
    <3>5. Others(r) /\ req'[r] = x
      BY <3>1, <3>3, SetMoves DEF x
    <3>6. Snaps(r)
      BY <2>0, <3>4, <3>5 DEF Snaps, y, s
    <3>. QED
      BY <3>6 DEF Turns
  <2>. QED
    BY <2>1, <2>2
<1>3. CASE SaveSnapshot(r)
  <2>1. Others(r) /\ req'[r] = Dead(r)
    BY <1>0, <1>3, GoMoves DEF SaveSnapshot
  <2>2. Saves(r)
    BY <1>3, <2>1 DEF SaveSnapshot, Saves
  <2>. QED
    BY <2>2 DEF Turns
<1>. QED
  BY <1>1, <1>2, <1>3

\* Every step is the end of the process or one of these steps of a request.
Dying == Steady /\ req' = [r \in Requests |-> IF Active(r) THEN Dead(r) ELSE req[r]]
LEMMA StepsAre ==
    ASSUME AdkTypes, Next
    PROVE  Dying \/ \E r \in Requests : Turns(r)
  BY EntersTurns, SessionTurns, AppendTurns, RunTurns, ToolTurns, EndTurns DEF Next, Serve, Crash, Dying, Steady, stores

\* What a step leaves alone.
LEMMA TurnsKeep ==
    ASSUME NEW r \in Requests, Turns(r)
    PROVE  /\ Others(r) /\ setup' = setup
           /\ approved' = approved \/ Checks(r)
           /\ ran' = ran \/ Executes(r)
           /\ claimed' = claimed \/ Claims(r)
           /\ sess' = sess \/ Deletes(r) \/ Creates(r) \/ Fills(r) \/ Writes(r)
           /\ ckpt' = ckpt \/ Finishes(r) \/ Saves(r)
           /\ rolled' = rolled \/ Deletes(r)
<1>1. Others(r) /\ setup' = setup
  BY DEF Turns, Dies, Fails, Begins, Finds, Checks, Deletes, Creates, Fills, Skips, Reads, Writes, Continues, Says, Approves,
         Calls, AsksFor, Responds, Allows, Claims, Executes, Finishes, Snaps, Saves, Restores, Repeats, Decides, Steady, stores, Jumps, Sends
<1>2. (approved' = approved \/ Checks(r)) /\ (ran' = ran \/ Executes(r)) /\ (claimed' = claimed \/ Claims(r))
  BY DEF Turns, Dies, Fails, Begins, Finds, Checks, Deletes, Creates, Fills, Skips, Reads, Writes, Continues, Says, Approves,
         Calls, AsksFor, Responds, Allows, Claims, Executes, Finishes, Snaps, Saves, Restores, Repeats, Decides, Steady, stores
<1>3. sess' = sess \/ Deletes(r) \/ Creates(r) \/ Fills(r) \/ Writes(r)
  BY DEF Turns, Dies, Fails, Begins, Finds, Checks, Deletes, Creates, Fills, Skips, Reads, Writes, Continues, Says, Approves,
         Calls, AsksFor, Responds, Allows, Claims, Executes, Finishes, Snaps, Saves, Restores, Repeats, Decides, Steady, stores
<1>4. (ckpt' = ckpt \/ Finishes(r) \/ Saves(r)) /\ (rolled' = rolled \/ Deletes(r))
  BY DEF Turns, Dies, Fails, Begins, Finds, Checks, Deletes, Creates, Fills, Skips, Reads, Writes, Continues, Says, Approves,
         Calls, AsksFor, Responds, Allows, Claims, Executes, Finishes, Snaps, Saves, Restores, Repeats, Decides, Steady, stores
<1>. QED
  BY <1>1, <1>2, <1>3, <1>4

\* At the end of the process the requests under way fail.
LEMMA DyingIs ==
    ASSUME AdkTypes, Dying
    PROVE  /\ req' \in [Requests -> Invocation] /\ Steady
           /\ \A q \in Requests : (~Active(q) /\ req'[q] = req[q]) \/ (Active(q) /\ req'[q] = Dead(q))
<1>1. \A q \in Requests : Dead(q) \in Invocation /\ req[q] \in Invocation
  BY QuietIs DEF AdkTypes
<1>. QED
  BY <1>1 DEF Dying

-----------------------------------------------------------------------------
\* The types, step by step.
LEMMA AdkTypesKept ==
    ASSUME AdkTypes, NEW r \in Requests, Turns(r)
    PROVE  AdkTypes'
<1>. DEFINE x == req'[r]
            y == req[r]
<1>0. /\ y \in Invocation /\ ReqSound(y) /\ RowSound(sess) /\ y.inv \in Requests /\ y.call \in Requests
      /\ y.out \in Seq(Event) /\ y.seen \in Seq(Event)
  BY DEF AdkTypes, Invocation
<1>1. ReqSound(x)
  <2>. USE DEF ReqSound
  <2>1. CASE Dies(r) \/ Saves(r)
    BY <2>1, QuietIs DEF Dies, Saves, AtRest
  <2>2. CASE Fails(r)
    BY <1>0, <2>2 DEF Fails, IsFailed, SameTask
  <2>3. CASE Begins(r)
    BY <2>3 DEF Begins, AtRest
  <2>4. CASE Finds(r) \/ Checks(r) \/ Deletes(r) \/ Creates(r) \/ Fills(r) \/ Allows(r) \/ Claims(r) \/ Executes(r) \/ Finishes(r)
    BY <1>0, <2>4 DEF Finds, Checks, Deletes, Creates, Fills, Allows, Claims, Executes, Finishes, Jumps, Jumped, SameTask
  <2>5. CASE Skips(r) \/ Writes(r)
    <3>1. IsAdvanced(x, y)
      BY <2>5 DEF Skips, Writes
    <3>2. y.next \in {"idle", "model", "tool", "finish"}
      BY <1>0 DEF Invocation
    <3>. QED
      BY <1>0, <3>1, <3>2 DEF IsAdvanced, SameTask
  <2>6. CASE Reads(r) \/ Snaps(r)
    BY <1>0, <2>6 DEF Reads, Snaps, SameTask
  <2>7. CASE Continues(r) \/ Calls(r)
    <3>1. <<<<"call", r, y.inv, r>>>> # <<>>
      BY EventsAre DEF Batch
    <3>. DEFINE es == <<<<"call", r, y.inv, r>>>>
    <3>2. CASE Calls(r)
      <4>1. x.out = es /\ x.kind = y.kind /\ x.says = y.says /\ x.pc = "get"
        BY <3>2 DEF Calls
      <4>. HIDE DEF es
      <4>. QED
        BY <1>0, <3>1, <4>1 DEF es
    <3>3. CASE Continues(r)
      BY <1>0, <3>3 DEF Continues
    <3>. QED
      BY <2>7, <3>2, <3>3
  <2>8. CASE Says(r) \/ Approves(r) \/ AsksFor(r) \/ Responds(r)
    <3>1. PICK es \in Batch, p \in {"model", "tool", "finish"} : Sent(x, y, es, p)
      BY <2>8, EventsAre DEF Says, Approves, AsksFor, Responds, Sends
    <3>. QED
      BY <1>0, <3>1 DEF Sent, Batch
  <2>9. ASSUME NEW i \in Requests, Restores(r, i) \/ Repeats(r, i) \/ \E says \in {"yes", "no"} : Decides(r, i, says) PROVE ReqSound(x)
    BY <1>0, <2>9 DEF Restores, Repeats, Decides
  <2>. QED
    BY <2>1, <2>2, <2>3, <2>4, <2>5, <2>6, <2>7, <2>8, <2>9 DEF Turns
<1>2. req' \in [Requests -> Invocation] /\ \A q \in Requests : q # r => req'[q] = req[q]
  BY DEF Turns, Dies, Fails, Begins, Finds, Checks, Deletes, Creates, Fills, Skips, Reads, Writes, Continues, Says, Approves,
         Calls, AsksFor, Responds, Allows, Claims, Executes, Finishes, Snaps, Saves, Restores, Repeats, Decides, Jumps, Sends, Others
<1>3. \A q \in Requests : ReqSound(req'[q])
  BY <1>1, <1>2 DEF AdkTypes
<1>4. RowSound(sess')
  <2>1. CASE sess' = NoSession \/ sess' = [ver |-> 1, whole |-> FALSE, events |-> <<>>] \/ sess' = [ver |-> 2, whole |-> TRUE, events |-> <<>>]
    <3>0. <<>> \in Seq(Event)
      OBVIOUS
    <3>1. CASE sess' = NoSession
      BY <3>0, <3>1 DEF RowSound, Session, NoSession
    <3>2. CASE sess' = [ver |-> 1, whole |-> FALSE, events |-> <<>>]
      BY <3>0, <3>2 DEF RowSound, Session
    <3>3. CASE sess' = [ver |-> 2, whole |-> TRUE, events |-> <<>>]
      BY <3>0, <3>3 DEF RowSound, Session
    <3>. QED
      BY <2>1, <3>1, <3>2, <3>3
  <2>2. CASE Writes(r)
    <3>1. sess.ver \in Nat /\ y.out # <<>> /\ Head(y.out) \in Event
      BY <1>0, <2>2 DEF Writes, RowSound, Session, ReqSound
    <3>2. sess' = [ver |-> sess.ver + 1, whole |-> TRUE, events |-> Append(y.seen, Head(y.out))]
      BY <2>2 DEF Writes
    <3>3. Append(y.seen, Head(y.out)) \in Seq(Event) /\ sess.ver + 1 \in Nat /\ sess.ver + 1 # 0
      BY <1>0, <3>1
    <3>. QED
      BY <3>2, <3>3 DEF RowSound, Session
  <2>3. CASE sess' = sess
    BY <1>0, <2>3
  <2>. QED
    BY <2>1, <2>2, <2>3 DEF Turns, Dies, Fails, Begins, Finds, Checks, Deletes, Creates, Fills, Skips, Reads, Continues, Says, Approves,
         Calls, AsksFor, Responds, Allows, Claims, Executes, Finishes, Snaps, Saves, Restores, Repeats, Decides, Steady
<1>5. ckpt' \in [Requests -> Snapshots] /\ \A i \in Requests : ckpt'[i].held => ckpt'[i].events # <<>>
  <2>0. ckpt \in [Requests -> Snapshots] /\ \A i \in Requests : ckpt[i].held => ckpt[i].events # <<>>
    BY DEF AdkTypes
  <2>1. ASSUME NEW s \in Snapshots, s.held => s.events # <<>>, ckpt' = [ckpt EXCEPT ![y.inv] = s]
        PROVE  ckpt' \in [Requests -> Snapshots] /\ \A i \in Requests : ckpt'[i].held => ckpt'[i].events # <<>>
    BY <1>0, <2>0, <2>1
  <2>2. NoSnapshot \in Snapshots /\ ~NoSnapshot.held
    BY DEF NoSnapshot, Snapshots
  <2>3. CASE Finishes(r)
    BY <2>1, <2>2, <2>3 DEF Finishes
  <2>4. CASE Saves(r)
    <3>. DEFINE s == IF y.seen = <<>> \/ UnsafePending(y.seen, y.inv) THEN NoSnapshot ELSE [held |-> TRUE, events |-> y.seen]
    <3>1. s \in Snapshots /\ (s.held => s.events # <<>>)
      BY <1>0, <2>2 DEF Snapshots
    <3>2. ckpt' = [ckpt EXCEPT ![y.inv] = s]
      BY <2>4 DEF Saves
    <3>. HIDE DEF s
    <3>. QED
      BY <2>1, <3>1, <3>2
  <2>5. CASE ckpt' = ckpt
    BY <2>0, <2>5
  <2>. QED
    BY <2>3, <2>4, <2>5 DEF Turns, Dies, Fails, Begins, Finds, Checks, Deletes, Creates, Fills, Skips, Reads, Writes, Continues, Says, Approves,
         Calls, AsksFor, Responds, Allows, Claims, Executes, Snaps, Restores, Repeats, Decides, Steady, stores
<1>6. setup' = setup
  BY DEF Turns, Dies, Fails, Begins, Finds, Checks, Deletes, Creates, Fills, Skips, Reads, Writes, Continues, Says, Approves,
         Calls, AsksFor, Responds, Allows, Claims, Executes, Finishes, Snaps, Saves, Restores, Repeats, Decides, Steady
<1>7. claimed' \subseteq Requests /\ approved' \subseteq Requests /\ rolled' \in BOOLEAN
  BY <1>0 DEF AdkTypes, Turns, Dies, Fails, Begins, Finds, Checks, Deletes, Creates, Fills, Skips, Reads, Writes, Continues, Says, Approves,
         Calls, AsksFor, Responds, Allows, Claims, Executes, Finishes, Snaps, Saves, Restores, Repeats, Decides, Steady, stores
<1>8. ran' \in [Requests -> Nat]
  <2>0. ran \in [Requests -> Nat]
    BY DEF AdkTypes
  <2>1. CASE Executes(r)
    BY <1>0, <2>0, <2>1 DEF Executes
  <2>2. CASE ran' = ran
    BY <2>0, <2>2
  <2>. QED
    BY <2>1, <2>2 DEF Turns, Dies, Fails, Begins, Finds, Checks, Deletes, Creates, Fills, Skips, Reads, Writes, Continues, Says, Approves,
         Calls, AsksFor, Responds, Allows, Claims, Finishes, Snaps, Saves, Restores, Repeats, Decides, Steady, stores
<1>. QED
  BY <1>2, <1>3, <1>4, <1>5, <1>6, <1>7, <1>8 DEF AdkTypes

\* The end of the process keeps the types.
LEMMA AdkTypesDie ==
    ASSUME AdkTypes, Dying
    PROVE  AdkTypes'
<1>1. \A q \in Requests : ReqSound(req'[q])
  <2>1. \A q \in Requests : ReqSound(Dead(q)) /\ ReqSound(req[q])
    BY QuietIs DEF ReqSound, AtRest, AdkTypes
  <2>. QED
    BY <2>1, DyingIs
<1>. QED
  BY <1>1, DyingIs DEF AdkTypes, Steady

-----------------------------------------------------------------------------
\* The approvals.
GatedReq(x, A) ==
    /\ x.says # "none" => x.kind = "approve"
    /\ x.says = "yes" /\ x.pc \notin Ended \cup {"check"} => x.call \in A
    /\ setup.gated /\ setup.tool = "unsafe" /\ x.pc \in {"claim", "exec"} => x.says = "yes"

LEMMA GatedKept ==
    ASSUME AdkTypes, Gated, NEW r \in Requests, Turns(r)
    PROVE  Gated'
<1>. DEFINE x == req'[r]
            y == req[r]
            A == approved'
<1>0. y \in Invocation /\ y.says \in {"none", "yes", "no"} /\ GatedReq(y, approved) /\ setup.tool \in {"read_only", "unsafe"}
  BY SetupsAssumption DEF AdkTypes, Invocation, Gated, GatedReq
<1>1. approved \subseteq A
  BY TurnsKeep DEF Checks
<1>2. GatedReq(x, A)
  <2>. USE DEF GatedReq
  <2>1. CASE Dies(r) \/ Saves(r)
    BY <2>1, QuietIs DEF Dies, Saves, AtRest, Ended
  <2>2. CASE Fails(r)
    BY <1>0, <1>1, <2>2 DEF Fails, IsFailed, SameTask, InRunner, Ended
  <2>3. CASE Begins(r)
    BY <2>3 DEF Begins, AtRest
  <2>4. CASE Finds(r) \/ Deletes(r) \/ Creates(r) \/ Fills(r) \/ Claims(r) \/ Executes(r) \/ Finishes(r)
    BY <1>0, <1>1, <2>4 DEF Finds, Deletes, Creates, Fills, Claims, Executes, Finishes, Jumps, Jumped, SameTask, Ended
  <2>5. CASE Checks(r) \/ Allows(r)
    BY <1>0, <1>1, <2>5 DEF Checks, Allows, Jumps, Jumped, SameTask, Ended, Gate
  <2>6. CASE Skips(r) \/ Writes(r)
    <3>1. IsAdvanced(x, y) /\ y.pc \in {"get", "put"}
      BY <2>6 DEF Skips, Writes
    <3>2. y.next \in {"idle", "model", "tool", "finish"}
      BY <1>0 DEF Invocation
    <3>. QED
      BY <1>0, <1>1, <3>1, <3>2 DEF IsAdvanced, SameTask, Ended
  <2>7. CASE Reads(r) \/ Snaps(r)
    BY <1>0, <1>1, <2>7 DEF Reads, Snaps, SameTask, Ended
  <2>8. CASE Continues(r) \/ Calls(r)
    BY <1>0, <1>1, <2>8 DEF Continues, Calls, Ended
  <2>9. CASE Says(r) \/ Approves(r) \/ AsksFor(r) \/ Responds(r)
    <3>1. PICK es, p : Sent(x, y, es, p)
      BY <2>9 DEF Says, Approves, AsksFor, Responds, Sends
    <3>2. y.pc \in {"run", "model", "tool", "claim", "record"}
      BY <2>9 DEF Says, Approves, AsksFor, Responds
    <3>. QED
      BY <1>0, <1>1, <3>1, <3>2 DEF Sent, Ended
  <2>10. ASSUME NEW i \in Requests, Restores(r, i) \/ Repeats(r, i) \/ \E says \in {"yes", "no"} : Decides(r, i, says) PROVE GatedReq(x, A)
    BY <1>0, <1>1, <2>10 DEF Restores, Repeats, Decides, Ended
  <2>. QED
    BY <2>1, <2>2, <2>3, <2>4, <2>5, <2>6, <2>7, <2>8, <2>9, <2>10 DEF Turns
<1>3. setup' = setup /\ \A q \in Requests : q # r => req'[q] = req[q]
  BY TurnsKeep DEF Others
<1>4. \A q \in Requests : GatedReq(req'[q], A)
  <2>1. \A q \in Requests : GatedReq(req[q], A)
    BY <1>1 DEF Gated, GatedReq
  <2>. QED
    BY <1>2, <1>3, <2>1
<1>5. setup.gated /\ setup.tool = "unsafe" => \A c \in Requests : ran'[c] > 0 => c \in A
  <2>1. CASE ran' = ran
    BY <1>1, <2>1 DEF Gated
  <2>2. CASE Executes(r)
    <3>1. y.pc = "exec" /\ ran' = [ran EXCEPT ![y.call] = @ + 1]
      BY <2>2 DEF Executes, Jumps
    <3>2. setup.gated /\ setup.tool = "unsafe" => y.call \in approved
      BY <1>0, <3>1 DEF GatedReq, Ended
    <3>. QED
      BY <1>1, <3>1, <3>2 DEF Gated, AdkTypes
  <2>. QED
    BY <2>1, <2>2, TurnsKeep
<1>. QED
  BY <1>3, <1>4, <1>5 DEF Gated, GatedReq

\* The end of the process keeps what is approved.
LEMMA GatedDies ==
    ASSUME AdkTypes, Gated, Dying
    PROVE  Gated'
<1>1. \A q \in Requests : GatedReq(Dead(q), approved) /\ GatedReq(req[q], approved)
  BY QuietIs DEF Gated, GatedReq, AtRest, Ended
<1>2. \A q \in Requests : GatedReq(req'[q], approved)
  BY <1>1, DyingIs
<1>. QED
  BY <1>2, DyingIs DEF Gated, GatedReq, Steady

-----------------------------------------------------------------------------
\* A request comes to the execution of its tool by its claim, and is under way from
\* its entry on.
LEMMA TurnsGo ==
    ASSUME AdkTypes, NEW r \in Requests, Turns(r)
    PROVE  /\ req'[r].pc = "exec" => Claims(r)
           /\ req'[r].pc # "idle"
           /\ Active(r) \/ MayEnter(r)
           /\ req'[r].pc \in {"success", "paused"} => Finishes(r)
           /\ req'[r] # Dead(r) => req'[r].inv = req[r].inv \/ MayEnter(r)
           /\ MayEnter(r) => req[r].pc = "idle"
<1>. DEFINE x == req'[r]
            y == req[r]
<1>. USE DEF Active, Ended
<1>1. CASE Dies(r) \/ Saves(r)
  BY <1>1, QuietIs DEF Dies, Saves, AtRest, MayEnter
<1>2. CASE Fails(r)
  BY <1>2 DEF Fails, IsFailed, SameTask, InRunner, MayEnter
<1>3. CASE Begins(r)
  BY <1>3 DEF Begins, AtRest, MayEnter
<1>4. CASE Finds(r) \/ Deletes(r) \/ Creates(r) \/ Fills(r) \/ Claims(r) \/ Executes(r) \/ Finishes(r) \/ Checks(r) \/ Allows(r)
  BY <1>4 DEF Finds, Deletes, Creates, Fills, Claims, Executes, Finishes, Checks, Allows, Jumps, Jumped, SameTask, MayEnter
<1>5. CASE Skips(r) \/ Writes(r)
  <2>1. IsAdvanced(x, y) /\ y.pc \in {"get", "put"}
    BY <1>5 DEF Skips, Writes
  <2>2. y.next \in {"idle", "model", "tool", "finish"}
    BY DEF AdkTypes, Invocation
  <2>. QED
    BY <2>1, <2>2 DEF IsAdvanced, SameTask, MayEnter
<1>6. CASE Reads(r) \/ Snaps(r)
  BY <1>6 DEF Reads, Snaps, SameTask, MayEnter
<1>7. CASE Continues(r) \/ Calls(r)
  BY <1>7 DEF Continues, Calls, MayEnter
<1>8. CASE Says(r) \/ Approves(r) \/ AsksFor(r) \/ Responds(r)
  <2>1. PICK es, p : Sent(x, y, es, p)
    BY <1>8 DEF Says, Approves, AsksFor, Responds, Sends
  <2>2. y.pc \in {"run", "model", "tool", "claim", "record"}
    BY <1>8 DEF Says, Approves, AsksFor, Responds
  <2>. QED
    BY <2>1, <2>2 DEF Sent, MayEnter
<1>9. ASSUME NEW i \in Requests, Restores(r, i) \/ Repeats(r, i) \/ \E says \in {"yes", "no"} : Decides(r, i, says)
      PROVE  /\ x.pc \notin {"exec", "idle", "success", "paused"} /\ (Active(r) \/ MayEnter(r))
             /\ x.inv = y.inv \/ MayEnter(r)
             /\ MayEnter(r) => y.pc = "idle"
  BY <1>9 DEF Restores, Repeats, Decides, MayEnter
<1>. QED
  BY <1>1, <1>2, <1>3, <1>4, <1>5, <1>6, <1>7, <1>8, <1>9 DEF Turns

\* The claims.
LEMMA RegisteredKept ==
    ASSUME AdkTypes, Registered, NEW r \in Requests, Turns(r)
    PROVE  Registered'
<1>. DEFINE x == req'[r]
            y == req[r]
<1>0. setup' = setup /\ (\A q \in Requests : q # r => req'[q] = req[q]) /\ y.call \in Requests
  BY TurnsKeep DEF Others, AdkTypes, Invocation
<1>. SUFFICES ASSUME setup.registry, setup.tool = "unsafe"
              PROVE  /\ \A c \in Requests : ran'[c] <= 1 /\ (ran'[c] > 0 => c \in claimed')
                     /\ \A q \in Requests : req'[q].pc = "exec" => req'[q].call \in claimed' /\ ran'[req'[q].call] = 0
                     /\ \A p, q \in Requests : req'[p].pc = "exec" /\ req'[q].pc = "exec" /\ req'[p].call = req'[q].call => p = q
  BY <1>0 DEF Registered
<1>1. /\ \A c \in Requests : ran[c] <= 1 /\ (ran[c] > 0 => c \in claimed)
      /\ \A q \in Requests : req[q].pc = "exec" => req[q].call \in claimed /\ ran[req[q].call] = 0
      /\ \A p, q \in Requests : req[p].pc = "exec" /\ req[q].pc = "exec" /\ req[p].call = req[q].call => p = q
  BY DEF Registered
<1>2. CASE Claims(r)
  <2>1. ran' = ran /\ x.call = y.call /\ y.call \notin claimed /\ claimed' = claimed \cup {y.call}
    BY <1>2 DEF Claims, Jumps, Jumped, SameTask
  <2>2. ran[y.call] = 0
    BY <1>0, <1>1, <2>1 DEF AdkTypes
  <2>. QED
    BY <1>0, <1>1, <2>1, <2>2
<1>3. CASE Executes(r)
  <2>1. y.pc = "exec" /\ x.pc = "record" /\ claimed' = claimed /\ ran' = [ran EXCEPT ![y.call] = @ + 1]
    BY <1>3 DEF Executes, Jumps, Jumped
  <2>2. \A q \in Requests : q # r /\ req[q].pc = "exec" => req[q].call # y.call /\ req[q].call \in Requests
    BY <1>1, <2>1 DEF AdkTypes, Invocation
  <2>3. ran \in [Requests -> Nat] /\ ran[y.call] = 0 /\ y.call \in claimed
    BY <1>1, <2>1 DEF AdkTypes
  <2>. QED
    BY <1>0, <1>1, <2>1, <2>2, <2>3
<1>4. CASE ~Claims(r) /\ ~Executes(r)
  <2>1. ran' = ran /\ claimed' = claimed /\ x.pc # "exec"
    BY <1>4, TurnsKeep, TurnsGo
  <2>. QED
    BY <1>0, <1>1, <2>1
<1>. QED
  BY <1>2, <1>3, <1>4

\* A claim outlives the process.
LEMMA RegisteredDies ==
    ASSUME AdkTypes, Registered, Dying
    PROVE  Registered'
<1>1. Steady /\ \A q \in Requests : req'[q] = req[q] \/ req'[q].pc = "failed"
  BY DyingIs, QuietIs
<1>. QED
  BY <1>1 DEF Registered, Steady

\* Requests that follow each other.
LEMMA SequentialKept ==
    ASSUME AdkTypes, Sequential, NEW r \in Requests, Turns(r)
    PROVE  Sequential'
<1>. DEFINE x == req'[r]
            y == req[r]
<1>0. setup' = setup /\ (\A q \in Requests : q # r => req'[q] = req[q]) /\ y.inv \in Requests /\ x.pc # "idle"
  BY TurnsKeep, TurnsGo DEF Others, AdkTypes, Invocation
<1>. SUFFICES ASSUME ~setup.overlap
              PROVE  (OneAtATime /\ Finished)'
  BY <1>0 DEF Sequential
<1>1. OneAtATime /\ Finished
  BY DEF Sequential
<1>2. \A q \in Requests : q # r => ~Active(q) /\ ~Active(q)'
  <2>1. \A q \in Requests : q # r => ~Active(q)
    BY <1>1, TurnsGo DEF OneAtATime, MayEnter
  <2>. QED
    BY <1>0, <2>1 DEF Active
<1>3. OneAtATime'
  BY <1>2 DEF OneAtATime
<1>4. \A i \in Requests : ckpt'[i].held => req'[i].pc # "idle"
  <2>1. \A i \in Requests : ckpt[i].held => req'[i].pc # "idle"
    BY <1>0, <1>1 DEF Finished
  <2>2. req'[y.inv].pc # "idle" \/ ckpt' = ckpt
    <3>1. CASE y.inv = r
      BY <1>0, <3>1
    <3>2. CASE y.inv # r
      BY <1>0, <1>1, <3>2 DEF Finished
    <3>. QED
      BY <3>1, <3>2
  <2>3. \A i \in Requests : i # y.inv => ckpt'[i] = ckpt[i]
    BY <1>0, TurnsKeep DEF Finishes, Saves, AdkTypes
  <2>. QED
    BY <2>1, <2>2, <2>3
<1>5. x.inv # r => x.inv \in Requests /\ req'[x.inv].pc # "idle"
  <2>1. CASE x = Dead(r)
    BY <2>1, QuietIs DEF AtRest
  <2>2. CASE x.inv = y.inv
    BY <1>0, <1>1, <2>2 DEF Finished
  <2>3. CASE MayEnter(r)
    <3>1. CASE Begins(r)
      BY <3>1 DEF Begins, AtRest
    <3>2. ASSUME NEW i \in Requests, Restores(r, i) PROVE x.inv = i /\ req'[x.inv].pc # "idle"
      BY <1>0, <1>1, <3>2 DEF Restores, Finished
    <3>3. ASSUME NEW i \in Requests, NEW says \in {"yes", "no"}, Decides(r, i, says) PROVE x.inv = r
      BY <3>3 DEF Decides
    <3>4. y.pc = "idle"
      BY <2>3 DEF MayEnter
    <3>. QED
      BY <3>1, <3>2, <3>3, <3>4 DEF Turns, Dies, Fails, Finds, Checks, Deletes, Creates, Fills, Skips, Reads, Writes, Continues, Says,
           Approves, Calls, AsksFor, Responds, Allows, Claims, Executes, Finishes, Snaps, Saves, Repeats, Jumps, Active, InRunner
  <2>. QED
    BY <2>1, <2>2, <2>3, TurnsGo
<1>6. \A q \in Requests : req'[q].inv # q => req'[req'[q].inv].pc # "idle"
  <2>1. ASSUME NEW q \in Requests, q # r, req'[q].inv # q PROVE req'[req'[q].inv].pc # "idle"
    <3>1. req'[q] = req[q] /\ req[q].inv \in Requests /\ req[req[q].inv].pc # "idle"
      BY <1>0, <1>1, <2>1 DEF Finished, AdkTypes, Invocation
    <3>. QED
      BY <1>0, <3>1
  <2>. QED
    BY <1>5, <2>1
<1>7. ASSUME NEW q \in Requests, q # r, req[q].pc \in {"success", "paused"}
      PROVE  ~ckpt'[req[q].inv].held /\ (Active(r)' => x.inv # req[q].inv)
  <2>1. ~ckpt[req[q].inv].held /\ req[q].inv \in Requests /\ (req[q].inv # q => req[req[q].inv].pc # "idle")
    BY <1>1, <1>7 DEF Finished, AdkTypes, Invocation
  <2>2. CASE Active(r)
    <3>1. y.inv # req[q].inv
      BY <1>1, <1>7, <2>2 DEF Finished
    <3>2. ckpt'[req[q].inv] = ckpt[req[q].inv]
      BY <1>0, <2>1, <3>1, TurnsKeep DEF Finishes, Saves, AdkTypes
    <3>3. x = Dead(r) \/ x.inv = y.inv
      BY <2>2, TurnsGo DEF MayEnter, Active
    <3>4. x = Dead(r) => ~Active(r)'
      BY QuietIs DEF Active, Ended
    <3>. QED
      BY <2>1, <3>1, <3>2, <3>3, <3>4
  <2>3. CASE ~Active(r)
    <3>1. MayEnter(r) /\ y.pc = "idle"
      BY <2>3, TurnsGo DEF MayEnter
    <3>2. ckpt' = ckpt
      BY <3>1, TurnsKeep DEF Finishes, Saves, Jumps
    <3>3. req[q].inv # r
      BY <1>7, <2>1, <3>1
    <3>4. x.inv = r \/ \E i \in Requests : ckpt[i].held /\ x.inv = i
      BY <3>1 DEF Begins, AtRest, Restores, Decides, Turns, Dies, Fails, Finds, Checks, Deletes, Creates, Fills, Skips, Reads, Writes,
           Continues, Says, Approves, Calls, AsksFor, Responds, Allows, Claims, Executes, Finishes, Snaps, Saves, Repeats, Jumps, Active, InRunner
    <3>. QED
      BY <2>1, <3>2, <3>3, <3>4
  <2>. QED
    BY <2>2, <2>3
<1>8. x.pc \in {"success", "paused"} => ~ckpt'[x.inv].held
  <2>1. ASSUME Finishes(r) PROVE x.inv = y.inv /\ ~ckpt'[y.inv].held
    BY <1>0, <2>1 DEF Finishes, Jumps, Jumped, SameTask, AdkTypes, NoSnapshot
  <2>. QED
    BY <2>1, TurnsGo
<1>9. \A q \in Requests : req'[q].pc \in {"success", "paused"} =>
          ~ckpt'[req'[q].inv].held /\ \A p \in Requests : Active(p)' => req'[p].inv # req'[q].inv
  <2>1. x.pc \in {"success", "paused"} => ~Active(r)'
    BY DEF Active, Ended
  <2>. QED
    BY <1>0, <1>2, <1>7, <1>8, <2>1
<1>. QED
  BY <1>3, <1>4, <1>6, <1>9 DEF Finished

\* At the end of the process nobody is under way.
LEMMA SequentialDies ==
    ASSUME AdkTypes, Sequential, Dying
    PROVE  Sequential' /\ \A q \in Requests : ~Active(q)'
<1>1. Steady /\ \A q \in Requests : req'[q] = req[q] \/ (Active(q) /\ req'[q].pc = "failed" /\ req'[q].inv = q)
  BY DyingIs, QuietIs DEF AtRest
<1>2. \A q \in Requests : ~Active(q)'
  <2>1. \A q \in Requests : (req'[q] = req[q] /\ ~Active(q)) \/ req'[q].pc = "failed"
    BY DyingIs, QuietIs
  <2>. QED
    BY <2>1 DEF Active, Ended
<1>3. ~setup.overlap => Finished'
  <2>. SUFFICES ASSUME ~setup.overlap PROVE Finished'
    OBVIOUS
  <2>0. Finished /\ ckpt' = ckpt /\ \A q \in Requests : req[q].inv \in Requests
    BY <1>1 DEF Sequential, Steady, AdkTypes, Invocation
  <2>1. \A q \in Requests : req'[q].pc = "idle" => req[q].pc = "idle"
    BY <1>1
  <2>2. \A i \in Requests : ckpt'[i].held => req'[i].pc # "idle"
    BY <2>0, <2>1 DEF Finished
  <2>3. \A q \in Requests : req'[q].inv # q => req'[req'[q].inv].pc # "idle"
    BY <1>1, <2>0, <2>1 DEF Finished
  <2>4. \A q \in Requests : req'[q].pc \in {"success", "paused"} => ~ckpt'[req'[q].inv].held
    BY <1>1, <2>0 DEF Finished
  <2>. QED
    BY <1>2, <2>2, <2>3, <2>4 DEF Finished
<1>. QED
  BY <1>1, <1>2, <1>3 DEF Sequential, OneAtATime, Steady

-----------------------------------------------------------------------------
\* The events of a sequence.
LEMMA EventsOf ==
    ASSUME NEW s \in Seq(Event)
    PROVE  /\ \A e \in Event : Append(s, e) \in Seq(Event) /\ ToSet(Append(s, e)) = ToSet(s) \cup {e}
           /\ \A e \in Event : Contains(s, e) <=> e \in ToSet(s)
           /\ \A K, c : Has(K, c, s) <=> Told(K, c, ToSet(s))
<1>0. Len(s) \in Nat /\ DOMAIN s = 1..Len(s)
  OBVIOUS
<1>1. ASSUME NEW e \in Event PROVE Append(s, e) \in Seq(Event) /\ ToSet(Append(s, e)) = ToSet(s) \cup {e}
  <2>1. /\ Append(s, e) \in Seq(Event) /\ DOMAIN Append(s, e) = 1..Len(s) + 1
        /\ Append(s, e)[Len(s) + 1] = e /\ \A i \in 1..Len(s) : Append(s, e)[i] = s[i]
    OBVIOUS
  <2>. DEFINE a == Append(s, e)
  <2>. HIDE DEF a
  <2>2. {a[i] : i \in 1..Len(s) + 1} = {s[i] : i \in 1..Len(s)} \cup {e}
    <3>1. \A i \in 1..Len(s) + 1 : i \in 1..Len(s) \/ i = Len(s) + 1
      BY <1>0
    <3>2. Len(s) + 1 \in 1..Len(s) + 1 /\ \A i \in 1..Len(s) : i \in 1..Len(s) + 1
      BY <1>0
    <3>3. a[Len(s) + 1] = e /\ \A i \in 1..Len(s) : a[i] = s[i]
      BY <2>1 DEF a
    <3>. QED
      BY <3>1, <3>2, <3>3
  <2>. QED
    BY <1>0, <2>1, <2>2 DEF a, ToSet
<1>2. \A e \in Event : Contains(s, e) <=> e \in ToSet(s)
  BY <1>0 DEF Contains, ToSet
<1>3. \A K, c : Has(K, c, s) <=> Told(K, c, ToSet(s))
  BY DEF Has, Told, ToSet
<1>. QED
  BY <1>1, <1>2, <1>3

\* The first event and the others.
LEMMA EventsHead ==
    ASSUME NEW s \in Seq(Event), s # <<>>
    PROVE  Head(s) \in Event /\ Tail(s) \in Seq(Event) /\ ToSet(s) = {Head(s)} \cup ToSet(Tail(s))
<1>1. Head(s) \in Event /\ Tail(s) \in Seq(Event) /\ Members(s) = {Head(s)} \cup Members(Tail(s))
  BY MembersPop
<1>2. \A u \in Seq(Event) : ToSet(u) = Members(u)
  BY DEF ToSet, Members
<1>. QED
  BY <1>1, <1>2

\* No events, one and two.
LEMMA EventsFew ==
    /\ ToSet(<<>>) = {}
    /\ \A e : ToSet(<<e>>) = {e} /\ Head(<<e>>) = e /\ Tail(<<e>>) = <<>>
    /\ \A e, f : ToSet(<<e, f>>) = {e, f}
<1>1. ToSet(<<>>) = {}
  BY DEF ToSet
<1>2. \A e : ToSet(<<e>>) = {e} /\ Head(<<e>>) = e /\ Tail(<<e>>) = <<>>
  BY DEF ToSet
<1>3. \A e, f : ToSet(<<e, f>>) = {e, f}
  BY DEF ToSet
<1>. QED
  BY <1>1, <1>2, <1>3

\* Who is not under way has nothing to keep.
LEMMA AloneIdle ==
    ASSUME NEW r \in Requests, req[r].pc \in Ended \cup {"idle"}
    PROVE  Alone(r) /\ Resumed(r) /\ Confirmed(r)
  BY DEF Alone, Resumed, Confirmed, Ended, Outside, InRunner

\* The session as a request that is alone finds it.
LEMMA AloneKept ==
    ASSUME AdkTypes, NEW r \in Requests, Turns(r), Alone(r)
    PROVE  Alone(r)'
<1>. DEFINE x == req'[r]
            y == req[r]
            s == sess'
<1>. USE DEF Alone, Outside, InRunner
<1>0. y \in Invocation /\ y.next \in {"idle", "model", "tool", "finish"} /\ RowSound(sess)
  BY DEF AdkTypes, Invocation
<1>1. CASE Dies(r) \/ Saves(r)
  BY <1>1, QuietIs DEF Dies, Saves
<1>2. CASE Fails(r) \/ Finishes(r) \/ Snaps(r)
  BY <1>2 DEF Fails, IsFailed, Finishes, Jumps, Jumped, Snaps
<1>3. CASE Begins(r)
  BY <1>3 DEF Begins, AtRest
<1>4. CASE Finds(r)
  BY <1>4 DEF Finds, Jumps, Jumped, SameTask, Steady
<1>5. CASE Checks(r)
  BY <1>5 DEF Checks, Jumps, Jumped, SameTask, HasPendingConfirmation
<1>6. CASE Deletes(r) \/ Creates(r)
  BY <1>6 DEF Deletes, Creates, Jumps, Jumped, SameTask
<1>7. CASE Fills(r)
  BY <1>7 DEF Fills, Jumps, Jumped, SameTask
<1>8. CASE Allows(r) \/ Claims(r) \/ Executes(r)
  BY <1>8 DEF Allows, Claims, Executes, Jumps, Jumped, SameTask, Steady
<1>9. CASE Skips(r) \/ Writes(r)
  <2>1. IsAdvanced(x, y) /\ s.whole
    BY <1>9 DEF Skips, Writes, Steady
  <2>. QED
    BY <1>0, <2>1 DEF IsAdvanced, SameTask
<1>10. CASE Reads(r)
  BY <1>10 DEF Reads, SameTask, Steady
<1>11. CASE Continues(r) \/ Calls(r)
  BY <1>11 DEF Continues, Calls, Steady
<1>12. CASE Says(r) \/ Approves(r) \/ AsksFor(r) \/ Responds(r)
  <2>1. PICK es, p : Sent(x, y, es, p)
    BY <1>12 DEF Says, Approves, AsksFor, Responds, Sends
  <2>2. y.pc \in {"run", "model", "tool", "claim", "record"} /\ s = sess
    BY <1>12 DEF Says, Approves, AsksFor, Responds, Steady
  <2>. QED
    BY <2>1, <2>2 DEF Sent
<1>13. ASSUME NEW i \in Requests, Restores(r, i) \/ Repeats(r, i) \/ \E says \in {"yes", "no"} : Decides(r, i, says)
       PROVE  Alone(r)'
  BY <1>13 DEF Restores, Repeats, Decides, Steady
<1>. QED
  BY <1>1, <1>2, <1>3, <1>4, <1>5, <1>6, <1>7, <1>8, <1>9, <1>10, <1>11, <1>12, <1>13 DEF Turns

\* A write follows a read.
LEMMA TurnsPut ==
    ASSUME AdkTypes, NEW r \in Requests, Turns(r), req'[r].pc = "put"
    PROVE  Reads(r)
<1>. DEFINE x == req'[r]
            y == req[r]
<1>1. CASE Dies(r) \/ Saves(r)
  BY <1>1, QuietIs DEF Dies, Saves
<1>2. CASE Fails(r) \/ Begins(r) \/ Snaps(r)
  BY <1>2 DEF Fails, IsFailed, Begins, Snaps
<1>3. CASE Finds(r) \/ Deletes(r) \/ Creates(r) \/ Fills(r) \/ Claims(r) \/ Executes(r) \/ Finishes(r) \/ Checks(r) \/ Allows(r)
  BY <1>3 DEF Finds, Deletes, Creates, Fills, Claims, Executes, Finishes, Checks, Allows, Jumps, Jumped
<1>4. CASE Skips(r) \/ Writes(r)
  <2>1. IsAdvanced(x, y) /\ y.next \in {"idle", "model", "tool", "finish"}
    BY <1>4 DEF Skips, Writes, AdkTypes, Invocation
  <2>. QED
    BY <2>1 DEF IsAdvanced
<1>5. CASE Continues(r) \/ Calls(r)
  BY <1>5 DEF Continues, Calls
<1>6. CASE Says(r) \/ Approves(r) \/ AsksFor(r) \/ Responds(r)
  <2>1. PICK es, p : Sent(x, y, es, p)
    BY <1>6 DEF Says, Approves, AsksFor, Responds, Sends
  <2>. QED
    BY <2>1 DEF Sent
<1>7. ASSUME NEW i \in Requests PROVE ~Restores(r, i) /\ ~Repeats(r, i) /\ \A says \in {"yes", "no"} : ~Decides(r, i, says)
  BY DEF Restores, Repeats, Decides
<1>. QED
  BY <1>1, <1>2, <1>3, <1>4, <1>5, <1>6, <1>7 DEF Turns

\* What a write leaves in the session.
LEMMA WritesAre ==
    ASSUME AdkTypes, NEW r \in Requests, Writes(r)
    PROVE  /\ req[r].seen \in Seq(Event) /\ Head(req[r].out) \in Event
           /\ sess'.ver = sess.ver + 1 /\ sess'.whole
           /\ sess'.events = Append(req[r].seen, Head(req[r].out))
           /\ ToSet(sess'.events) = ToSet(req[r].seen) \cup {Head(req[r].out)}
<1>1. req[r].seen \in Seq(Event) /\ req[r].out \in Seq(Event) /\ req[r].out # <<>>
  BY DEF Writes, AdkTypes, ReqSound, Invocation
<1>2. Head(req[r].out) \in Event
  BY <1>1, EventsHead
<1>3. sess' = [ver |-> sess.ver + 1, whole |-> TRUE, events |-> Append(req[r].seen, Head(req[r].out))]
  BY DEF Writes
<1>4. sess'.ver = sess.ver + 1 /\ sess'.whole /\ sess'.events = Append(req[r].seen, Head(req[r].out))
  BY <1>3
<1>. QED
  BY <1>1, <1>2, <1>4, EventsOf

\* An event that is not there yet is there once.
LEMMA DistinctAppend ==
    ASSUME NEW s \in Seq(Event), NEW e \in Event, Distinct(s), ~Contains(s, e)
    PROVE  Distinct(Append(s, e))
<1>0. Len(s) \in Nat /\ DOMAIN s = 1..Len(s)
  OBVIOUS
<1>1. /\ DOMAIN Append(s, e) = 1..Len(s) + 1
      /\ Append(s, e)[Len(s) + 1] = e /\ \A i \in 1..Len(s) : Append(s, e)[i] = s[i]
  OBVIOUS
<1>2. \A i \in 1..Len(s) : s[i] # e
  BY <1>0 DEF Contains
<1>. DEFINE a == Append(s, e)
<1>. HIDE DEF a
<1>3. ASSUME NEW i \in 1..Len(s) + 1, NEW j \in 1..Len(s) + 1, a[i] = a[j] PROVE i = j
  <2>1. (i \in 1..Len(s) \/ i = Len(s) + 1) /\ (j \in 1..Len(s) \/ j = Len(s) + 1)
    BY <1>0
  <2>2. a[Len(s) + 1] = e /\ \A k \in 1..Len(s) : a[k] = s[k]
    BY <1>1 DEF a
  <2>. QED
    BY <1>0, <1>2, <1>3, <2>1, <2>2 DEF Distinct
<1>. QED
  BY <1>1, <1>3 DEF a, Distinct

\* No event is written twice.
LEMMA UnrepeatedKept ==
    ASSUME AdkTypes, Unrepeated, NEW r \in Requests, Turns(r)
    PROVE  Unrepeated'
<1>1. Distinct(sess'.events)
  <2>0. Distinct(<<>>)
    BY DEF Distinct
  <2>1. CASE sess' = sess
    BY <2>1 DEF Unrepeated
  <2>2. CASE Deletes(r) \/ Creates(r) \/ Fills(r)
    <3>1. sess'.events = <<>>
      BY <2>2 DEF Deletes, Creates, Fills, NoSession
    <3>. QED
      BY <2>0, <3>1
  <2>3. CASE Writes(r)
    <3>1. Distinct(req[r].seen) /\ ~Contains(req[r].seen, Head(req[r].out))
      BY <2>3 DEF Writes, Unrepeated
    <3>2. Distinct(Append(req[r].seen, Head(req[r].out)))
      BY <2>3, <3>1, WritesAre, DistinctAppend
    <3>. QED
      BY <2>3, <3>2, WritesAre
  <2>. QED
    BY <2>1, <2>2, <2>3, TurnsKeep
<1>2. ASSUME req'[r].pc = "put" PROVE Distinct(req'[r].seen) /\ ~Contains(req'[r].seen, Head(req'[r].out))
  <2>1. req'[r].seen = sess.events /\ req'[r].out = req[r].out /\ ~Contains(sess.events, Head(req[r].out))
    BY <1>2, TurnsPut DEF Reads
  <2>. QED
    BY <2>1 DEF Unrepeated
<1>3. \A q \in Requests : q # r => req'[q] = req[q]
  BY TurnsKeep DEF Others
<1>. QED
  BY <1>1, <1>2, <1>3 DEF Unrepeated

\* The end of the process writes nothing.
LEMMA UnrepeatedDies ==
    ASSUME AdkTypes, Unrepeated, Dying
    PROVE  Unrepeated'
<1>1. Steady /\ \A q \in Requests : req'[q] = req[q] \/ req'[q].pc = "failed"
  BY DyingIs, QuietIs
<1>. QED
  BY <1>1 DEF Unrepeated, Steady

-----------------------------------------------------------------------------
\* A call that waits for its response is one that has none.
LEMMA PendingIs ==
    ASSUME NEW s \in Seq(Event), NEW i \in Requests
    PROVE  Settled(ToSet(s), i) <=> Pending(s, i) = {}
<1>1. ASSUME NEW c \in Requests
      PROVE  /\ Contains(s, <<"call", c, i, c>>) <=> <<"call", c, i, c>> \in ToSet(s)
             /\ Has({"resp"}, c, s) <=> \E e \in ToSet(s) : KindOf(e) = "resp" /\ CallOf(e) = c
  <2>1. <<"call", c, i, c>> \in Event
    BY DEF Event, Kinds
  <2>2. Has({"resp"}, c, s) <=> Told({"resp"}, c, ToSet(s))
    BY EventsOf
  <2>. QED
    BY <2>1, <2>2, EventsOf DEF Told
<1>. QED
  BY <1>1 DEF Settled, Pending

\* A snapshot holds no call that waits for a response.
LEMMA SnapshotsKept ==
    ASSUME AdkTypes, setup.tool = "unsafe", SnapshotsSettled, NEW r \in Requests, Turns(r)
    PROVE  SnapshotsSettled'
<1>. DEFINE i == req[r].inv
<1>0. i \in Requests /\ req[r].seen \in Seq(Event) /\ ckpt \in [Requests -> Snapshots]
  BY DEF AdkTypes, Invocation
<1>1. CASE ckpt' = ckpt
  BY <1>1 DEF SnapshotsSettled
<1>2. CASE Finishes(r)
  <2>1. ckpt' = [ckpt EXCEPT ![i] = NoSnapshot] /\ ~NoSnapshot.held
    BY <1>2 DEF Finishes, NoSnapshot
  <2>2. ~ckpt'[i].held /\ \A j \in Requests : j # i => ckpt'[j] = ckpt[j]
    BY <1>0, <2>1
  <2>. QED
    BY <2>2 DEF SnapshotsSettled
<1>3. CASE Saves(r)
  <2>. DEFINE s == req[r].seen
              n == IF s = <<>> \/ UnsafePending(s, i) THEN NoSnapshot ELSE [held |-> TRUE, events |-> s]
  <2>1. ckpt' = [ckpt EXCEPT ![i] = n]
    BY <1>3 DEF Saves
  <2>2. ASSUME n.held PROVE n.events = s /\ Settled(ToSet(s), i)
    <3>1. n = [held |-> TRUE, events |-> s] /\ ~UnsafePending(s, i)
      BY <2>2 DEF NoSnapshot
    <3>2. Pending(s, i) = {}
      BY <3>1 DEF UnsafePending
    <3>. QED
      BY <1>0, <3>1, <3>2, PendingIs
  <2>. HIDE DEF n, s
  <2>3. ckpt'[i] = n /\ \A j \in Requests : j # i => ckpt'[j] = ckpt[j]
    BY <1>0, <2>1
  <2>. QED
    BY <2>2, <2>3 DEF SnapshotsSettled
<1>. QED
  BY <1>1, <1>2, <1>3, TurnsKeep

\* The session is there for who is alone in the runner.
LEMMA AloneWhole ==
    ASSUME AdkTypes, NEW r \in Requests, Alone(r)
    PROVE  /\ Skips(r) => Head(req[r].out) \in ToSet(sess.events) /\ sess' = sess
           /\ Writes(r) => ToSet(sess'.events) = ToSet(sess.events) \cup {Head(req[r].out)}
           /\ Creates(r) \/ Fills(r) => sess.events = <<>> /\ sess'.events = <<>>
<1>0. RowSound(sess) /\ sess.events \in Seq(Event)
  BY DEF AdkTypes, RowSound, Session
<1>1. ASSUME Skips(r) PROVE Head(req[r].out) \in ToSet(sess.events) /\ sess' = sess
  <2>1. req[r].out \in Seq(Event) /\ req[r].out # <<>> /\ req[r].pc = "get"
    BY <1>1 DEF Skips, AdkTypes, ReqSound, Invocation
  <2>2. sess.whole
    BY <2>1 DEF Alone, InRunner
  <2>3. sess.ver # 0
    BY <1>0, <2>2 DEF RowSound, NoSession
  <2>4. Contains(sess.events, Head(req[r].out)) /\ sess' = sess
    BY <1>1, <2>3 DEF Skips, Steady
  <2>. QED
    BY <1>0, <2>1, <2>4, EventsHead, EventsOf
<1>2. ASSUME Writes(r) PROVE ToSet(sess'.events) = ToSet(sess.events) \cup {Head(req[r].out)}
  <2>1. req[r].seen = sess.events
    BY <1>2 DEF Writes, Alone
  <2>. QED
    BY <1>2, <2>1, WritesAre
<1>3. ASSUME Creates(r) \/ Fills(r) PROVE sess.events = <<>> /\ sess'.events = <<>>
  <2>1. sess'.events = <<>>
    BY <1>3 DEF Creates, Fills
  <2>2. sess.ver = 0 \/ ~sess.whole
    BY <1>3 DEF Creates, Fills, Jumps, Alone
  <2>. QED
    BY <1>0, <2>1, <2>2 DEF RowSound, NoSession
<1>. QED
  BY <1>1, <1>2, <1>3

\* A resumed invocation, by what its request holds and the session's events.
ResumedReq(x, E) ==
    x.kind = "resume" /\ x.next = "idle" =>
        /\ x.pc \in Outside => Settled(ToSet(x.out), x.inv)
        /\ x.pc \in {"get", "put", "run"} => Settled(ToSet(x.out) \cup E, x.inv)

\* A resumed invocation has no call without a response.
LEMMA ResumedKept ==
    ASSUME AdkTypes, SnapshotsSettled, NEW r \in Requests, Turns(r), Alone(r), Resumed(r)
    PROVE  Resumed(r)'
<1>. DEFINE x == req'[r]
            y == req[r]
            E == ToSet(sess.events)
            F == ToSet(sess'.events)
<1>0. /\ y \in Invocation /\ y.next \in {"idle", "model", "tool", "finish"} /\ ResumedReq(y, E)
      /\ y.out \in Seq(Event)
  BY DEF AdkTypes, Invocation, Resumed, ResumedReq
<1>a. /\ y.pc = "ensure" => y.kind = "fresh"
      /\ y.pc = "check" => y.kind = "approve"
      /\ y.pc \in {"get", "put"} => y.out # <<>>
  BY DEF Alone, AdkTypes, ReqSound
<1>. HIDE DEF E, F
<1>. SUFFICES ResumedReq(x, F)
  BY DEF F, Resumed, ResumedReq
<1>1. CASE Dies(r) \/ Saves(r)
  BY <1>1, QuietIs DEF Dies, Saves, AtRest, ResumedReq
<1>2. CASE Fails(r) \/ Finishes(r) \/ Snaps(r)
  BY <1>2 DEF Fails, IsFailed, Finishes, Jumps, Jumped, Snaps, ResumedReq, Outside
<1>3. CASE Begins(r)
  BY <1>3 DEF Begins, AtRest, ResumedReq
<1>4. CASE Finds(r) \/ Checks(r) \/ Deletes(r) \/ Creates(r)
  BY <1>0, <1>a, <1>4 DEF Finds, Checks, Deletes, Creates, Jumps, Jumped, SameTask, Outside, ResumedReq
<1>7. CASE Fills(r)
  <2>1. F = {}
    BY <1>7, AloneWhole, EventsFew DEF F
  <2>2. y.pc = "fill" /\ SameTask(x, y) /\ x.out = y.out
    BY <1>7 DEF Fills, Jumps, Jumped
  <2>3. y.kind = "resume" /\ y.next = "idle" => Settled(ToSet(y.out), y.inv)
    BY <1>0, <2>2 DEF ResumedReq, Outside
  <2>4. ToSet(x.out) \cup F = ToSet(x.out)
    BY <2>1
  <2>. QED
    BY <2>2, <2>3, <2>4 DEF SameTask, ResumedReq
<1>8. CASE Allows(r) \/ Claims(r) \/ Executes(r)
  BY <1>8 DEF Allows, Claims, Executes, Jumps, Jumped, Outside, ResumedReq
<1>9. CASE Skips(r) \/ Writes(r)
  <2>1. IsAdvanced(x, y) /\ y.pc \in {"get", "put"}
    BY <1>9 DEF Skips, Writes
  <2>2. ToSet(y.out) = {Head(y.out)} \cup ToSet(Tail(y.out))
    BY <1>0, <1>a, <2>1, EventsHead
  <2>3. F = E \cup {Head(y.out)}
    BY <1>9, AloneWhole DEF E, F
  <2>4. ToSet(x.out) \cup F = ToSet(y.out) \cup E
    BY <2>1, <2>2, <2>3 DEF IsAdvanced
  <2>5. x.pc \in {"get", "run", y.next}
    BY <2>1 DEF IsAdvanced
  <2>. QED
    BY <1>0, <2>1, <2>4, <2>5 DEF IsAdvanced, SameTask, ResumedReq, Outside
<1>10. CASE Reads(r)
  <2>1. F = E /\ SameTask(x, y) /\ x.out = y.out /\ y.pc = "get" /\ x.pc = "put"
    BY <1>10 DEF Reads, Steady, E, F
  <2>. QED
    BY <1>0, <2>1 DEF SameTask, ResumedReq, Outside
<1>11. CASE Continues(r) \/ Calls(r)
  BY <1>11 DEF Continues, Calls, ResumedReq
<1>12. CASE Says(r) \/ Approves(r) \/ AsksFor(r) \/ Responds(r)
  <2>1. PICK es, p : Sent(x, y, es, p) /\ p # "idle"
    BY <1>12 DEF Says, Approves, AsksFor, Responds, Sends
  <2>. QED
    BY <2>1 DEF Sent, ResumedReq
<1>13. ASSUME NEW i \in Requests, Restores(r, i) PROVE ResumedReq(x, F)
  <2>1. Settled(ToSet(ckpt[i].events), i)
    BY <1>13 DEF Restores, SnapshotsSettled
  <2>. QED
    BY <1>13, <2>1 DEF Restores, ResumedReq
<1>14. ASSUME NEW i \in Requests, Repeats(r, i) \/ \E says \in {"yes", "no"} : Decides(r, i, says) PROVE ResumedReq(x, F)
  BY <1>14 DEF Repeats, Decides, ResumedReq
<1>. QED
  BY <1>1, <1>2, <1>3, <1>4, <1>7, <1>8, <1>9, <1>10, <1>11, <1>12, <1>13, <1>14 DEF Turns

\* The kinds of the events a request appends.
LEMMA EventKinds ==
    ASSUME NEW r, NEW i, NEW c
    PROVE  \A k : KindOf(<<k, r, i, c>>) = k /\ CallOf(<<k, r, i, c>>) = c
  BY DEF KindOf, CallOf

\* The call a request runs without a gate, by what it holds and how often its call ran.
OwnReq(x, n, r) ==
    /\ x.kind # "approve" /\ x.pc # "paused" /\ NoAsk(ToSet(x.yielded))
    /\ x.next # "idle" => NoAsk(ToSet(x.out))
    /\ n <= 1
    /\ x.pc = "idle" \/ (x.pc \notin Ended /\ ~x.called) => n = 0
    /\ x.pc \in {"tool", "claim", "exec"} \/ (x.pc \in {"get", "put"} /\ x.next = "tool")
         => x.call = r /\ n = 0 /\ x.called

\* Without a gate a request runs its own call, once.
LEMMA OwnKept ==
    ASSUME AdkTypes, ~setup.gated, NEW r \in Requests, Turns(r), Alone(r), Resumed(r), \A q \in Requests : Own(q)
    PROVE  \A q \in Requests : Own(q)'
<1>. DEFINE x == req'[r]
            y == req[r]
            n == ran[r]
            m == ran'[r]
<1>0. /\ y \in Invocation /\ y.next \in {"idle", "model", "tool", "finish"} /\ OwnReq(y, n, r)
      /\ y.out \in Seq(Event) /\ y.yielded \in Seq(Event) /\ y.inv \in Requests
      /\ ran \in [Requests -> Nat] /\ n \in Nat
  BY DEF AdkTypes, Invocation, Own, OwnReq, Active
<1>a. /\ y.pc \in Outside \cup {"run"} => y.next = "idle"
      /\ y.pc = "check" => y.kind = "approve"
      /\ y.pc = "run" => y.out = <<>>
      /\ y.pc \in {"get", "put"} => y.out # <<>>
  BY DEF Alone, AdkTypes, ReqSound
<1>b. NoAsk({}) /\ ToSet(<<>>) = {}
  BY EventsFew DEF NoAsk
<1>c. ran' = ran \/ Executes(r)
  BY TurnsKeep
<1>d. Executes(r) => y.call = r /\ y.pc = "exec"
  BY <1>0 DEF Executes, Jumps, OwnReq
<1>1. \A q \in Requests : q # r => ran'[q] = ran[q] /\ req'[q] = req[q]
  <2>1. \A q \in Requests : q # r => ran'[q] = ran[q]
    BY <1>0, <1>c, <1>d DEF Executes
  <2>. QED
    BY <2>1, TurnsKeep DEF Others
<1>2. ~Executes(r) => m = n
  BY <1>c
<1>. HIDE DEF n, m
<1>3. OwnReq(x, m, r)
  <2>1. CASE Dies(r) \/ Saves(r)
    <3>1. x = Dead(r) /\ m = n
      BY <1>2, <2>1 DEF Dies, Saves, Executes, Jumps, Active, Ended, Steady, n, m
    <3>2. x.pc = "failed" /\ x.kind = "fresh" /\ x.next = "idle" /\ x.yielded = <<>>
      BY <3>1, QuietIs DEF AtRest
    <3>3. NoAsk(ToSet(x.yielded)) /\ n <= 1
      BY <1>0, <1>b, <3>2 DEF OwnReq
    <3>. QED
      BY <3>1, <3>2, <3>3 DEF OwnReq, Ended
  <2>2. CASE Fails(r)
    <3>1. IsFailed(x, y) /\ y.pc \in InRunner /\ m = n
      BY <2>2 DEF Fails, Steady, n, m
    <3>. QED
      BY <1>0, <1>b, <3>1 DEF IsFailed, SameTask, InRunner, OwnReq, Ended
  <2>3. CASE Begins(r)
    <3>1. AtRest(x, r) /\ x.pc = "ensure" /\ y.pc = "idle" /\ m = n
      BY <2>3 DEF Begins, MayEnter, Steady, n, m
    <3>. QED
      BY <1>0, <1>b, <3>1 DEF AtRest, OwnReq, Ended
  <2>4. CASE Finds(r) \/ Checks(r) \/ Deletes(r) \/ Creates(r) \/ Fills(r)
    <3>1. /\ SameTask(x, y) /\ x.out = y.out /\ x.yielded = y.yielded /\ m = n
          /\ y.pc \in Outside /\ x.pc \in Outside \cup {"run", "get"}
      BY <2>4 DEF Finds, Checks, Deletes, Creates, Fills, Jumps, Jumped, Outside, Steady, stores, n, m
    <3>. QED
      BY <1>0, <1>a, <3>1 DEF SameTask, OwnReq, Outside, Ended
  <2>5. CASE Skips(r) \/ Writes(r)
    <3>1. IsAdvanced(x, y) /\ y.pc \in {"get", "put"} /\ m = n
      BY <2>5 DEF Skips, Writes, Steady, stores, n, m
    <3>2. ToSet(y.out) = {Head(y.out)} \cup ToSet(Tail(y.out)) /\ Head(y.out) \in Event
      BY <1>0, <1>a, <3>1, EventsHead
    <3>3. ToSet(Append(y.yielded, Head(y.out))) = ToSet(y.yielded) \cup {Head(y.out)}
      BY <1>0, <3>2, EventsOf
    <3>4. NoAsk(ToSet(x.yielded)) /\ (y.next # "idle" => NoAsk(ToSet(x.out)))
      BY <1>0, <3>1, <3>2, <3>3 DEF IsAdvanced, OwnReq, NoAsk
    <3>5. x.pc = "get" \/ (x.pc = "run" /\ y.next = "idle") \/ (x.pc = y.next /\ y.next # "idle")
      BY <3>1 DEF IsAdvanced
    <3>. QED
      BY <1>0, <3>1, <3>4, <3>5 DEF IsAdvanced, SameTask, OwnReq, Ended
  <2>6. CASE Reads(r) \/ Snaps(r)
    <3>1. /\ SameTask(x, y) /\ x.out = y.out /\ x.yielded = y.yielded /\ m = n
          /\ (y.pc = "get" /\ x.pc = "put") \/ (y.pc = "snap" /\ x.pc = "save")
      BY <2>6 DEF Reads, Snaps, Steady, n, m
    <3>. QED
      BY <1>0, <3>1 DEF SameTask, OwnReq, Ended
  <2>7. CASE Continues(r)
    <3>1. m = n /\ y.pc = "run"
      BY <2>7 DEF Continues, Steady, n, m
    <3>. QED
      BY <1>0, <1>a, <1>b, <2>7, <3>1 DEF Continues, OwnReq, Ended
  <2>8. CASE Says(r) \/ Approves(r) \/ AsksFor(r) \/ Responds(r)
    <3>1. /\ ~Approves(r) /\ ~AsksFor(r) /\ m = n
          /\ y.pc \in {"run", "model", "tool", "claim", "record"}
      BY <1>0, <2>8 DEF Says, Approves, AsksFor, Responds, OwnReq, Gate, Steady, n, m
    <3>2. PICK e, p : Sent(x, y, <<e>>, p) /\ p \in {"model", "finish"} /\ KindOf(e) # "ask"
      <4>1. \A k : KindOf(<<k, r, r, r>>) = k /\ KindOf(<<k, r, y.inv, r>>) = k /\ KindOf(Response(r)) = "resp"
        BY EventKinds DEF Response
      <4>2. CASE Says(r)
        BY <4>1, <4>2 DEF Says, Sends
      <4>3. CASE Responds(r)
        BY <4>1, <4>3 DEF Responds, Sends
      <4>. QED
        BY <2>8, <3>1, <4>2, <4>3
    <3>3. NoAsk(ToSet(x.out))
      BY <3>2, EventsFew DEF Sent, NoAsk
    <3>. QED
      BY <1>0, <3>1, <3>2, <3>3 DEF Sent, OwnReq, Ended
  <2>9. CASE Calls(r)
    <3>. DEFINE e == <<"call", r, y.inv, r>>
    <3>1. m = n /\ y.pc = "model" /\ ~y.called /\ x.out = <<e>>
      BY <2>9 DEF Calls, Steady, n, m
    <3>2. KindOf(e) = "call"
      BY EventKinds
    <3>. HIDE DEF e
    <3>3. NoAsk(ToSet(x.out))
      BY <3>1, <3>2, EventsFew DEF NoAsk
    <3>4. /\ x.pc = "get" /\ x.next = "tool" /\ x.call = r /\ x.kind = y.kind /\ x.called /\ x.yielded = y.yielded
      BY <2>9 DEF Calls
    <3>5. n = 0
      BY <1>0, <3>1 DEF OwnReq, Ended
    <3>. QED
      BY <1>0, <3>1, <3>3, <3>4, <3>5 DEF OwnReq, Ended
  <2>10. CASE Allows(r) \/ Claims(r)
    <3>1. /\ SameTask(x, y) /\ x.out = y.out /\ x.yielded = y.yielded /\ m = n
          /\ y.pc \in {"tool", "claim"} /\ x.pc \in {"claim", "exec"}
      BY <2>10 DEF Allows, Claims, Jumps, Jumped, Steady, n, m
    <3>. QED
      BY <1>0, <3>1 DEF SameTask, OwnReq, Ended
  <2>11. CASE Executes(r)
    <3>1. /\ SameTask(x, y) /\ x.out = y.out /\ x.yielded = y.yielded /\ y.pc = "exec" /\ x.pc = "record"
      BY <2>11 DEF Executes, Jumps, Jumped
    <3>2. m = n + 1
      BY <1>0, <1>d, <2>11 DEF Executes, n, m
    <3>3. n = 0 /\ x.called
      BY <1>0, <3>1 DEF OwnReq, SameTask
    <3>. QED
      BY <1>0, <3>1, <3>2, <3>3 DEF SameTask, OwnReq, Ended
  <2>12. CASE Finishes(r)
    <3>1. ~Asked(r)
      <4>1. Has({"ask"}, y.call, y.yielded) <=> Told({"ask"}, y.call, ToSet(y.yielded))
        BY <1>0, EventsOf
      <4>. QED
        BY <1>0, <4>1 DEF Asked, Told, OwnReq, NoAsk
    <3>2. /\ SameTask(x, y) /\ x.out = y.out /\ x.yielded = y.yielded /\ m = n /\ x.pc = "success"
      BY <2>12, <3>1 DEF Finishes, Jumps, Jumped, n, m
    <3>. QED
      BY <1>0, <3>2 DEF SameTask, OwnReq, Ended
  <2>13. ASSUME NEW i \in Requests, Restores(r, i) PROVE OwnReq(x, m, r)
    <3>1. m = n /\ y.pc = "idle"
      BY <2>13 DEF Restores, MayEnter, Steady, n, m
    <3>. QED
      BY <1>0, <1>b, <2>13, <3>1 DEF Restores, OwnReq, Ended
  <2>14. ASSUME NEW i \in Requests PROVE ~Repeats(r, i)
    <3>1. SUFFICES ASSUME Repeats(r, i) PROVE FALSE
      OBVIOUS
    <3>2. y.pc = "run" /\ y.kind = "resume" /\ i \in Pending(sess.events, y.inv)
      BY <3>1 DEF Repeats
    <3>3. Settled(ToSet(y.out) \cup ToSet(sess.events), y.inv)
      BY <1>a, <3>2 DEF Resumed
    <3>4. ToSet(y.out) \cup ToSet(sess.events) = ToSet(sess.events)
      BY <1>a, <1>b, <3>2
    <3>5. sess.events \in Seq(Event)
      BY DEF AdkTypes, RowSound, Session
    <3>6. Settled(ToSet(sess.events), y.inv)
      BY <3>3, <3>4
    <3>. QED
      BY <1>0, <3>2, <3>5, <3>6, PendingIs
  <2>15. ASSUME NEW i \in Requests, NEW says \in {"yes", "no"} PROVE ~Decides(r, i, says)
    BY DEF Decides, Own
  <2>. QED
    BY <2>1, <2>2, <2>3, <2>4, <2>5, <2>6, <2>7, <2>8, <2>9, <2>10, <2>11, <2>12, <2>13, <2>14, <2>15 DEF Turns
<1>. QED
  BY <1>1, <1>3 DEF OwnReq, Own, Active, m

\* An approval, by what its request holds, how often its call ran and the session's events.
ConfirmedReq(x, n, E, r) ==
    x.kind = "approve" =>
        /\ x.pc \in {"run", "get", "put", "tool", "claim", "exec"} /\ x.next \in {"idle", "tool"} => n = 0
        /\ x.pc \in {"get", "put"} /\ x.next = "tool" => x.out = <<<<x.says, r, r, x.call>>>>
        /\ x.pc \in {"tool", "claim", "exec"} => x.next = "tool" /\ Told({x.says}, x.call, E)

\* A call that has run has been confirmed, as long as nothing is restored.
LEMMA DecidedKept ==
    ASSUME AdkTypes, Gated, setup.gated, setup.tool = "unsafe", NEW r \in Requests, Turns(r), Alone(r),
           Decided, Confirmed(r), ~rolled'
    PROVE  Decided'
<1>. DEFINE y == req[r]
            E == ToSet(sess.events)
            F == ToSet(sess'.events)
<1>0. ran \in [Requests -> Nat] /\ y.call \in Requests
  BY DEF AdkTypes, Invocation
<1>1. CASE sess' = sess /\ ran' = ran
  BY <1>1 DEF Decided
<1>2. CASE Creates(r) \/ Fills(r)
  <2>1. E = {} /\ ran' = ran
    BY <1>2, AloneWhole, EventsFew DEF Creates, Fills, stores
  <2>2. \A c \in Requests : ran[c] = 0
    BY <1>0, <2>1 DEF Decided, Told
  <2>. QED
    BY <2>1, <2>2 DEF Decided
<1>3. CASE Writes(r)
  <2>1. E \subseteq F /\ ran' = ran
    BY <1>3, AloneWhole DEF Writes, stores
  <2>. QED
    BY <2>1 DEF Decided, Told
<1>4. CASE Executes(r)
  <2>1. y.pc = "exec" /\ y.says = "yes" /\ y.kind = "approve"
    BY <1>4 DEF Executes, Jumps, Gated
  <2>2. ran[y.call] = 0 /\ Told({"yes"}, y.call, E)
    BY <2>1 DEF Confirmed
  <2>3. ran' = [ran EXCEPT ![y.call] = @ + 1] /\ sess' = sess
    BY <1>4 DEF Executes
  <2>. HIDE DEF E, F, y
  <2>4. F = E
    BY <2>3 DEF E, F
  <2>5. \A c \in Requests : ran'[c] = IF c = y.call THEN 1 ELSE ran[c]
    BY <1>0, <2>2, <2>3
  <2>6. \A c \in Requests : ran[c] <= 1 /\ (ran[c] > 0 => Told({"yes"}, c, E))
    BY DEF Decided, E
  <2>7. \A c \in Requests : ran'[c] <= 1 /\ (ran'[c] > 0 => Told({"yes"}, c, F))
    BY <2>2, <2>4, <2>5, <2>6
  <2>. QED
    BY <2>7 DEF Decided, F
<1>5. ~Deletes(r)
  BY DEF Deletes
<1>6. Executes(r) => sess' = sess
  BY DEF Executes
<1>7. Creates(r) \/ Fills(r) \/ Writes(r) \/ Executes(r) \/ (sess' = sess /\ ran' = ran)
  BY <1>5, <1>6, TurnsKeep
<1>. QED
  BY <1>1, <1>2, <1>3, <1>4, <1>7

\* An approval runs a call that has not run.
LEMMA ConfirmedKept ==
    ASSUME AdkTypes, setup.gated, setup.tool = "unsafe", NEW r \in Requests, Turns(r), Alone(r),
           Decided, Confirmed(r), ~rolled'
    PROVE  Confirmed(r)'
<1>. DEFINE x == req'[r]
            y == req[r]
            E == ToSet(sess.events)
            F == ToSet(sess'.events)
            n == ran[y.call]
            m == ran'[x.call]
<1>0. /\ y \in Invocation /\ y.next \in {"idle", "model", "tool", "finish"} /\ ConfirmedReq(y, n, E, r)
      /\ y.out \in Seq(Event) /\ y.call \in Requests /\ ran \in [Requests -> Nat]
  BY DEF AdkTypes, Invocation, Confirmed, ConfirmedReq
<1>a. /\ y.pc \in Outside \cup {"run"} => y.next = "idle"
      /\ y.pc = "ensure" => y.kind = "fresh"
      /\ y.pc \in {"get", "put"} => y.out # <<>>
  BY DEF Alone, AdkTypes, ReqSound
<1>b. /\ E \subseteq F \/ Creates(r) \/ Fills(r)
      /\ x.call = y.call /\ ~Executes(r) => m = n
  BY AloneWhole, TurnsKeep DEF Deletes
<1>. SUFFICES ConfirmedReq(x, m, F, r)
  BY DEF Confirmed, ConfirmedReq
<1>. HIDE DEF E, F, n, m
<1>1. CASE Dies(r) \/ Saves(r)
  BY <1>1, QuietIs DEF Dies, Saves, AtRest, ConfirmedReq
<1>2. CASE Fails(r) \/ Finishes(r) \/ Snaps(r) \/ Executes(r) \/ Deletes(r) \/ Creates(r)
  BY <1>2 DEF Fails, IsFailed, Finishes, Executes, Deletes, Creates, Jumps, Jumped, Snaps, ConfirmedReq
<1>3. CASE Begins(r)
  BY <1>3 DEF Begins, AtRest, ConfirmedReq
<1>4. CASE Finds(r)
  BY <1>a, <1>4 DEF Finds, Jumps, Jumped, SameTask, ConfirmedReq
<1>5. CASE Checks(r)
  <2>1. x.pc = "run" /\ x.call = y.call /\ x.next = y.next /\ y.pc = "check" /\ HasPendingConfirmation(y.call)
    BY <1>5 DEF Checks, Jumps, Jumped, SameTask
  <2>2. ~Told({"yes", "no"}, y.call, E) /\ sess.events \in Seq(Event)
    BY <2>1, EventsOf DEF HasPendingConfirmation, AdkTypes, RowSound, Session, E
  <2>3. ~Told({"yes"}, y.call, E)
    BY <2>2 DEF Told
  <2>4. n = 0
    BY <1>0, <2>3 DEF Decided, E, n
  <2>5. m = n
    BY <1>5, <2>1 DEF Checks, n, m
  <2>. QED
    BY <1>a, <2>1, <2>4, <2>5 DEF ConfirmedReq, Outside
<1>7. CASE Fills(r)
  <2>1. E = {} /\ ran' = ran
    BY <1>7, AloneWhole, EventsFew DEF Fills, stores, E
  <2>2. \A c \in Requests : ran[c] = 0
    BY <1>0, <2>1 DEF Decided, Told, E
  <2>3. y.pc = "fill" /\ SameTask(x, y) /\ x.pc \in {"run", "get"}
    BY <1>7 DEF Fills, Jumps, Jumped
  <2>4. m = 0
    BY <1>0, <2>1, <2>2, <2>3 DEF SameTask, m
  <2>. QED
    BY <1>a, <2>3, <2>4 DEF SameTask, ConfirmedReq, Outside
<1>8. CASE Allows(r) \/ Claims(r)
  <2>1. /\ SameTask(x, y) /\ y.pc \in {"tool", "claim"} /\ x.pc \in {"claim", "exec"} /\ m = n /\ F = E
    BY <1>8 DEF Allows, Claims, Jumps, Jumped, Steady, n, m, E, F, SameTask
  <2>. QED
    BY <1>0, <2>1 DEF SameTask, ConfirmedReq
<1>9. CASE Skips(r) \/ Writes(r)
  <2>1. IsAdvanced(x, y) /\ y.pc \in {"get", "put"}
    BY <1>9 DEF Skips, Writes
  <2>2. m = n /\ Head(y.out) \in F /\ E \subseteq F
    BY <1>9, <2>1, AloneWhole DEF IsAdvanced, SameTask, Skips, Writes, Steady, stores, n, m, E, F
  <2>3. ASSUME y.kind = "approve", y.next = "tool"
        PROVE  n = 0 /\ x.pc = "tool" /\ Told({y.says}, y.call, F)
    <3>. DEFINE e == <<y.says, r, r, y.call>>
    <3>1. y.out = <<e>> /\ n = 0
      BY <1>0, <2>1, <2>3 DEF ConfirmedReq
    <3>2. KindOf(e) = y.says /\ CallOf(e) = y.call
      BY EventKinds
    <3>. HIDE DEF e
    <3>3. Head(y.out) = e /\ Tail(y.out) = <<>>
      BY <3>1, EventsFew
    <3>. QED
      BY <2>1, <2>2, <2>3, <3>1, <3>2, <3>3 DEF IsAdvanced, Told
  <2>4. x.pc = "get" \/ (x.pc = "run" /\ y.next = "idle") \/ (x.pc = y.next /\ y.next # "idle")
    BY <2>1 DEF IsAdvanced
  <2>. QED
    BY <1>0, <2>1, <2>2, <2>3, <2>4 DEF IsAdvanced, SameTask, ConfirmedReq
<1>10. CASE Reads(r)
  <2>1. SameTask(x, y) /\ x.out = y.out /\ y.pc = "get" /\ x.pc = "put" /\ m = n
    BY <1>10 DEF Reads, Steady, SameTask, n, m
  <2>. QED
    BY <1>0, <2>1 DEF SameTask, ConfirmedReq
<1>11. CASE Continues(r) \/ Calls(r)
  BY <1>11 DEF Continues, Calls, ConfirmedReq
<1>12. CASE Says(r) \/ AsksFor(r) \/ Responds(r)
  <2>1. PICK es, p : Sent(x, y, es, p) /\ p \in {"model", "finish"}
    BY <1>12 DEF Says, AsksFor, Responds, Sends
  <2>. QED
    BY <2>1 DEF Sent, ConfirmedReq
<1>13. CASE Approves(r)
  <2>. DEFINE es == <<<<y.says, r, r, y.call>>>>
  <2>1. y.pc = "run" /\ y.kind = "approve" /\ Sent(x, y, es, "tool")
    BY <1>13 DEF Approves, Sends
  <2>2. n = 0
    BY <1>0, <1>a, <2>1 DEF ConfirmedReq
  <2>3. m = n
    BY <1>13, <2>1 DEF Approves, Steady, Sent, n, m
  <2>4. x.says = y.says /\ x.call = y.call /\ x.out = es /\ x.pc = "get" /\ x.next = "tool"
    BY <2>1 DEF Sent
  <2>. QED
    BY <2>2, <2>3, <2>4 DEF ConfirmedReq
<1>14. ASSUME NEW i \in Requests, Restores(r, i) \/ Repeats(r, i) \/ \E says \in {"yes", "no"} : Decides(r, i, says)
       PROVE  ConfirmedReq(x, m, F, r)
  BY <1>14 DEF Restores, Repeats, Decides, ConfirmedReq
<1>. QED
  BY <1>1, <1>2, <1>3, <1>4, <1>5, <1>7, <1>8, <1>9, <1>10, <1>11, <1>12, <1>13, <1>14 DEF Turns

\* Side effects happen once.
LEMMA RunsOnceKept ==
    ASSUME AdkTypes, Gated, Sequential, RunsOnce, NEW r \in Requests, Turns(r)
    PROVE  RunsOnce'
<1>0. setup' = setup /\ \A q \in Requests : q # r => req'[q] = req[q]
  BY TurnsKeep DEF Others
<1>. SUFFICES ASSUME ~setup.overlap PROVE RunsOnce'
  BY <1>0 DEF RunsOnce
<1>1. \A q \in Requests : q # r => req'[q].pc \in Ended \cup {"idle"}
  <2>1. \A q \in Requests : q # r => ~Active(q)
    BY TurnsGo DEF Sequential, OneAtATime, MayEnter
  <2>. QED
    BY <1>0, <2>1 DEF Active
<1>2. \A q \in Requests : q # r => Alone(q)' /\ Resumed(q)' /\ Confirmed(q)'
  BY <1>1 DEF Alone, Resumed, Confirmed, Ended, Outside, InRunner
<1>3. \A q \in Requests : Alone(q)'
  <2>1. Alone(r)
    BY DEF RunsOnce
  <2>2. Alone(r)'
    BY <2>1, AloneKept
  <2>. QED
    BY <1>2, <2>2
<1>4. ASSUME setup.tool = "unsafe"
      PROVE  /\ SnapshotsSettled' /\ \A q \in Requests : Resumed(q)'
             /\ ~setup.gated => \A q \in Requests : Own(q)'
             /\ setup.gated /\ ~rolled' => Decided' /\ \A q \in Requests : Confirmed(q)'
  <2>1. SnapshotsSettled /\ Resumed(r) /\ Alone(r)
    BY <1>4 DEF RunsOnce
  <2>2. SnapshotsSettled'
    BY <1>4, <2>1, SnapshotsKept
  <2>3. Resumed(r)'
    BY <2>1, ResumedKept
  <2>4. ~setup.gated => \A q \in Requests : Own(q)'
    <3>1. ~setup.gated => \A q \in Requests : Own(q)
      BY <1>4 DEF RunsOnce
    <3>. QED
      BY <2>1, <3>1, OwnKept
  <2>5. ASSUME setup.gated, ~rolled' PROVE Decided' /\ Confirmed(r)'
    <3>1. ~rolled
      BY <2>5, TurnsKeep DEF Deletes
    <3>2. Decided /\ Confirmed(r)
      BY <1>4, <2>5, <3>1 DEF RunsOnce
    <3>. QED
      BY <1>4, <2>1, <2>5, <3>2, DecidedKept, ConfirmedKept
  <2>. QED
    BY <1>2, <2>2, <2>3, <2>4, <2>5
<1>. QED
  BY <1>0, <1>3, <1>4 DEF RunsOnce

\* The end of the process runs nothing.
LEMMA RunsOnceDies ==
    ASSUME AdkTypes, RunsOnce, Dying
    PROVE  RunsOnce'
<1>0. Steady /\ \A q \in Requests : req'[q] = req[q] \/ req'[q] = Dead(q)
  BY DyingIs
<1>1. \A q \in Requests : req'[q].pc \in Ended \cup {"idle"}
  <2>1. \A q \in Requests : (req'[q] = req[q] /\ ~Active(q)) \/ req'[q].pc = "failed"
    BY DyingIs, QuietIs
  <2>. QED
    BY <2>1 DEF Active, Ended
<1>2. \A q \in Requests : Alone(q)' /\ Resumed(q)' /\ Confirmed(q)'
  BY <1>1 DEF Alone, Resumed, Confirmed, Ended, Outside, InRunner
<1>3. ASSUME NEW q \in Requests, Own(q) PROVE Own(q)'
  <2>1. CASE req'[q] = req[q]
    BY <1>0, <1>3, <2>1 DEF Own, Active, Steady
  <2>2. CASE req'[q] = Dead(q)
    <3>1. LET x == req'[q] IN x.pc = "failed" /\ x.kind = "fresh" /\ x.next = "idle" /\ x.yielded = <<>>
      BY <2>2, QuietIs DEF AtRest
    <3>2. NoAsk(ToSet(req'[q].yielded)) /\ ran' = ran
      BY <1>0, <3>1, EventsFew DEF NoAsk, Steady
    <3>. QED
      BY <1>3, <3>1, <3>2 DEF Own, Active, Ended
  <2>. QED
    BY <1>0, <2>1, <2>2
<1>4. (SnapshotsSettled => SnapshotsSettled') /\ (Decided => Decided')
  BY <1>0 DEF Steady, SnapshotsSettled, Decided
<1>. QED
  BY <1>0, <1>2, <1>3, <1>4 DEF RunsOnce, Steady

-----------------------------------------------------------------------------
\* What a request keeps in a session that was there, by what it holds and the session.
Answerable(E, F) == \A e \in E : Answering(e) => Told({"call"}, CallOf(e), F)
KeptReq(x, s, r) ==
    /\ x.pc \notin {"exists", "create", "fill"} /\ (x.pc \in {"get", "put"} => x.next # "idle")
    /\ x.pc = "ensure" => x.kind = "fresh"
    /\ x.pc = "put" => x.ver <= s.ver /\ (x.ver = s.ver => x.seen = s.events)
    /\ ToSet(x.yielded) \subseteq ToSet(s.events)
    /\ x.pc \in {"get", "put"} => Answerable(ToSet(x.out), ToSet(s.events))
    /\ x.pc \in {"tool", "claim", "exec", "record"} => Told({"call"}, x.call, ToSet(s.events))
    /\ x.kind = "approve" /\ (x.pc = "run" \/ (x.pc \in {"get", "put"} /\ x.next = "tool")) => Told({"call"}, x.call, ToSet(s.events))
    /\ x.kind # "approve" /\ x.pc \in {"get", "put"} /\ x.next = "tool" => x.out = <<<<"call", r, x.inv, r>>>> /\ x.call = r

\* The two forms of it.
LEMMA KeptIs ==
    ASSUME sess.events \in Seq(Event), NEW r
    PROVE  Kept(r) <=> KeptReq(req[r], sess, r)
<1>1. \A c : Made(c) <=> Told({"call"}, c, ToSet(sess.events))
  BY EventsOf DEF Made
<1>. QED
  BY <1>1 DEF Kept, KeptReq, Answerable

\* The same in the next state.
LEMMA KeptIsNext ==
    ASSUME sess'.events \in Seq(Event), NEW r
    PROVE  Kept(r)' <=> KeptReq(req'[r], sess', r)
<1>1. \A c : Made(c)' <=> Told({"call"}, c, ToSet(sess'.events))
  BY EventsOf DEF Made
<1>. QED
  BY <1>1 DEF Kept, KeptReq, Answerable

\* The calls and their answers in order.
InOrder(s) ==
    \A i \in DOMAIN s : Answering(s[i]) => \E j \in 1..i : KindOf(s[j]) = "call" /\ CallOf(s[j]) = CallOf(s[i])

\* An answer that is appended comes after its call.
LEMMA InOrderAppend ==
    ASSUME NEW s \in Seq(Event), NEW e \in Event, InOrder(s), Answering(e) => Told({"call"}, CallOf(e), ToSet(s))
    PROVE  InOrder(Append(s, e))
<1>0. Len(s) \in Nat /\ DOMAIN s = 1..Len(s)
  OBVIOUS
<1>1. /\ DOMAIN Append(s, e) = 1..Len(s) + 1
      /\ Append(s, e)[Len(s) + 1] = e /\ \A i \in 1..Len(s) : Append(s, e)[i] = s[i]
  OBVIOUS
<1>2. Answering(e) => \E j \in 1..Len(s) : KindOf(s[j]) = "call" /\ CallOf(s[j]) = CallOf(e)
  BY <1>0 DEF Told, ToSet
<1>. DEFINE a == Append(s, e)
<1>. HIDE DEF a
<1>3. a[Len(s) + 1] = e /\ (\A k \in 1..Len(s) : a[k] = s[k]) /\ DOMAIN a = 1..Len(s) + 1
  BY <1>1 DEF a
<1>4. ASSUME NEW i \in 1..Len(s) + 1, Answering(a[i])
      PROVE  \E j \in 1..i : KindOf(a[j]) = "call" /\ CallOf(a[j]) = CallOf(a[i])
  <2>1. CASE i \in 1..Len(s)
    <3>1. PICK j \in 1..i : KindOf(s[j]) = "call" /\ CallOf(s[j]) = CallOf(s[i])
      BY <1>0, <1>3, <1>4, <2>1 DEF InOrder
    <3>2. j \in 1..Len(s)
      BY <1>0, <2>1
    <3>. QED
      BY <1>3, <2>1, <3>1, <3>2
  <2>2. CASE i = Len(s) + 1
    <3>1. PICK j \in 1..Len(s) : KindOf(s[j]) = "call" /\ CallOf(s[j]) = CallOf(e)
      BY <1>2, <1>3, <1>4, <2>2
    <3>2. j \in 1..i
      BY <1>0, <2>2
    <3>. QED
      BY <1>3, <2>2, <3>1, <3>2
  <2>. QED
    BY <1>0, <2>1, <2>2
<1>. QED
  BY <1>3, <1>4 DEF InOrder, a

\* What is in the session stays there.
LEMMA KeptOthers ==
    ASSUME NEW x, NEW s, NEW t, NEW r, KeptReq(x, s, r), ToSet(s.events) \subseteq ToSet(t.events),
           x.ver \in Nat, s.ver \in Nat, t = s \/ t.ver = s.ver + 1
    PROVE  KeptReq(x, t, r)
<1>. DEFINE E == ToSet(s.events)
            F == ToSet(t.events)
<1>1. \A c : Told({"call"}, c, E) => Told({"call"}, c, F)
  BY DEF Told
<1>2. Answerable(ToSet(x.out), E) => Answerable(ToSet(x.out), F)
  BY <1>1 DEF Answerable
<1>3. ToSet(x.yielded) \subseteq E => ToSet(x.yielded) \subseteq F
  OBVIOUS
<1>. HIDE DEF E, F
<1>4. x.pc = "put" => x.ver <= t.ver /\ (x.ver = t.ver => x.seen = t.events)
  BY DEF KeptReq
<1>. QED
  BY <1>1, <1>2, <1>3, <1>4 DEF KeptReq, E, F

\* A request's own step in a session that was there and is not restored.
LEMMA KeptKept ==
    ASSUME AdkTypes, sess.whole, InOrder(sess.events), NEW r \in Requests, Turns(r), KeptReq(req[r], sess, r), ~rolled'
    PROVE  KeptReq(req'[r], sess', r)
<1>. DEFINE x == req'[r]
            y == req[r]
            E == ToSet(sess.events)
            F == ToSet(sess'.events)
<1>0. /\ y \in Invocation /\ y.next \in {"idle", "model", "tool", "finish"} /\ y.ver \in Nat /\ y.inv \in Requests
      /\ y.out \in Seq(Event) /\ y.yielded \in Seq(Event) /\ (y.pc \in {"get", "put"} => y.out # <<>>)
      /\ (y.kind = "approve" => y.says # "none") /\ y.says \in {"none", "yes", "no"} /\ y.call \in Requests
  BY DEF AdkTypes, Invocation, ReqSound
<1>s. sess.events \in Seq(Event) /\ sess.ver \in Nat /\ sess.ver # 0
  BY DEF AdkTypes, RowSound, Session, NoSession
<1>k. /\ y.pc \notin {"exists", "create", "fill"} /\ (y.pc \in {"get", "put"} => y.next # "idle")
      /\ y.pc = "ensure" => y.kind = "fresh"
      /\ y.pc = "put" => y.ver <= sess.ver /\ (y.ver = sess.ver => y.seen = sess.events)
      /\ ToSet(y.yielded) \subseteq E
      /\ y.pc \in {"get", "put"} => Answerable(ToSet(y.out), E)
      /\ y.pc \in {"tool", "claim", "exec", "record"} => Told({"call"}, y.call, E)
      /\ y.kind = "approve" /\ (y.pc = "run" \/ (y.pc \in {"get", "put"} /\ y.next = "tool")) => Told({"call"}, y.call, E)
      /\ y.kind # "approve" /\ y.pc \in {"get", "put"} /\ y.next = "tool" => y.out = <<<<"call", r, y.inv, r>>>> /\ y.call = r
  BY DEF KeptReq
<1>b. ~Deletes(r) /\ ~Creates(r) /\ ~Fills(r)
  BY <1>k DEF Deletes, Creates, Fills, Jumps
<1>c. sess' = sess \/ Writes(r)
  BY <1>b, TurnsKeep
<1>e. ToSet(<<>>) \subseteq F
  BY EventsFew
<1>f. ~Writes(r) => F = E
  BY <1>c
<1>. HIDE DEF E, F
<1>1. CASE Dies(r) \/ Saves(r)
  <2>1. x.pc = "failed" /\ x.yielded = <<>>
    BY <1>1, QuietIs DEF Dies, Saves, AtRest
  <2>. QED
    BY <1>e, <2>1 DEF KeptReq, F
<1>2. CASE Fails(r) \/ Finishes(r) \/ Snaps(r) \/ Executes(r) \/ Allows(r) \/ Claims(r)
  <2>1. /\ x.yielded = y.yielded /\ F = E
        /\ \/ x.pc \in {"snap", "save", "success", "paused"}
           \/ y.pc \in {"tool", "claim", "exec"} /\ x.pc \in {"claim", "exec", "record"} /\ x.call = y.call
    BY <1>2 DEF Fails, IsFailed, Finishes, Executes, Allows, Claims, Jumps, Jumped, Snaps, SameTask, Steady, E, F
  <2>. QED
    BY <1>k, <2>1 DEF KeptReq, F
<1>3. CASE Begins(r)
  <2>1. x.pc = "ensure" /\ x.yielded = <<>> /\ x.kind = "fresh"
    BY <1>3 DEF Begins, AtRest
  <2>. QED
    BY <1>e, <2>1 DEF KeptReq, F
<1>4. CASE Finds(r)
  <2>1. /\ x.yielded = y.yielded /\ F = E /\ x.kind = y.kind
        /\ x.pc = "delete" \/ (x.pc = "run" /\ y.pc = "ensure")
    BY <1>s, <1>k, <1>4 DEF Finds, Jumps, Jumped, SameTask, Steady, E, F
  <2>. QED
    BY <1>k, <2>1 DEF KeptReq, F
<1>5. CASE Checks(r)
  <2>1. x.yielded = y.yielded /\ F = E /\ x.pc = "run" /\ x.call = y.call /\ Has({"ask"}, y.call, sess.events)
    BY <1>5 DEF Checks, Jumps, Jumped, SameTask, HasPendingConfirmation, E, F
  <2>2. Told({"call"}, y.call, E)
    <3>1. PICK i \in DOMAIN sess.events : KindOf(sess.events[i]) = "ask" /\ CallOf(sess.events[i]) = y.call
      BY <2>1 DEF Has
    <3>2. PICK j \in 1..i : KindOf(sess.events[j]) = "call" /\ CallOf(sess.events[j]) = y.call
      BY <3>1 DEF InOrder, Answering
    <3>3. j \in DOMAIN sess.events
      BY <1>s
    <3>. QED
      BY <3>2, <3>3 DEF Told, ToSet, E
  <2>. QED
    BY <1>k, <2>1, <2>2 DEF KeptReq, F
<1>9. CASE Skips(r) \/ Writes(r)
  <2>1. IsAdvanced(x, y) /\ y.pc \in {"get", "put"}
    BY <1>9 DEF Skips, Writes
  <2>2. ToSet(y.out) = {Head(y.out)} \cup ToSet(Tail(y.out)) /\ Head(y.out) \in Event
    BY <1>0, <2>1, EventsHead
  <2>3. E \subseteq F /\ Head(y.out) \in F
    <3>1. CASE Writes(r)
      <4>1. y.seen = sess.events
        BY <1>k, <3>1 DEF Writes
      <4>. QED
        BY <3>1, <4>1, WritesAre DEF E, F
    <3>2. CASE Skips(r)
      <4>1. Contains(sess.events, Head(y.out)) /\ F = E
        BY <1>s, <3>2 DEF Skips, Steady, E, F
      <4>. QED
        BY <1>s, <2>2, <4>1, EventsOf DEF E
    <3>. QED
      BY <1>9, <3>1, <3>2
  <2>4. ToSet(x.yielded) \subseteq F
    <3>1. x.yielded = Append(y.yielded, Head(y.out))
      BY <1>k, <2>1 DEF IsAdvanced
    <3>2. ToSet(Append(y.yielded, Head(y.out))) = ToSet(y.yielded) \cup {Head(y.out)}
      BY <1>0, <2>2, EventsOf
    <3>. QED
      BY <1>k, <2>3, <3>1, <3>2
  <2>5. \A c : Told({"call"}, c, E) => Told({"call"}, c, F)
    BY <2>3 DEF Told
  <2>6. Answerable(ToSet(x.out), F)
    <3>1. Answerable(ToSet(y.out), E) /\ x.out = Tail(y.out)
      BY <1>k, <2>1 DEF IsAdvanced
    <3>2. ToSet(x.out) \subseteq ToSet(y.out)
      BY <2>2, <3>1
    <3>. QED
      BY <2>5, <3>1, <3>2 DEF Answerable
  <2>7. ASSUME y.kind # "approve", y.next = "tool" PROVE x.pc = "tool" /\ Told({"call"}, y.call, F)
    <3>. DEFINE e == <<"call", r, y.inv, r>>
    <3>1. y.out = <<e>> /\ y.call = r
      BY <1>k, <2>1, <2>7
    <3>2. KindOf(e) = "call" /\ CallOf(e) = r
      BY EventKinds
    <3>. HIDE DEF e
    <3>3. Head(y.out) = e /\ Tail(y.out) = <<>>
      BY <3>1, EventsFew
    <3>. QED
      BY <2>1, <2>3, <2>7, <3>1, <3>2, <3>3 DEF IsAdvanced, Told
  <2>8. x.pc = "get" \/ (x.pc = y.next /\ y.next # "idle")
    BY <1>k, <2>1 DEF IsAdvanced
  <2>9. SameTask(x, y) /\ y.next # "idle"
    BY <1>k, <2>1 DEF IsAdvanced
  <2>10. x.pc \in {"get", "model", "finish"} \/ (x.pc = "tool" /\ y.next = "tool")
    BY <1>0, <2>8
  <2>. QED
    BY <1>k, <2>1, <2>4, <2>5, <2>6, <2>7, <2>9, <2>10 DEF SameTask, KeptReq, F
<1>10. CASE Reads(r)
  <2>1. /\ SameTask(x, y) /\ x.out = y.out /\ y.pc = "get" /\ x.pc = "put" /\ x.yielded = y.yielded
        /\ x.ver = sess.ver /\ x.seen = sess.events /\ sess' = sess /\ F = E
    BY <1>10 DEF Reads, Steady, E, F
  <2>2. x.ver <= sess'.ver /\ x.seen = sess'.events
    BY <1>s, <2>1
  <2>. QED
    BY <1>k, <2>1, <2>2 DEF SameTask, KeptReq, F
<1>11. CASE Continues(r)
  <2>1. x.pc = "model" /\ x.yielded = y.yielded /\ F = E
    BY <1>11 DEF Continues, Steady, E, F
  <2>. QED
    BY <1>k, <2>1 DEF KeptReq, F
<1>12. CASE Calls(r)
  <2>. DEFINE e == <<"call", r, y.inv, r>>
  <2>1. /\ x.pc = "get" /\ x.next = "tool" /\ x.call = r /\ x.kind = y.kind /\ x.inv = y.inv /\ x.out = <<e>>
        /\ x.yielded = y.yielded /\ y.kind # "approve" /\ F = E
    BY <1>12 DEF Calls, Steady, E, F
  <2>2. ~Answering(e)
    BY EventKinds DEF Answering
  <2>3. x.out = <<<<"call", r, x.inv, r>>>>
    BY <2>1
  <2>. HIDE DEF e
  <2>4. Answerable(ToSet(x.out), F)
    BY <2>1, <2>2, EventsFew DEF Answerable
  <2>. QED
    BY <1>k, <2>1, <2>3, <2>4 DEF KeptReq, F
<1>13. CASE Says(r)
  <2>0. F = E
    BY <1>13 DEF Says, Steady, E, F
  <2>1. PICK e, p : Sent(x, y, <<e>>, p) /\ p \in {"model", "finish"} /\ ~Answering(e)
    <3>1. \A k : KindOf(<<k, r, r, r>>) = k /\ KindOf(<<k, r, y.inv, r>>) = k
      BY EventKinds
    <3>. QED
      BY <1>13, <3>1 DEF Says, Sends, Answering
  <2>2. Answerable(ToSet(x.out), F)
    BY <2>1, EventsFew DEF Answerable, Sent
  <2>. QED
    BY <1>k, <2>0, <2>1, <2>2 DEF KeptReq, Sent, F
<1>14. CASE Approves(r)
  <2>. DEFINE e == <<y.says, r, r, y.call>>
  <2>1. y.pc = "run" /\ y.kind = "approve" /\ Sent(x, y, <<e>>, "tool") /\ F = E
    BY <1>14 DEF Approves, Sends, Steady, E, F
  <2>2. ~Answering(e)
    BY <1>0, <2>1, EventKinds DEF Answering
  <2>. HIDE DEF e
  <2>3. Answerable(ToSet(x.out), F)
    BY <2>1, <2>2, EventsFew DEF Answerable, Sent
  <2>. QED
    BY <1>k, <2>1, <2>3 DEF KeptReq, Sent, F
<1>15. CASE AsksFor(r) \/ Responds(r)
  <2>. DEFINE e == <<"ask", r, y.inv, y.call>>
              d == Response(r)
  <2>0. F = E /\ Told({"call"}, y.call, E)
    BY <1>k, <1>15 DEF AsksFor, Responds, Steady, E, F
  <2>1. CallOf(e) = y.call /\ CallOf(d) = y.call
    BY EventKinds DEF Response
  <2>2. (Sent(x, y, <<e, d>>, "finish") \/ Sent(x, y, <<d>>, "model"))
    BY <1>15 DEF AsksFor, Responds, Sends
  <2>. HIDE DEF e, d
  <2>3. ToSet(x.out) \subseteq {e, d}
    <3>1. x.out = <<e, d>> \/ x.out = <<d>>
      BY <2>2 DEF Sent
    <3>2. ToSet(<<e, d>>) = {e, d} /\ ToSet(<<d>>) = {d}
      BY EventsFew
    <3>. QED
      BY <3>1, <3>2
  <2>4. Answerable(ToSet(x.out), F)
    BY <2>0, <2>1, <2>3 DEF Answerable
  <2>. QED
    BY <1>k, <2>0, <2>2, <2>4 DEF KeptReq, Sent, F
<1>16. ASSUME NEW i \in Requests, Restores(r, i) \/ \E says \in {"yes", "no"} : Decides(r, i, says) PROVE KeptReq(x, sess', r)
  <2>1. x.pc \in {"restore", "check"} /\ x.yielded = <<>>
    BY <1>16 DEF Restores, Decides
  <2>. QED
    BY <1>e, <2>1 DEF KeptReq, F
<1>17. ASSUME NEW c \in Requests, Repeats(r, c) PROVE KeptReq(x, sess', r)
  <2>1. x.pc = "tool" /\ x.call = c /\ x.yielded = y.yielded /\ F = E /\ c \in Pending(sess.events, y.inv)
    BY <1>17 DEF Repeats, Steady, E, F
  <2>2. Told({"call"}, c, E)
    <3>. DEFINE e == <<"call", c, y.inv, c>>
    <3>1. e \in Event /\ Contains(sess.events, e)
      BY <1>0, <2>1 DEF Pending, Event, Kinds
    <3>2. KindOf(e) = "call" /\ CallOf(e) = c
      BY EventKinds
    <3>. HIDE DEF e
    <3>. QED
      BY <1>s, <3>1, <3>2, EventsOf DEF Told, E
  <2>. QED
    BY <1>k, <2>1, <2>2 DEF KeptReq, F
<1>. QED
  BY <1>b, <1>1, <1>2, <1>3, <1>4, <1>5, <1>9, <1>10, <1>11, <1>12, <1>13, <1>14, <1>15, <1>16, <1>17 DEF Turns

\* The session that was there keeps its events in order.
LEMMA OrderedKept ==
    ASSUME AdkTypes, Ordered, NEW r \in Requests, Turns(r), AdkTypes'
    PROVE  Ordered'
<1>0. setup' = setup /\ \A q \in Requests : q # r => req'[q] = req[q]
  BY TurnsKeep DEF Others
<1>. SUFFICES ASSUME setup.begun, ~rolled' PROVE Ordered'
  BY <1>0 DEF Ordered
<1>1. ~rolled /\ sess.whole /\ InOrder(sess.events) /\ \A q \in Requests : Kept(q)
  <2>1. ~rolled
    BY TurnsKeep DEF Deletes
  <2>. QED
    BY <2>1 DEF Ordered, InOrder
<1>2. /\ sess.events \in Seq(Event) /\ sess'.events \in Seq(Event) /\ sess.ver \in Nat
      /\ \A q \in Requests : req[q].ver \in Nat
  BY DEF AdkTypes, RowSound, Session, Invocation
<1>3. \A q \in Requests : KeptReq(req[q], sess, q)
  BY <1>1, <1>2, KeptIs
<1>4. KeptReq(req'[r], sess', r)
  BY <1>1, <1>3, KeptKept
<1>5. sess' = sess \/ Writes(r)
  <2>1. req[r].pc \notin {"create", "fill"}
    BY <1>3 DEF KeptReq
  <2>. QED
    BY <2>1, TurnsKeep DEF Deletes, Creates, Fills, Jumps
<1>6. ASSUME Writes(r)
      PROVE  /\ sess'.ver = sess.ver + 1 /\ sess'.whole /\ ToSet(sess.events) \subseteq ToSet(sess'.events)
             /\ InOrder(sess'.events)
  <2>1. req[r].pc = "put" /\ req[r].ver = sess.ver
    BY <1>6 DEF Writes
  <2>2. req[r].seen = sess.events /\ Answerable(ToSet(req[r].out), ToSet(sess.events))
    BY <1>3, <2>1 DEF KeptReq
  <2>3. /\ sess'.ver = sess.ver + 1 /\ sess'.whole /\ ToSet(sess.events) \subseteq ToSet(sess'.events)
        /\ sess'.events = Append(sess.events, Head(req[r].out)) /\ Head(req[r].out) \in Event
    BY <1>6, <2>2, WritesAre
  <2>4. Head(req[r].out) \in ToSet(req[r].out)
    <3>1. req[r].out \in Seq(Event) /\ req[r].out # <<>>
      BY <2>1 DEF AdkTypes, ReqSound, Invocation
    <3>. QED
      BY <3>1, EventsHead
  <2>5. InOrder(Append(sess.events, Head(req[r].out)))
    BY <1>1, <1>2, <2>2, <2>3, <2>4, InOrderAppend DEF Answerable
  <2>. QED
    BY <2>3, <2>5
<1>7. sess'.whole /\ InOrder(sess'.events)
  BY <1>1, <1>5, <1>6
<1>8. ASSUME NEW q \in Requests PROVE Kept(q)'
  <2>1. CASE q = r
    BY <1>2, <1>4, <2>1, KeptIsNext
  <2>2. CASE q # r
    <3>1. KeptReq(req[q], sess', q)
      <4>1. CASE sess' = sess
        BY <1>3, <4>1
      <4>2. CASE Writes(r)
        BY <1>2, <1>3, <1>6, <4>2, KeptOthers
      <4>. QED
        BY <1>5, <4>1, <4>2
    <3>. QED
      BY <1>0, <1>2, <2>2, <3>1, KeptIsNext
  <2>. QED
    BY <2>1, <2>2
<1>. QED
  BY <1>7, <1>8 DEF Ordered, InOrder

\* The end of the process leaves the session alone.
LEMMA OrderedDies ==
    ASSUME AdkTypes, Ordered, Dying
    PROVE  Ordered'
<1>1. Steady /\ \A q \in Requests : req'[q] = req[q] \/ (req'[q].pc = "failed" /\ req'[q].yielded = <<>>)
  BY DyingIs, QuietIs DEF AtRest
<1>2. ASSUME NEW q \in Requests, Kept(q) PROVE Kept(q)'
  <2>1. CASE req'[q] = req[q]
    BY <1>1, <1>2, <2>1 DEF Kept, Steady, Made
  <2>2. CASE req'[q].pc = "failed" /\ req'[q].yielded = <<>>
    <3>1. ToSet(req'[q].yielded) \subseteq ToSet(sess'.events)
      BY <2>2, EventsFew
    <3>. QED
      BY <2>2, <3>1 DEF Kept
  <2>. QED
    BY <1>1, <2>1, <2>2
<1>. QED
  BY <1>1, <1>2 DEF Ordered, Steady

-----------------------------------------------------------------------------
\* The first state: nobody has come yet.
LEMMA AdkStarts ==
    ASSUME Init
    PROVE  AdkInv
<1>0. /\ setup \in Setups /\ req = [r \in Requests |-> Quiet(r)] /\ ckpt = [r \in Requests |-> NoSnapshot]
      /\ claimed = {} /\ approved = {} /\ rolled = FALSE /\ ran = [r \in Requests |-> 0]
  BY DEF Init
<1>1. \A r \in Requests : /\ req[r] \in Invocation /\ req[r].pc = "idle" /\ AtRest(req[r], r)
                          /\ ~ckpt[r].held /\ ckpt[r] \in Snapshots /\ ran[r] = 0
  BY <1>0, QuietIs DEF NoSnapshot, Snapshots
<1>2. sess.events = <<>> /\ (setup.begun => sess.whole)
  BY DEF Init, NoSession
<1>3. RowSound(sess)
  <2>0. <<>> \in Seq(Event)
    OBVIOUS
  <2>1. CASE sess = NoSession
    BY <2>0, <2>1 DEF RowSound, Session, NoSession
  <2>2. CASE sess = [ver |-> 1, whole |-> TRUE, events |-> <<>>]
    BY <2>0, <2>2 DEF RowSound, Session
  <2>. QED
    BY <2>1, <2>2 DEF Init
<1>4. AdkTypes
  <2>1. \A r \in Requests : ReqSound(req[r])
    BY <1>1 DEF AtRest, ReqSound
  <2>. QED
    BY <1>0, <1>1, <1>3, <2>1 DEF AdkTypes
<1>5. Gated
  BY <1>1 DEF Gated, AtRest
<1>6. Registered
  BY <1>1 DEF Registered
<1>7. Sequential
  BY <1>1 DEF Sequential, OneAtATime, Finished, Active, AtRest
<1>8. RunsOnce
  <2>1. \A r \in Requests : Alone(r) /\ Resumed(r) /\ Confirmed(r)
    BY <1>1, AloneIdle
  <2>2. SnapshotsSettled /\ Decided
    BY <1>1 DEF SnapshotsSettled, Decided
  <2>3. ASSUME NEW r \in Requests PROVE Own(r)
    <3>1. NoAsk(ToSet(req[r].yielded))
      BY <1>1, EventsFew DEF NoAsk, AtRest
    <3>. QED
      BY <1>1, <3>1 DEF Own, AtRest
  <2>. QED
    BY <2>1, <2>2, <2>3 DEF RunsOnce
<1>9. Unrepeated
  BY <1>1, <1>2 DEF Unrepeated, Distinct
<1>10. Ordered
  <2>1. ASSUME NEW r \in Requests PROVE Kept(r)
    <3>1. ToSet(req[r].yielded) \subseteq ToSet(sess.events)
      BY <1>1, EventsFew DEF AtRest
    <3>. QED
      BY <1>1, <3>1 DEF Kept, AtRest
  <2>. QED
    BY <1>2, <2>1 DEF Ordered
<1>. QED
  BY <1>4, <1>5, <1>6, <1>7, <1>8, <1>9, <1>10 DEF AdkInv

\* Every step keeps the invariant.
LEMMA AdkKept ==
    ASSUME AdkInv, [Next]_vars
    PROVE  AdkInv'
<1>1. CASE UNCHANGED vars
  <2>1. /\ setup' = setup /\ sess' = sess /\ req' = req /\ ckpt' = ckpt /\ claimed' = claimed /\ ran' = ran
        /\ approved' = approved /\ rolled' = rolled
    BY <1>1 DEF vars
  <2>2. \A r \in Requests : /\ Active(r)' <=> Active(r)
                            /\ Alone(r)' <=> Alone(r)
                            /\ Resumed(r)' <=> Resumed(r)
                            /\ Own(r)' <=> Own(r)
                            /\ Confirmed(r)' <=> Confirmed(r)
                            /\ Kept(r)' <=> Kept(r)
    BY <2>1 DEF Active, Alone, Resumed, Own, Confirmed, Kept, Made
  <2>3. /\ SnapshotsSettled' <=> SnapshotsSettled
        /\ Decided' <=> Decided
        /\ OneAtATime' <=> OneAtATime
        /\ Finished' <=> Finished
    BY <2>1, <2>2 DEF SnapshotsSettled, Decided, OneAtATime, Finished
  <2>4. AdkTypes' /\ Gated' /\ Registered'
    BY <2>1 DEF AdkInv, AdkTypes, Gated, Registered
  <2>5. Sequential' /\ RunsOnce'
    BY <2>1, <2>2, <2>3 DEF AdkInv, Sequential, RunsOnce
  <2>6. Unrepeated' /\ Ordered'
    BY <2>1, <2>2 DEF AdkInv, Unrepeated, Ordered
  <2>. QED
    BY <2>4, <2>5, <2>6 DEF AdkInv
<1>2. CASE Dying
  <2>. USE DEF AdkInv
  <2>1. AdkTypes' /\ Gated' /\ Registered'
    BY <1>2, AdkTypesDie, GatedDies, RegisteredDies
  <2>2. Sequential' /\ RunsOnce'
    BY <1>2, SequentialDies, RunsOnceDies
  <2>3. Unrepeated' /\ Ordered'
    BY <1>2, UnrepeatedDies, OrderedDies
  <2>. QED
    BY <2>1, <2>2, <2>3
<1>3. ASSUME NEW r \in Requests, Turns(r) PROVE AdkInv'
  <2>. USE DEF AdkInv
  <2>1. AdkTypes'
    BY <1>3, AdkTypesKept
  <2>2. Gated' /\ Registered'
    BY <1>3, GatedKept, RegisteredKept
  <2>3. Sequential' /\ RunsOnce'
    BY <1>3, SequentialKept, RunsOnceKept
  <2>4. Unrepeated' /\ Ordered'
    BY <1>3, <2>1, UnrepeatedKept, OrderedKept
  <2>. QED
    BY <2>1, <2>2, <2>3, <2>4
<1>4. Next => Dying \/ \E r \in Requests : Turns(r)
  BY StepsAre DEF AdkInv
<1>. QED
  BY <1>1, <1>2, <1>3, <1>4

\* What the invariant says of the two properties.
LEMMA AdkSays ==
    ASSUME AdkInv
    PROVE  SideEffectsGuarded /\ TranscriptKept
<1>. USE DEF AdkInv
<1>1. CallsOnce
  <2>. SUFFICES ASSUME setup.tool = "unsafe", setup.registry \/ (~setup.overlap /\ ~(setup.gated /\ rolled))
                PROVE  \A c \in Requests : ran[c] <= 1
    BY DEF CallsOnce
  <2>1. CASE setup.registry
    BY <2>1 DEF Registered
  <2>2. CASE ~setup.overlap /\ ~setup.gated
    BY <2>2 DEF RunsOnce, Own
  <2>3. CASE ~setup.overlap /\ setup.gated /\ ~rolled
    BY <2>3 DEF RunsOnce, Decided
  <2>. QED
    BY <2>1, <2>2, <2>3
<1>2. ApprovalGate
  BY DEF ApprovalGate, Gated
<1>3. FinishedForgotten
  BY DEF FinishedForgotten, Sequential, Finished
<1>4. TypeOK
  <2>1. setup \in Setups /\ claimed \subseteq Requests /\ approved \subseteq Requests /\ rolled \in BOOLEAN
    BY DEF AdkTypes
  <2>2. /\ sess.ver \in Nat /\ sess.whole \in BOOLEAN /\ sess.events \in Seq(Event)
        /\ (sess.ver = 0 => sess = NoSession) /\ (~sess.whole => sess.events = <<>>)
    BY DEF AdkTypes, RowSound, Session
  <2>3. ASSUME NEW r \in Requests
        PROVE  /\ req[r].pc \in Outside \cup InRunner \cup Ended \cup {"idle", "finish", "snap", "save"}
               /\ req[r].kind \in {"fresh", "resume", "approve"}
               /\ req[r].out \in Seq(Event) /\ req[r].seen \in Seq(Event) /\ req[r].yielded \in Seq(Event)
               /\ req[r].says \in {"none", "yes", "no"}
               /\ (req[r].pc \in {"get", "put"} => req[r].out # <<>>)
               /\ ckpt[r].held \in BOOLEAN /\ (ckpt[r].held => ckpt[r].events # <<>>)
               /\ ran[r] \in Nat
    <3>1. /\ req[r] \in Invocation /\ ckpt[r] \in Snapshots /\ ran[r] \in Nat /\ ReqSound(req[r])
          /\ ckpt[r].held => ckpt[r].events # <<>>
      BY DEF AdkTypes
    <3>2. req[r].pc \in Pcs
      BY <3>1 DEF Invocation
    <3>. QED
      BY <3>1, <3>2 DEF Invocation, Snapshots, ReqSound, Pcs
  <2>. QED
    BY <2>1, <2>2, <2>3 DEF TypeOK
<1>5. TranscriptOrdered
  <2>1. Distinct(sess.events)
    BY DEF Unrepeated
  <2>2. setup.begun /\ ~rolled => InOrder(sess.events)
    BY DEF Ordered, InOrder
  <2>. QED
    BY <2>1, <2>2 DEF TranscriptOrdered, Distinct, InOrder, Answering
<1>6. TurnsKept
  BY DEF TurnsKept, Ordered, Kept
<1>. QED
  BY <1>1, <1>2, <1>3, <1>4, <1>5, <1>6 DEF SideEffectsGuarded, TranscriptKept

\* For every set of requests, however they fail, crash, are resumed or approved twice: a
\* side effect of a session's calls happens at most once, none without the approval it
\* needs, and no finished invocation is left to be resumed.
THEOREM SideEffectsAreGuarded == Spec => []SideEffectsGuarded
<1>1. Init => AdkInv
  BY AdkStarts
<1>2. AdkInv /\ [Next]_vars => AdkInv'
  BY AdkKept
<1>3. AdkInv => SideEffectsGuarded
  BY AdkSays
<1>. QED
  BY <1>1, <1>2, <1>3, PTL DEF Spec

\* For every set of requests: the transcript holds no event twice, no response before its
\* call, and every event of a successful request.
THEOREM TranscriptIsKept == Spec => []TranscriptKept
<1>1. Init => AdkInv
  BY AdkStarts
<1>2. AdkInv /\ [Next]_vars => AdkInv'
  BY AdkKept
<1>3. AdkInv => TranscriptKept
  BY AdkSays
<1>. QED
  BY <1>1, <1>2, <1>3, PTL DEF Spec
=============================================================================
