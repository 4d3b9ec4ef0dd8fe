----------------------------- MODULE CloudProofs -----------------------------
(***************************************************************************)
(* Proofs about the cloud's control planes and gateway.                    *)
(***************************************************************************)
EXTENDS Gateway, Registry, ConfigPlane, Observability, SelectionProofs, FiniteSetTheorems, FunctionTheorems,
        SequenceTheorems, TLAPS

-----------------------------------------------------------------------------
(* The registry and its discovery client. *)

\* What a query can find, and the states of a call.
Snapshots == [held : BOOLEAN, agents : SUBSET (Agents \X Nat \X BOOLEAN), at : Nat]
CallStates == [pc : {"idle", "sent", "reply", "lost", "done", "error"}, healthy : BOOLEAN,
               since : Nat, answer : Snapshots, cached : BOOLEAN]
Entry == [desc : Nat, old : BOOLEAN, live : BOOLEAN]

\* The registry by itself.
RegistryShape ==
    /\ rkind \in RegBackends
    /\ epoch \in 0..MaxRegistrations
    /\ DOMAIN entries \subseteq Agents
    /\ \A a \in DOMAIN entries : entries[a] \in Entry /\ entries[a].desc \in 1..epoch

\* The client: an answer is from the time of the call unless it is marked, and
\* the cache keeps answers to healthy_only queries apart from the others.
AllLive(s) == \A x \in s.agents : x[3]
ClientShape ==
    /\ call \in [Calls -> CallStates]
    /\ cache \in [BOOLEAN -> Snapshots]
    /\ AllLive(cache[TRUE])
    /\ \A h \in BOOLEAN : cache[h].at <= epoch /\ (~cache[h].held => cache[h] = NoSnapshot)
    /\ \A c \in Calls :
        /\ call[c].since <= epoch /\ call[c].answer.at <= epoch
        /\ call[c].pc \in {"reply", "done"} /\ call[c].healthy => AllLive(call[c].answer)
        /\ call[c].pc = "reply" => call[c].answer.held
        /\ call[c].pc \in {"reply", "done"} /\ ~call[c].cached => call[c].answer.at >= call[c].since

RegInv == RegistryShape /\ ClientShape

\* The initial states of the registry and its clients.
LEMMA RegInitInv ==
    ASSUME RegAssumption, RegInit
    PROVE  RegInv
  BY DEF RegAssumption, RegInit, RegInv, RegistryShape, ClientShape, AllLive, NoSnapshot,
         Snapshots, CallStates

\* A later epoch is fine for every answer.
LEMMA ClientKept ==
    ASSUME ClientShape, call' = call, cache' = cache, epoch \in Nat, epoch' \in {epoch, epoch + 1}
    PROVE  ClientShape'
<1>1. /\ \A h \in BOOLEAN : cache[h].at \in Nat
      /\ \A c \in Calls : call[c].since \in Nat /\ call[c].answer.at \in Nat
  BY DEF ClientShape, CallStates, Snapshots
<1>2. \A n \in Nat : n <= epoch => n <= epoch'
  OBVIOUS
<1>3. /\ \A h \in BOOLEAN : cache[h].at <= epoch'
      /\ \A c \in Calls : call[c].since <= epoch' /\ call[c].answer.at <= epoch'
  BY <1>1, <1>2 DEF ClientShape
<1>. QED
  BY <1>3 DEF ClientShape

\* A registration, a heartbeat, a purge or the passing of time.
LEMMA RegistrySteps ==
    ASSUME RegAssumption, RegInv, NEW a \in Agents, 
           \/ Register(a) \/ RegisterRow(a) \/ Heartbeat(a) \/ HeartbeatRow(a) \/ Deregister(a)
           \/ LeaseLapses(a) \/ WindowPasses(a) \/ Restart
    PROVE  RegInv'
<1>1. RegistryShape'
  <2>1. CASE Register(a)
    BY <2>1 DEF Register, Entered, RegInv, RegistryShape, Entry, RegAssumption
  <2>2. CASE RegisterRow(a)
    BY <2>2 DEF RegisterRow, Entered, Kept, RegInv, RegistryShape, Entry, RegAssumption
  <2>3. CASE Heartbeat(a) \/ HeartbeatRow(a)
    BY <2>3 DEF Heartbeat, HeartbeatRow, RegInv, RegistryShape, Entry
  <2>4. CASE LeaseLapses(a) \/ WindowPasses(a)
    <3>1. CASE LeaseLapses(a)
      BY <3>1 DEF LeaseLapses, RegInv, RegistryShape, Entry
    <3>2. CASE WindowPasses(a)
      BY <3>2 DEF WindowPasses, RegInv, RegistryShape, Entry
    <3>. QED
      BY <2>4, <3>1, <3>2
  <2>5. CASE Deregister(a) \/ Restart
    BY <2>5 DEF Deregister, Only, Restart, RegInv, RegistryShape
  <2>. QED
    BY <2>1, <2>2, <2>3, <2>4, <2>5
<1>2. call' = call /\ cache' = cache /\ epoch \in Nat /\ epoch' \in {epoch, epoch + 1}
  BY DEF Register, RegisterRow, Heartbeat, HeartbeatRow, Deregister, LeaseLapses, WindowPasses,
         Restart, RegInv, RegistryShape
<1>3. ClientShape'
  BY <1>2, ClientKept DEF RegInv
<1>. QED
  BY <1>1, <1>3 DEF RegInv

\* One call of discover() moves: what it must show of its new state and of the
\* snapshot that it may have left in the cache.
LEMMA CallMoves ==
    ASSUME ClientShape, NEW c \in Calls, NEW x \in CallStates, epoch \in Nat, epoch' = epoch,
           call' = [call EXCEPT ![c] = x], cache' = cache,
           x.since <= epoch, x.answer.at <= epoch,
           x.pc \in {"reply", "done"} /\ x.healthy => AllLive(x.answer),
           x.pc = "reply" => x.answer.held,
           x.pc \in {"reply", "done"} /\ ~x.cached => x.answer.at >= x.since
    PROVE  ClientShape'
<1>1. call' \in [Calls -> CallStates] /\ call'[c] = x /\ \A d \in Calls \ {c} : call'[d] = call[d]
  BY DEF ClientShape
<1>. QED
  BY <1>1 DEF ClientShape

\* The steps of one discovery call.
LEMMA DiscoverySteps ==
    ASSUME RegAssumption, RegInv, NEW c \in Calls,
           \/ Discover(c) \/ Query(c) \/ QueryRows(c) \/ Receive(c) \/ Lose(c) \/ FallBack(c)
           \/ Reject(c)
    PROVE  RegInv'
<1>0. /\ ClientShape /\ epoch \in Nat /\ call \in [Calls -> CallStates] /\ call[c] \in CallStates
      /\ call[c].since \in Nat /\ call[c].healthy \in BOOLEAN /\ call[c].answer \in Snapshots
      /\ NoSnapshot \in Snapshots /\ cache \in [BOOLEAN -> Snapshots]
      /\ call[c].since <= epoch /\ call[c].answer.at <= epoch
  <2>1. ClientShape /\ epoch \in Nat /\ call \in [Calls -> CallStates] /\ cache \in [BOOLEAN -> Snapshots]
    BY DEF RegInv, RegistryShape, ClientShape
  <2>2. call[c] \in CallStates /\ call[c].since <= epoch /\ call[c].answer.at <= epoch
    BY <2>1 DEF ClientShape
  <2>3. call[c].since \in Nat /\ call[c].healthy \in BOOLEAN /\ call[c].answer \in Snapshots
    BY <2>2 DEF CallStates
  <2>4. NoSnapshot \in Snapshots
    BY DEF NoSnapshot, Snapshots
  <2>. QED
    BY <2>1, <2>2, <2>3, <2>4
<1>1. RegistryShape'
  BY DEF Discover, Query, QueryRows, Receive, Lose, FallBack, Reject, Only, Kept, RegInv,
         RegistryShape
<1>2. CASE Discover(c)
  <2>1. PICK h \in BOOLEAN : call' = [call EXCEPT ![c].pc = "sent", ![c].healthy = h, ![c].since = epoch]
    BY <1>2 DEF Discover
  <2>. DEFINE x == [call[c] EXCEPT !.pc = "sent", !.healthy = h, !.since = epoch]
  <2>2. x \in CallStates
    BY <1>0 DEF CallStates
  <2>3. x.pc = "sent" /\ x.since = epoch /\ x.answer = call[c].answer
    BY <1>0 DEF CallStates
  <2>4. call' = [call EXCEPT ![c] = x] /\ epoch' = epoch /\ cache' = cache
    BY <1>0, <1>2, <2>1 DEF Discover
  <2>. HIDE DEF x
  <2>5. /\ x.since <= epoch /\ x.answer.at <= epoch
        /\ x.pc \notin {"reply", "done"} /\ x.pc # "reply"
    BY <1>0, <2>3
  <2>6. ClientShape'
    BY <1>0, <2>2, <2>4, <2>5, CallMoves
  <2>. QED
    BY <1>1, <2>6 DEF RegInv
<1>3. CASE Query(c) \/ QueryRows(c)
  <2>. DEFINE s == Found(c)
              x == [call[c] EXCEPT !.pc = "reply", !.answer = s]
  <2>1. s.held = TRUE /\ s.at = epoch
    BY DEF Found
  <2>2. s \in Snapshots
    BY <1>0 DEF Found, Snapshots, Kept, RegInv, RegistryShape, Entry
  <2>3. call[c].healthy => AllLive(s)
    BY DEF Found, AllLive
  <2>. HIDE DEF s
  <2>4. x \in CallStates
    BY <1>0, <2>2 DEF CallStates
  <2>5. x.pc = "reply" /\ x.answer = s /\ x.healthy = call[c].healthy /\ x.since = call[c].since
    BY <1>0 DEF CallStates
  <2>6. call' = [call EXCEPT ![c] = x] /\ epoch' = epoch /\ cache' = cache
    BY <1>0, <1>3 DEF Query, QueryRows, s
  <2>. HIDE DEF x
  <2>7. /\ x.since <= epoch /\ x.answer.at <= epoch /\ x.answer.held
        /\ (x.healthy => AllLive(x.answer)) /\ x.answer.at >= x.since
    BY <1>0, <2>1, <2>3, <2>5
  <2>8. ClientShape'
    BY <1>0, <2>4, <2>6, <2>7, CallMoves
  <2>. QED
    BY <1>1, <2>8 DEF RegInv
<1>4. CASE Lose(c)
  <2>. DEFINE x == [call[c] EXCEPT !.pc = "lost", !.answer = NoSnapshot]
  <2>1. x \in CallStates
    BY <1>0 DEF CallStates
  <2>2. x.pc = "lost" /\ x.answer.at = 0 /\ x.since = call[c].since
    BY <1>0 DEF CallStates, NoSnapshot
  <2>3. call' = [call EXCEPT ![c] = x] /\ epoch' = epoch /\ cache' = cache
    BY <1>0, <1>4 DEF Lose
  <2>. HIDE DEF x
  <2>4. /\ x.since <= epoch /\ x.answer.at <= epoch
        /\ x.pc \notin {"reply", "done"} /\ x.pc # "reply"
    BY <1>0, <2>2
  <2>5. ClientShape'
    BY <1>0, <2>1, <2>3, <2>4, CallMoves
  <2>. QED
    BY <1>1, <2>5 DEF RegInv
<1>5. CASE Reject(c)
  <2>. DEFINE x == [call[c] EXCEPT !.pc = "error"]
  <2>1. x \in CallStates /\ x.pc = "error" /\ x.answer = call[c].answer /\ x.since = call[c].since
    BY <1>0 DEF CallStates
  <2>2. call' = [call EXCEPT ![c] = x] /\ epoch' = epoch /\ cache' = cache
    BY <1>0, <1>5 DEF Reject
  <2>. HIDE DEF x
  <2>3. ClientShape'
    BY <1>0, <2>1, <2>2, CallMoves
  <2>. QED
    BY <1>1, <2>3 DEF RegInv
<1>6. CASE FallBack(c)
  <2>. DEFINE s == cache[call[c].healthy]
              x == [call[c] EXCEPT !.pc = IF s.held THEN "done" ELSE "error",
                                   !.answer = s, !.cached = s.held]
  <2>1. s \in Snapshots /\ s.held \in BOOLEAN /\ s.at <= epoch
    BY <1>0 DEF ClientShape, Snapshots
  <2>2. call[c].healthy => AllLive(s)
    BY <1>0 DEF ClientShape
  <2>3. call' = [call EXCEPT ![c] = x] /\ epoch' = epoch /\ cache' = cache
    BY <1>0, <1>6 DEF FallBack
  <2>. HIDE DEF s
  <2>4. x \in CallStates
    BY <1>0, <2>1 DEF CallStates
  <2>5. /\ x.pc \in {"done", "error"} /\ (x.pc = "done" => x.cached) /\ x.answer = s
        /\ x.healthy = call[c].healthy /\ x.since = call[c].since
    BY <1>0, <2>1 DEF CallStates
  <2>. HIDE DEF x
  <2>6. ClientShape'
    BY <1>0, <2>1, <2>2, <2>3, <2>4, <2>5, CallMoves
  <2>. QED
    BY <1>1, <2>6 DEF RegInv
<1>7. CASE Receive(c)
  <2>. DEFINE s == call[c].answer
              x == [call[c] EXCEPT !.pc = "done"]
  <2>1. /\ s \in Snapshots /\ s.held /\ s.at <= epoch /\ (call[c].healthy => AllLive(s))
        /\ ~call[c].cached => s.at >= call[c].since
    BY <1>0, <1>7 DEF ClientShape, Receive
  <2>2. x \in CallStates
    BY <1>0 DEF CallStates
  <2>3. /\ x.pc = "done" /\ x.cached = call[c].cached /\ x.answer = s
        /\ x.healthy = call[c].healthy /\ x.since = call[c].since
    BY <1>0, <2>1 DEF CallStates
  <2>4. /\ call' = [call EXCEPT ![c] = x] /\ epoch' = epoch
        /\ cache' = [cache EXCEPT ![call[c].healthy] = s]
    BY <1>0, <1>7 DEF Receive
  <2>5. /\ cache' \in [BOOLEAN -> Snapshots]
        /\ AllLive(cache'[TRUE])
        /\ \A h \in BOOLEAN : cache'[h].at <= epoch /\ (~cache'[h].held => cache'[h] = NoSnapshot)
    BY <1>0, <2>1, <2>4 DEF ClientShape
  <2>6. call' \in [Calls -> CallStates] /\ call'[c] = x /\ \A d \in Calls \ {c} : call'[d] = call[d]
    BY <1>0, <2>2, <2>4
  <2>7. ClientShape'
    BY <1>0, <2>1, <2>3, <2>4, <2>5, <2>6 DEF ClientShape
  <2>. QED
    BY <1>1, <2>7 DEF RegInv
<1>. QED
  BY <1>2, <1>3, <1>4, <1>5, <1>6, <1>7

\* What discover() answers is current or marked, and healthy as far as was asked,
\* for any number of agents and of overlapping calls.
THEOREM DiscoveryIsHonest ==
    ASSUME RegAssumption
    PROVE  RegSpec => []DiscoveryHonest
<1>1. RegInit => RegInv
  BY RegInitInv
<1>2. RegInv /\ [RegNext]_rvars => RegInv'
  <2>. SUFFICES ASSUME RegInv, [RegNext]_rvars PROVE RegInv'
    OBVIOUS
  <2>1. CASE RegNext
    <3>1. CASE Restart
      <4>1. RegistryShape'
        BY <3>1 DEF Restart, RegInv, RegistryShape
      <4>2. ClientShape'
        BY <3>1, ClientKept DEF Restart, RegInv, RegistryShape
      <4>. QED
        BY <4>1, <4>2 DEF RegInv
    <3>. QED
      BY <2>1, <3>1, RegistrySteps, DiscoverySteps DEF RegNext
  <2>2. CASE UNCHANGED rvars
    BY <2>2 DEF rvars, RegInv, RegistryShape, ClientShape
  <2>. QED
    BY <2>1, <2>2
<1>3. RegInv => DiscoveryHonest
  <2>. SUFFICES ASSUME RegInv PROVE DiscoveryHonest
    OBVIOUS
  <2>1. RegTypeOK
    <3>1. \A a \in DOMAIN entries : entries[a].desc \in 1..epoch /\ {entries[a].old, entries[a].live} \subseteq BOOLEAN
      BY DEF RegInv, RegistryShape, Entry
    <3>2. \A c \in Calls : /\ call[c].pc \in {"idle", "sent", "reply", "lost", "done", "error"}
                           /\ {call[c].healthy, call[c].cached} \subseteq BOOLEAN
                           /\ call[c].since \in 0..epoch /\ call[c].answer.at \in 0..epoch
      BY DEF RegInv, RegistryShape, ClientShape, CallStates, Snapshots
    <3>3. \A h \in BOOLEAN : cache[h].held \in BOOLEAN /\ (~cache[h].held => cache[h] = NoSnapshot)
      BY DEF RegInv, ClientShape, Snapshots
    <3>. QED
      BY <3>1, <3>2, <3>3 DEF RegInv, RegistryShape, RegTypeOK
  <2>2. StaleIsMarked
    BY DEF RegInv, ClientShape, StaleIsMarked
  <2>3. HealthyOnlyHolds
    BY DEF RegInv, ClientShape, HealthyOnlyHolds, AllLive
  <2>. QED
    BY <2>1, <2>2, <2>3 DEF DiscoveryHonest
<1>. QED
  BY <1>1, <1>2, <1>3, PTL DEF RegSpec

\* An agent whose lease is live leaves the registry only when it is deregistered
\* or with the memory of the process: neither backend's purge takes it.
THEOREM LiveAgentsAreKept ==
    RegSpec => LiveKept
<1>. DEFINE Keeps == \A a \in Agents : Gone(a) /\ entries[a].live => Deregister(a) \/ Restart
<1>1. [RegNext]_rvars => [Keeps]_rvars
  <2>. SUFFICES ASSUME RegNext, NEW a \in Agents, Gone(a), entries[a].live
                PROVE  Deregister(a) \/ Restart
    OBVIOUS
  <2>1. ASSUME NEW b \in Agents, Deregister(b) PROVE Deregister(a)
    BY <2>1 DEF Deregister, Only, Gone
  <2>2. ASSUME NEW b \in Agents, Register(b) \/ RegisterRow(b) PROVE FALSE
    BY <2>2 DEF Register, RegisterRow, Entered, Kept, Gone
  <2>3. ASSUME NEW b \in Agents, \/ Heartbeat(b) \/ HeartbeatRow(b)
                                 \/ LeaseLapses(b) \/ WindowPasses(b) PROVE FALSE
    BY <2>3 DEF Heartbeat, HeartbeatRow, LeaseLapses, WindowPasses, Gone
  <2>4. ASSUME NEW c \in Calls, Query(c) \/ QueryRows(c) PROVE FALSE
    BY <2>4 DEF Query, QueryRows, Only, Kept, Gone
  <2>5. ASSUME entries' = entries PROVE FALSE
    BY <2>5 DEF Gone
  <2>. QED
    BY <2>1, <2>2, <2>3, <2>4, <2>5 DEF RegNext, Discover, Receive, Lose, FallBack, Reject
<1>. QED
  BY <1>1, PTL DEF RegSpec, LiveKept

-----------------------------------------------------------------------------
(* The configuration plane and its client. *)

\* m is the newest version ever numbered, and it is still stored: everything
\* numbered and everything stored is at most m.  The in-memory history has no gap.
Newest(m) ==
    /\ m \in {0} \cup DOMAIN rows
    /\ \A v \in DOMAIN rows : v <= m
    /\ \A x \in issued : x[1] <= m
    /\ m = 0 => issued = {}
    /\ ckind = "memory" => DOMAIN rows = 1..m

\* A row is a version that was numbered, with the payload it was numbered for.
RowEntry == [payload : Payloads, old : BOOLEAN]
PlaneShape ==
    /\ ckind \in CfgBackends /\ retains \in BOOLEAN
    /\ DOMAIN rows \subseteq 1..MaxVersions
    /\ \A v \in DOMAIN rows : rows[v] \in RowEntry /\ <<v, rows[v].payload>> \in issued
    /\ issued \subseteq (1..MaxVersions) \X Payloads
    /\ VersionImmutable
    /\ roll \in [Operators -> Payloads \cup {Nothing}]
    /\ \E m \in Nat : Newest(m)

\* What a client holds was numbered, and what it holds for a version is that version.
ReadStates == [pc : {"idle", "sent", "reply", "lost", "done", "error"}, key : Keys,
               got : (Nat \X Payloads) \cup {NoAnswer}]
ReadFits(x, numbered) ==
    /\ x.got \in numbered \cup {NoAnswer}
    /\ x.pc = "reply" => x.got \in numbered
    /\ x.pc \in {"reply", "done"} /\ x.key # 0 => x.got[1] = x.key
ReaderShape ==
    /\ read \in [Reads -> ReadStates]
    /\ \A r \in Reads : ReadFits(read[r], issued)
    /\ \A k \in DOMAIN kept : k \in Keys /\ kept[k] \in issued /\ (k # 0 => kept[k][1] = k)

CfgInv == PlaneShape /\ ReaderShape

\* The newest version is the one that the plane calls the latest.
LEMMA LatestIsNewest ==
    ASSUME PlaneShape, NEW m \in Nat, Newest(m)
    PROVE  Latest = m
<1>. DEFINE S == {0} \cup DOMAIN rows
<1>1. S \subseteq Nat /\ m \in S /\ \A y \in S : m >= y
  BY DEF PlaneShape, Newest
<1>2. \A x \in S : (\A y \in S : x >= y) => x = m
  BY <1>1
<1>3. Max(S) = m
  BY <1>1, <1>2 DEF Max
<1>. QED
  BY <1>3 DEF Latest

\* The initial states of the configuration plane.
LEMMA CfgInitInv ==
    ASSUME CfgAssumption, CfgInit
    PROVE  CfgInv
<1>1. Newest(0)
  BY DEF CfgInit, Newest
<1>2. PlaneShape
  BY <1>1 DEF CfgAssumption, CfgInit, PlaneShape, VersionImmutable
<1>3. 0 \in Keys
  BY DEF CfgAssumption, Keys
<1>4. ReaderShape
  BY <1>3 DEF CfgInit, ReaderShape, ReadStates, ReadFits
<1>. QED
  BY <1>2, <1>4 DEF CfgInv

\* Storing a version: either backend gives it the number after the newest, and
\* retention, which may drop older versions, leaves this one.
LEMMA StoringSteps ==
    ASSUME CfgAssumption, CfgInv, NEW p \in Payloads, StoreVersion(p),
           ckind' = ckind, retains' = retains, roll' \in [Operators -> Payloads \cup {Nothing}],
           read' = read, kept' = kept
    PROVE  CfgInv'
<1>1. PICK m \in Nat : Newest(m)
  BY DEF CfgInv, PlaneShape
<1>2. PICK others \in SUBSET DOMAIN rows :
        /\ Stored(m + 1, p, others)
        /\ ckind = "memory" => others = DOMAIN rows
  <2>1. CASE StoreAppended(p)
    <3>1. DOMAIN rows = 1..m /\ Cardinality(1..m) = m
      BY <1>1, <2>1, FS_Interval DEF StoreAppended, Newest
    <3>. QED
      BY <2>1, <3>1 DEF StoreAppended
  <2>2. CASE StoreRow(p)
    <3>1. NextVersion = m + 1
      BY <1>1, LatestIsNewest DEF CfgInv, NextVersion
    <3>2. Retained \subseteq DOMAIN rows
      BY DEF Retained
    <3>. QED
      BY <2>2, <3>1, <3>2 DEF StoreRow
  <2>. QED
    BY <2>1, <2>2 DEF StoreVersion
<1>3. /\ m + 1 <= MaxVersions
      /\ DOMAIN rows' = others \cup {m + 1}
      /\ rows'[m + 1] = [payload |-> p, old |-> FALSE]
      /\ \A v \in others : v # m + 1 /\ rows'[v] = rows[v]
      /\ issued' = issued \cup {<<m + 1, p>>}
  <2>1. m + 1 \notin others
    BY <1>1 DEF Newest, CfgInv, PlaneShape
  <2>. QED
    BY <1>2, <2>1 DEF Stored
<1>4. m + 1 \in 1..MaxVersions /\ \A x \in issued : x[1] # m + 1
  <2>1. \A x \in issued : x[1] \in Nat /\ x[1] <= m
    BY <1>1 DEF Newest, CfgInv, PlaneShape
  <2>. QED
    BY <1>3, <2>1 DEF CfgAssumption
<1>5. Newest(m + 1)'
  <2>1. \A v \in DOMAIN rows' : v <= m + 1
    BY <1>1, <1>3 DEF Newest, CfgInv, PlaneShape
  <2>2. \A x \in issued' : x[1] <= m + 1
    <3>1. \A x \in issued : x[1] \in Nat /\ x[1] <= m
      BY <1>1 DEF Newest, CfgInv, PlaneShape
    <3>. QED
      BY <1>3, <3>1
  <2>3. ckind = "memory" => DOMAIN rows' = 1..(m + 1)
    BY <1>1, <1>2, <1>3 DEF Newest
  <2>. QED
    BY <1>3, <2>1, <2>2, <2>3 DEF Newest
<1>6. VersionImmutable'
  <2>1. VersionImmutable
    BY DEF CfgInv, PlaneShape
  <2>. QED
    BY <1>3, <1>4, <2>1 DEF VersionImmutable
<1>7. PlaneShape'
  <2>1. issued' \subseteq (1..MaxVersions) \X Payloads
    BY <1>3, <1>4 DEF CfgInv, PlaneShape
  <2>2. DOMAIN rows' \subseteq 1..MaxVersions
    BY <1>3, <1>4 DEF CfgInv, PlaneShape
  <2>3. \A v \in DOMAIN rows' : rows'[v] \in RowEntry /\ <<v, rows'[v].payload>> \in issued'
    <3>1. rows'[m + 1] \in RowEntry /\ <<m + 1, rows'[m + 1].payload>> \in issued'
      BY <1>3 DEF RowEntry
    <3>2. \A v \in others : rows'[v] \in RowEntry /\ <<v, rows'[v].payload>> \in issued'
      BY <1>3 DEF CfgInv, PlaneShape
    <3>. QED
      BY <1>3, <3>1, <3>2
  <2>. QED
    BY <1>5, <1>6, <2>1, <2>2, <2>3 DEF CfgInv, PlaneShape
<1>8. ReaderShape'
  BY <1>3 DEF CfgInv, ReaderShape, ReadFits
<1>. QED
  BY <1>7, <1>8 DEF CfgInv

\* One call of get() moves, and may leave a good answer in the cache.
LEMMA ReadMoves ==
    ASSUME CfgInv, NEW r \in Reads, NEW x \in ReadStates, GoRead(r, x), ReadFits(x, issued),
           \/ kept' = kept
           \/ /\ x.key \in Keys /\ x.got \in issued /\ (x.key # 0 => x.got[1] = x.key)
              /\ kept' = [k \in DOMAIN kept \cup {x.key} |-> IF k = x.key THEN x.got ELSE kept[k]]
    PROVE  CfgInv'
<1>1. /\ UNCHANGED <<ckind, retains, rows, issued, roll>>
      /\ read' = [read EXCEPT ![r] = x] /\ read \in [Reads -> ReadStates]
  BY DEF GoRead, CfgInv, ReaderShape
<1>2. PlaneShape'
  <2>1. PICK m \in Nat : Newest(m)
    BY DEF CfgInv, PlaneShape
  <2>2. Newest(m)'
    BY <1>1, <2>1 DEF Newest
  <2>. QED
    BY <1>1, <2>2 DEF CfgInv, PlaneShape, VersionImmutable
<1>3. /\ read' \in [Reads -> ReadStates] /\ read'[r] = x
      /\ \A s \in Reads \ {r} : read'[s] = read[s]
  BY <1>1
<1>4. \A s \in Reads : ReadFits(read'[s], issued')
  BY <1>1, <1>3 DEF CfgInv, ReaderShape
<1>5. \A k \in DOMAIN kept' : k \in Keys /\ kept'[k] \in issued' /\ (k # 0 => kept'[k][1] = k)
  BY <1>1 DEF CfgInv, ReaderShape
<1>6. ReaderShape'
  BY <1>3, <1>4, <1>5 DEF ReaderShape
<1>. QED
  BY <1>2, <1>6 DEF CfgInv

\* The steps of one reader of the configuration.
LEMMA ReaderSteps ==
    ASSUME CfgAssumption, CfgInv, NEW r \in Reads,
           Serve(r) \/ Arrive(r) \/ Drop(r) \/ UseLastGood(r) \/ \E k \in Keys : Ask(r, k)
    PROVE  CfgInv'
<1>1. /\ read[r] \in ReadStates /\ ReadFits(read[r], issued)
      /\ issued \subseteq Nat \X Payloads /\ NoAnswer \notin issued
  BY DEF CfgInv, PlaneShape, ReaderShape, NoAnswer
<1>2. CASE \E k \in Keys : Ask(r, k)
  <2>1. PICK k \in Keys : Ask(r, k)
    BY <1>2
  <2>. DEFINE x == [read[r] EXCEPT !.pc = "sent", !.key = k]
  <2>2. x \in ReadStates /\ x.pc = "sent" /\ x.got = read[r].got
    BY <1>1 DEF ReadStates
  <2>3. GoRead(r, x) /\ kept' = kept
    BY <2>1 DEF Ask
  <2>. HIDE DEF x
  <2>4. ReadFits(x, issued)
    BY <1>1, <2>2 DEF ReadFits
  <2>. QED
    BY <2>2, <2>3, <2>4, ReadMoves
<1>3. CASE Serve(r)
  <2>. DEFINE v == IF read[r].key = 0 THEN Latest ELSE read[r].key
              x == [read[r] EXCEPT !.pc = "reply", !.got = <<v, rows[v].payload>>]
              y == [read[r] EXCEPT !.pc = "error"]
  <2>1. CASE v \in DOMAIN rows
    <3>1. <<v, rows[v].payload>> \in issued
      BY <2>1 DEF CfgInv, PlaneShape
    <3>2. x \in ReadStates /\ x.pc = "reply" /\ x.key = read[r].key /\ x.got = <<v, rows[v].payload>>
      BY <1>1, <3>1 DEF ReadStates
    <3>3. GoRead(r, x) /\ kept' = kept
      BY <1>3, <2>1 DEF Serve
    <3>4. ReadFits(x, issued)
      BY <3>1, <3>2 DEF ReadFits
    <3>. HIDE DEF x
    <3>. QED
      BY <3>2, <3>3, <3>4, ReadMoves
  <2>2. CASE v \notin DOMAIN rows
    <3>1. y \in ReadStates /\ y.pc = "error" /\ y.got = read[r].got
      BY <1>1 DEF ReadStates
    <3>2. GoRead(r, y) /\ kept' = kept
      BY <1>3, <2>2 DEF Serve
    <3>. HIDE DEF y
    <3>3. ReadFits(y, issued)
      BY <1>1, <3>1 DEF ReadFits
    <3>. QED
      BY <3>1, <3>2, <3>3, ReadMoves
  <2>. QED
    BY <2>1, <2>2
<1>4. CASE Arrive(r)
  <2>. DEFINE x == [read[r] EXCEPT !.pc = "done"]
  <2>1. x \in ReadStates /\ x.pc = "done" /\ x.got = read[r].got /\ x.key = read[r].key
    BY <1>1 DEF ReadStates
  <2>2. /\ GoRead(r, x) /\ read[r].pc = "reply"
        /\ kept' = [k \in DOMAIN kept \cup {read[r].key} |-> IF k = read[r].key THEN read[r].got ELSE kept[k]]
    BY <1>4 DEF Arrive
  <2>3. read[r].key \in Keys /\ read[r].got \in issued /\ (read[r].key # 0 => read[r].got[1] = read[r].key)
    BY <1>1, <2>2 DEF ReadStates, ReadFits
  <2>. HIDE DEF x
  <2>4. ReadFits(x, issued)
    BY <2>1, <2>3 DEF ReadFits
  <2>5. /\ x.key \in Keys /\ x.got \in issued /\ (x.key # 0 => x.got[1] = x.key)
        /\ kept' = [k \in DOMAIN kept \cup {x.key} |-> IF k = x.key THEN x.got ELSE kept[k]]
    BY <2>1, <2>2, <2>3
  <2>. QED
    BY <2>1, <2>2, <2>4, <2>5, ReadMoves
<1>5. CASE Drop(r)
  <2>. DEFINE x == [read[r] EXCEPT !.pc = "lost", !.got = NoAnswer]
  <2>1. x \in ReadStates /\ x.pc = "lost" /\ x.got = NoAnswer
    BY <1>1 DEF ReadStates
  <2>2. GoRead(r, x) /\ kept' = kept
    BY <1>5 DEF Drop
  <2>. HIDE DEF x
  <2>3. ReadFits(x, issued)
    BY <2>1 DEF ReadFits
  <2>. QED
    BY <2>1, <2>2, <2>3, ReadMoves
<1>6. CASE UseLastGood(r)
  <2>. DEFINE k == read[r].key
              x == [read[r] EXCEPT !.pc = "done", !.got = kept[k]]
              y == [read[r] EXCEPT !.pc = "error"]
  <2>1. CASE k \in DOMAIN kept
    <3>1. kept[k] \in issued /\ (k # 0 => kept[k][1] = k)
      BY <2>1 DEF CfgInv, ReaderShape
    <3>2. x \in ReadStates /\ x.pc = "done" /\ x.key = k /\ x.got = kept[k]
      BY <1>1, <3>1 DEF ReadStates
    <3>3. GoRead(r, x) /\ kept' = kept
      BY <1>6, <2>1 DEF UseLastGood
    <3>. HIDE DEF x
    <3>4. ReadFits(x, issued)
      BY <3>1, <3>2 DEF ReadFits
    <3>. QED
      BY <3>2, <3>3, <3>4, ReadMoves
  <2>2. CASE k \notin DOMAIN kept
    <3>1. y \in ReadStates /\ y.pc = "error" /\ y.got = read[r].got
      BY <1>1 DEF ReadStates
    <3>2. GoRead(r, y) /\ kept' = kept
      BY <1>6, <2>2 DEF UseLastGood
    <3>. HIDE DEF y
    <3>3. ReadFits(y, issued)
      BY <1>1, <3>1 DEF ReadFits
    <3>. QED
      BY <3>1, <3>2, <3>3, ReadMoves
  <2>. QED
    BY <2>1, <2>2
<1>. QED
  BY <1>2, <1>3, <1>4, <1>5, <1>6

\* A version number means one payload, the latest is the newest, and a client that
\* pinned a version is served that version, for any number of versions, operators
\* and clients and for both backends.
THEOREM ConfigVersionsStand ==
    ASSUME CfgAssumption
    PROVE  CfgSpec => []VersionsStand
<1>1. CfgInit => CfgInv
  BY CfgInitInv
<1>2. CfgInv /\ [CfgNext]_cvars => CfgInv'
  <2>. SUFFICES ASSUME CfgInv, [CfgNext]_cvars PROVE CfgInv'
    OBVIOUS
  <2>0. roll \in [Operators -> Payloads \cup {Nothing}]
    BY DEF CfgInv, PlaneShape
  <2>1. ASSUME NEW p \in Payloads, Put(p) PROVE CfgInv'
    BY <2>0, <2>1, StoringSteps DEF Put
  <2>2. ASSUME NEW o \in Operators, RollbackStore(o) PROVE CfgInv'
    BY <2>0, <2>2, StoringSteps DEF RollbackStore
  <2>3. ASSUME NEW o \in Operators, NEW v \in DOMAIN rows, RollbackRead(o, v) PROVE CfgInv'
    <3>1. roll' \in [Operators -> Payloads \cup {Nothing}]
      BY <2>0, <2>3 DEF RollbackRead, CfgInv, PlaneShape, RowEntry
    <3>2. UNCHANGED <<ckind, retains, rows, issued, read, kept>>
      BY <2>3 DEF RollbackRead
    <3>. QED
      BY <3>1, <3>2 DEF CfgInv, PlaneShape, Newest, VersionImmutable, ReaderShape
  <2>4. ASSUME NEW v \in DOMAIN rows, Age(v) PROVE CfgInv'
    <3>1. UNCHANGED <<ckind, retains, issued, roll, read, kept>> /\ DOMAIN rows' = DOMAIN rows
      BY <2>4 DEF Age
    <3>2. \A w \in DOMAIN rows : rows'[w] \in RowEntry /\ <<w, rows'[w].payload>> \in issued
      BY <2>4 DEF Age, CfgInv, PlaneShape, RowEntry
    <3>. QED
      BY <3>1, <3>2 DEF CfgInv, PlaneShape, Newest, VersionImmutable, ReaderShape
  <2>5. CASE UNCHANGED cvars
    BY <2>5 DEF cvars, CfgInv, PlaneShape, Newest, VersionImmutable, ReaderShape
  <2>. QED
    BY <2>1, <2>2, <2>3, <2>4, <2>5, ReaderSteps DEF CfgNext
<1>3. CfgInv => VersionsStand
  <2>. SUFFICES ASSUME CfgInv PROVE VersionsStand
    OBVIOUS
  <2>1. CfgTypeOK
    BY DEF CfgInv, PlaneShape, ReaderShape, ReadStates, ReadFits, RowEntry, CfgTypeOK
  <2>2. LatestStands
    <3>. SUFFICES ASSUME issued # {} PROVE Latest = Max({x[1] : x \in issued})
      BY DEF LatestStands
    <3>. DEFINE S == {x[1] : x \in issued}
    <3>1. PICK m \in Nat : Newest(m)
      BY DEF CfgInv, PlaneShape
    <3>2. m \in DOMAIN rows /\ <<m, rows[m].payload>> \in issued
      BY <3>1 DEF Newest, CfgInv, PlaneShape
    <3>3. S \subseteq Nat /\ m \in S /\ \A y \in S : m >= y
      BY <3>1, <3>2 DEF Newest, CfgInv, PlaneShape
    <3>4. \A x \in S : (\A y \in S : x >= y) => x = m
      BY <3>3
    <3>5. Max(S) = m
      BY <3>3, <3>4 DEF Max
    <3>6. Latest = m
      BY <3>1, LatestIsNewest DEF CfgInv
    <3>. QED
      BY <3>5, <3>6
  <2>3. PinnedServed
    BY DEF CfgInv, ReaderShape, ReadFits, PinnedServed
  <2>. QED
    BY <2>1, <2>2, <2>3 DEF CfgInv, PlaneShape, VersionsStand
<1>. QED
  BY <1>1, <1>2, <1>3, PTL DEF CfgSpec

-----------------------------------------------------------------------------
(* The observability store. *)

RowSet == Batches \X Nat \X Nat

\* Rows that the order of received_at and id tells apart.
Ordered(S) == \A x, y \in S : x = y \/ Before(x, y) \/ Before(y, x)

\* The order of received_at and id is strict and transitive.
LEMMA BeforeIsAnOrder ==
    /\ \A x \in RowSet : ~Before(x, x)
    /\ \A x, y \in RowSet : Before(x, y) => ~Before(y, x)
    /\ \A x, y, z \in RowSet : Before(x, y) /\ Before(y, z) => Before(x, z)
  BY DEF RowSet, Before

\* The rows before a row, counted, give every row of a table a place of its own.
LEMMA Ranks ==
    ASSUME NEW S \in SUBSET RowSet, IsFiniteSet(S), Ordered(S)
    PROVE  LET rank == [x \in S |-> Cardinality({y \in S : Before(y, x)})]
               n == Cardinality(S)
           IN  /\ n \in Nat
               /\ rank \in [S -> 0..(n - 1)]
               /\ \A x, y \in S : Before(x, y) <=> rank[x] < rank[y]
               /\ \A x, y \in S : rank[x] = rank[y] => x = y
               /\ \A k \in 0..(n - 1) : \E x \in S : rank[x] = k
<1>. DEFINE under(x) == {y \in S : Before(y, x)}
            rank == [x \in S |-> Cardinality(under(x))]
            n == Cardinality(S)
<1>1. n \in Nat
  BY FS_CardinalityType
<1>2. \A x \in S : IsFiniteSet(under(x)) /\ Cardinality(under(x)) \in 0..(n - 1)
  <2>. SUFFICES ASSUME NEW x \in S PROVE IsFiniteSet(under(x)) /\ Cardinality(under(x)) \in 0..(n - 1)
    OBVIOUS
  <2>1. under(x) \in SUBSET S /\ x \notin under(x)
    BY BeforeIsAnOrder
  <2>2. IsFiniteSet(under(x)) /\ Cardinality(under(x)) <= n /\ Cardinality(under(x)) # n
    BY <2>1, FS_Subset
  <2>3. Cardinality(under(x)) \in Nat
    BY <2>2, FS_CardinalityType
  <2>. HIDE DEF under, n
  <2>. QED
    BY <1>1, <2>2, <2>3
<1>3. \A x, y \in S : Before(x, y) => rank[x] < rank[y]
  <2>. SUFFICES ASSUME NEW x \in S, NEW y \in S, Before(x, y) PROVE Cardinality(under(x)) < Cardinality(under(y))
    OBVIOUS
  <2>1. under(x) \in SUBSET under(y) /\ x \in under(y) /\ x \notin under(x)
    BY BeforeIsAnOrder
  <2>2. Cardinality(under(x)) <= Cardinality(under(y)) /\ Cardinality(under(x)) # Cardinality(under(y))
    BY <1>2, <2>1, FS_Subset
  <2>3. Cardinality(under(x)) \in Nat /\ Cardinality(under(y)) \in Nat
    BY <1>2, FS_CardinalityType
  <2>. HIDE DEF under
  <2>. QED
    BY <2>2, <2>3
<1>4. rank \in [S -> 0..(n - 1)]
  BY <1>2
<1>. HIDE DEF rank, n
<1>5. \A x \in S : rank[x] \in Nat
  BY <1>1, <1>4
<1>6. \A x, y \in S : Before(x, y) <=> rank[x] < rank[y]
  BY <1>3, <1>5 DEF Ordered
<1>7. \A x, y \in S : rank[x] = rank[y] => x = y
  BY <1>5, <1>3 DEF Ordered
<1>8. \A k \in 0..(n - 1) : \E x \in S : rank[x] = k
  <2>. DEFINE J == 0..(n - 1)
  <2>1. IsFiniteSet(J) /\ Cardinality(J) = n
    BY <1>1, FS_Interval
  <2>2. rank \in Injection(S, J)
    BY <1>4, <1>7, Fun_IsInj
  <2>. HIDE DEF J
  <2>3. Cardinality(S) = Cardinality(J)
    BY <2>1 DEF n
  <2>4. rank \in Surjection(S, J)
    BY <2>1, <2>2, <2>3, FS_Injection
  <2>5. \A k \in J : \E x \in S : rank[x] = k
    BY <2>4, Fun_SurjectionProperties
  <2>. QED
    BY <2>5 DEF J
<1>. QED
  BY <1>1, <1>4, <1>6, <1>7, <1>8 DEF rank, n

\* What the bound leaves of a table: at most MaxRecords rows, exactly that many
\* when rows had to go, and those that went are before all that stay.
LEMMA Trimming ==
    ASSUME ObsAssumption, NEW S \in SUBSET RowSet, IsFiniteSet(S), Ordered(S)
    PROVE  LET K == S \ Evicted(S) IN
           /\ IsFiniteSet(K) /\ Cardinality(K) <= MaxRecords
           /\ Evicted(S) # {} => Cardinality(K) = MaxRecords
           /\ Cardinality(S) >= MaxRecords => Cardinality(K) = MaxRecords
           /\ \A x \in Evicted(S), y \in K : Before(x, y)
<1>. DEFINE rank == [x \in S |-> Cardinality({y \in S : Before(y, x)})]
            n == Cardinality(S)
            E == Evicted(S)
            e == Excess(S)
<1>1. /\ n \in Nat /\ rank \in [S -> 0..(n - 1)]
      /\ \A x, y \in S : Before(x, y) <=> rank[x] < rank[y]
      /\ \A x, y \in S : rank[x] = rank[y] => x = y
      /\ \A k \in 0..(n - 1) : \E x \in S : rank[x] = k
  BY Ranks
<1>2. E = {x \in S : rank[x] < e}
  BY DEF Evicted
<1>3. MaxRecords \in Nat /\ e = IF n > MaxRecords THEN n - MaxRecords ELSE 0
  BY DEF ObsAssumption, Excess
<1>. HIDE DEF rank, n, E, e
<1>4. e \in Nat /\ e <= n
  BY <1>1, <1>3
<1>5. IsFiniteSet(E) /\ Cardinality(E) = e
  <2>. DEFINE f == [x \in E |-> rank[x]]
              I == 0..(e - 1)
  <2>1. f \in [E -> I] /\ (\A a, b \in E : f[a] = f[b] => a = b) /\ \A k \in I : \E x \in E : f[x] = k
    <3>1. \A x \in E : rank[x] \in I
      BY <1>1, <1>2, <1>4
    <3>2. \A k \in I : \E x \in E : rank[x] = k
      BY <1>1, <1>2, <1>4
    <3>3. \A a, b \in E : rank[a] = rank[b] => a = b
      BY <1>1, <1>2
    <3>. QED
      BY <3>1, <3>2, <3>3
  <2>2. f \in Bijection(E, I)
    BY <2>1, Fun_IsBij
  <2>3. IsFiniteSet(E)
    BY <1>2, FS_Subset
  <2>4. Cardinality(I) = e
    BY <1>4, FS_Interval
  <2>5. Cardinality(I) = Cardinality(E)
    BY <2>2, <2>3, FS_Bijection DEF ExistsBijection
  <2>. QED
    BY <2>3, <2>4, <2>5
<1>6. IsFiniteSet(S \ E) /\ Cardinality(S \ E) = n - e
  <2>1. S \cap E = E
    BY <1>2
  <2>. QED
    BY <1>5, <2>1, FS_Difference DEF n
<1>7. E # {} => e > 0
  BY <1>1, <1>2, <1>4
<1>8. \A x \in E, y \in S \ E : Before(x, y)
  BY <1>1, <1>2, <1>4
<1>. QED
  BY <1>1, <1>3, <1>4, <1>6, <1>7, <1>8 DEF E, n

\* A row below MaxRecords others does not survive the bound.
LEMMA LateRowEvicted ==
    ASSUME ObsAssumption, NEW S \in SUBSET RowSet, IsFiniteSet(S), Ordered(S),
           NEW T \in SUBSET S, Cardinality(T) >= MaxRecords,
           NEW y \in S, \A z \in T : Before(y, z)
    PROVE  y \in Evicted(S)
<1>. DEFINE U == {z \in S : Before(z, y)}
            n == Cardinality(S)
<1>1. y \notin T /\ U \cap (T \cup {y}) = {}
  BY BeforeIsAnOrder
<1>2. IsFiniteSet(T) /\ Cardinality(T) \in Nat /\ n \in Nat
  BY FS_Subset, FS_CardinalityType
<1>3. IsFiniteSet(T \cup {y}) /\ Cardinality(T \cup {y}) = Cardinality(T) + 1
  BY <1>1, <1>2, FS_AddElement
<1>4. IsFiniteSet(S \ (T \cup {y})) /\ Cardinality(S \ (T \cup {y})) = n - (Cardinality(T) + 1)
  <2>. DEFINE V == T \cup {y}
  <2>1. S \cap V = V
    OBVIOUS
  <2>. HIDE DEF V
  <2>2. IsFiniteSet(S \ V) /\ Cardinality(S \ V) = n - Cardinality(V)
    BY <2>1, FS_Difference
  <2>. QED
    BY <1>3, <2>2 DEF V
<1>5. U \in SUBSET (S \ (T \cup {y}))
  BY <1>1
<1>6. Cardinality(U) <= n - (Cardinality(T) + 1) /\ Cardinality(U) \in Nat
  BY <1>4, <1>5, FS_Subset, FS_CardinalityType
<1>7. MaxRecords \in Nat /\ Excess(S) = IF n > MaxRecords THEN n - MaxRecords ELSE 0
  BY DEF ObsAssumption, Excess
<1>. HIDE DEF n
<1>8. Cardinality(U) < Excess(S)
  BY <1>2, <1>6, <1>7
<1>. QED
  BY <1>8 DEF Evicted

\* Stamps: each belongs to one batch, and the stamp of a batch that is not stored
\* yet to no row.
Seen(t) == table[t] \cup lost[t]
Pushes == [pc : {"idle", "valid"}, stamp : Nat, cutoff : Nat]
StampShape ==
    /\ okind \in ObsBackends /\ clock \in 0..MaxStamps /\ cutoff \in 0..(clock + 1)
    /\ push \in [Batches -> Pushes]
    /\ \A b \in Batches :
        /\ push[b].stamp <= clock /\ push[b].cutoff <= cutoff
        /\ push[b].pc = "valid" => push[b].stamp > 0 /\ b \notin BadBatches
    /\ \A b, c \in Batches : push[b].pc = "valid" /\ push[c].pc = "valid" /\ push[b].stamp = push[c].stamp
                              => b = c
    /\ table \in [Tables -> SUBSET RowSet] /\ lost \in [Tables -> SUBSET RowSet]
    /\ \A t \in Tables : IsFiniteSet(table[t])
    /\ \A t \in Tables : \A x \in Seen(t) : x[1] \in Batches \ BadBatches /\ x[2] \in 1..clock
    /\ \A t \in Tables : \A x \in Seen(t) : \A b \in Batches :
        push[b].pc = "valid" => x[2] # push[b].stamp
    /\ \A t \in Tables : \A x, y \in Seen(t) : x[2] = y[2] => x[1] = y[1]

\* A row given up within its retention leaves a full table of newer rows, so that a
\* batch stamped earlier and committed later cannot slip in behind it.
Behind(t) ==
    /\ Cardinality(table[t]) <= MaxRecords
    /\ \A x \in lost[t] : x[2] >= cutoff =>
        Cardinality(table[t]) = MaxRecords /\ \A y \in table[t] : Before(x, y)
BoundShape == okind = "sqlite" => \A t \in Tables : Behind(t)

ObsInv == StampShape /\ BatchAtomic /\ BoundShape

\* Rows with one stamp are of one batch, so that their order is total.
LEMMA RowsOrdered ==
    ASSUME NEW S \in SUBSET RowSet, \A x, y \in S : x[2] = y[2] => x[1] = y[1]
    PROVE  Ordered(S)
<1>. SUFFICES ASSUME NEW x \in S, NEW y \in S PROVE x = y \/ Before(x, y) \/ Before(y, x)
  BY DEF Ordered
<1>1. /\ x = <<x[1], x[2], x[3]>> /\ y = <<y[1], y[2], y[3]>>
      /\ x[2] \in Nat /\ x[3] \in Nat /\ y[2] \in Nat /\ y[3] \in Nat
  BY DEF RowSet
<1>. QED
  BY <1>1 DEF Before

\* Committing one batch keeps every batch whole: what is stored or given up grows
\* by exactly the rows of this batch, in all tables.
LEMMA WholeBatches ==
    ASSUME ObsAssumption, ObsInv, NEW b \in Batches, push[b].pc = "valid",
           clock' = clock, DOMAIN table' = Tables, DOMAIN lost' = Tables,
           \A t \in Tables : Seen(t)' = Seen(t) \cup Stamped(b, t)
    PROVE  BatchAtomic'
<1>. DEFINE s0 == push[b].stamp
            In(c, s, t) == Rows(c, t, s) \subseteq Seen(t)
            None0(c, s, t) == Rows(c, t, s) \cap Seen(t) = {}
            In1(c, s, t) == Rows(c, t, s) \subseteq table'[t] \cup lost'[t]
            None1(c, s, t) == Rows(c, t, s) \cap (table'[t] \cup lost'[t]) = {}
<1>1. \A t \in Tables : table'[t] \cup lost'[t] = Seen(t) \cup Rows(b, t, s0)
  BY DEF Seen, Stamped
<1>. SUFFICES ASSUME NEW s \in 1..clock, NEW c \in Batches
              PROVE  (\A t \in Tables : In1(c, s, t)) \/ (\A t \in Tables : None1(c, s, t))
  BY DEF BatchAtomic
<1>2. (\A t \in Tables : In(c, s, t)) \/ (\A t \in Tables : None0(c, s, t))
  BY DEF ObsInv, BatchAtomic, Seen
<1>3. CASE c = b /\ s = s0
  BY <1>1, <1>3
<1>4. CASE ~(c = b /\ s = s0)
  <2>1. \A t \in Tables : Rows(c, t, s) \cap Rows(b, t, s0) = {}
    BY <1>4 DEF Rows
  <2>. QED
    BY <1>1, <1>2, <2>1
<1>. QED
  BY <1>3, <1>4

\* The rows of a batch: finitely many, with its stamp.
LEMMA StampedRows ==
    ASSUME ObsAssumption, StampShape, NEW b \in Batches, NEW t \in Tables
    PROVE  /\ IsFiniteSet(Stamped(b, t)) /\ Stamped(b, t) \in SUBSET RowSet
           /\ \A x \in Stamped(b, t) : x[1] = b /\ x[2] = push[b].stamp
<1>. DEFINE n == Contents[b][t]
            s == push[b].stamp
            f == [i \in 1..n |-> <<b, s, i>>]
<1>1. n \in Nat /\ s \in Nat
  BY DEF ObsAssumption, StampShape, Pushes
<1>. HIDE DEF n, s
<1>2. Stamped(b, t) = {<<b, s, i>> : i \in 1..n}
  BY DEF Stamped, Rows, n, s
<1>3. f \in [1..n -> Stamped(b, t)] /\ \A x \in Stamped(b, t) : \E i \in 1..n : f[i] = x
  BY <1>2
<1>. HIDE DEF f
<1>4. IsFiniteSet(1..n)
  BY <1>1, FS_Interval
<1>5. f \in Surjection(1..n, Stamped(b, t))
  BY <1>3, Fun_IsSurj
<1>6. IsFiniteSet(Stamped(b, t))
  BY <1>4, <1>5, FS_Surjection
<1>7. Stamped(b, t) \in SUBSET RowSet
  BY <1>1, <1>2 DEF RowSet
<1>. QED
  BY <1>2, <1>6, <1>7 DEF s

\* A batch is committed, in one order or another.
LEMMA CommitStamps ==
    ASSUME ObsAssumption, StampShape, NEW b \in Batches, push[b].pc = "valid",
           push' = [push EXCEPT ![b] = Quiet], UNCHANGED <<okind, clock, cutoff>>,
           table' \in [Tables -> SUBSET RowSet], lost' \in [Tables -> SUBSET RowSet],
           \A t \in Tables : IsFiniteSet(table'[t]),
           \A t \in Tables : Seen(t)' = Seen(t) \cup Stamped(b, t)
    PROVE  StampShape'
<1>1. /\ push' \in [Batches -> Pushes] /\ push'[b].pc = "idle" /\ push'[b].stamp = 0
      /\ push'[b].cutoff = 0 /\ \A c \in Batches \ {b} : push'[c] = push[c]
  BY DEF StampShape, Pushes, Quiet
<1>2. /\ clock \in Nat /\ cutoff \in Nat /\ push[b].stamp \in 1..clock /\ b \notin BadBatches
  BY DEF StampShape, Pushes, ObsAssumption
<1>3. \A c \in Batches :
        /\ push'[c].stamp <= clock /\ push'[c].cutoff <= cutoff
        /\ push'[c].pc = "valid" => push'[c].stamp > 0 /\ c \notin BadBatches
  BY <1>1, <1>2 DEF StampShape
<1>4. \A c, d \in Batches : push'[c].pc = "valid" /\ push'[d].pc = "valid" /\ push'[c].stamp = push'[d].stamp
                            => c = d
  BY <1>1 DEF StampShape
<1>5. \A t \in Tables : \A x \in Stamped(b, t) : x[1] = b /\ x[2] = push[b].stamp
  BY StampedRows
<1>6. \A t \in Tables : \A x \in Seen(t)' : x[1] \in Batches \ BadBatches /\ x[2] \in 1..clock
  BY <1>2, <1>5 DEF StampShape
<1>7. \A t \in Tables : \A x \in Seen(t)' : \A c \in Batches :
        push'[c].pc = "valid" => x[2] # push'[c].stamp
  <2>. SUFFICES ASSUME NEW t \in Tables, NEW x \in Seen(t)', NEW c \in Batches, push'[c].pc = "valid"
                PROVE  x[2] # push'[c].stamp
    OBVIOUS
  <2>1. c # b /\ push'[c] = push[c]
    BY <1>1
  <2>2. CASE x \in Seen(t)
    BY <2>1, <2>2 DEF StampShape
  <2>3. CASE x \in Stamped(b, t)
    BY <1>5, <2>1, <2>3 DEF StampShape
  <2>. QED
    BY <2>2, <2>3
<1>8. \A t \in Tables : \A x, y \in Seen(t)' : x[2] = y[2] => x[1] = y[1]
  <2>. SUFFICES ASSUME NEW t \in Tables, NEW x \in Seen(t)', NEW y \in Seen(t)', x[2] = y[2]
                PROVE  x[1] = y[1]
    OBVIOUS
  <2>1. \A z \in Seen(t) : z[2] # push[b].stamp
    BY DEF StampShape
  <2>2. \A z, w \in Seen(t) : z[2] = w[2] => z[1] = w[1]
    BY DEF StampShape
  <2>. QED
    BY <1>5, <2>1, <2>2
<1>. QED
  BY <1>1, <1>3, <1>4, <1>6, <1>7, <1>8 DEF StampShape

\* The in-memory store.
LEMMA ExtendStep ==
    ASSUME ObsAssumption, ObsInv, NEW b \in Batches, Extend(b)
    PROVE  ObsInv'
<1>1. StampShape /\ push[b].pc = "valid" /\ okind = "memory" /\ okind' = okind
  BY DEF ObsInv, Extend
<1>2. /\ push' = [push EXCEPT ![b] = Quiet] /\ UNCHANGED <<okind, clock, lost, cutoff>>
      /\ table' = [t \in Tables |-> table[t] \cup Stamped(b, t)]
  BY DEF Extend
<1>3. \A t \in Tables : Seen(t)' = Seen(t) \cup Stamped(b, t)
  BY <1>2 DEF Seen
<1>4. table \in [Tables -> SUBSET RowSet] /\ lost \in [Tables -> SUBSET RowSet]
  BY <1>1 DEF StampShape
<1>5. table' \in [Tables -> SUBSET RowSet] /\ lost' \in [Tables -> SUBSET RowSet]
  BY <1>1, <1>2, <1>4, StampedRows
<1>6. \A t \in Tables : IsFiniteSet(table'[t])
  <2>. SUFFICES ASSUME NEW t \in Tables PROVE IsFiniteSet(table'[t])
    OBVIOUS
  <2>1. IsFiniteSet(table[t]) /\ IsFiniteSet(Stamped(b, t))
    BY <1>1, StampedRows DEF StampShape
  <2>. QED
    BY <1>2, <2>1, FS_Union
<1>7. StampShape'
  BY <1>1, <1>2, <1>3, <1>5, <1>6, CommitStamps
<1>8. BatchAtomic'
  BY <1>1, <1>2, <1>3, <1>5, WholeBatches
<1>9. BoundShape'
  BY <1>1 DEF BoundShape
<1>. QED
  BY <1>7, <1>8, <1>9 DEF ObsInv

\* One table of the SQLite transaction: the rows that retention spares, less those
\* over the bound.  Whatever is given up, now or before, and is not past its
\* retention leaves a full table of newer rows.
LEMMA PurgedTable ==
    ASSUME ObsAssumption, StampShape, NEW b \in Batches, push[b].pc = "valid", NEW t \in Tables, Behind(t)
    PROVE  LET all == table[t] \cup Stamped(b, t)
               young == {x \in all : x[2] >= push[b].cutoff}
               K == young \ Evicted(young)
           IN  /\ K \in SUBSET RowSet /\ all \in SUBSET RowSet /\ K \subseteq all /\ IsFiniteSet(K)
               /\ Cardinality(K) <= MaxRecords
               /\ \A x \in lost[t] \cup (all \ K) : x[2] >= cutoff =>
                    Cardinality(K) = MaxRecords /\ \A y \in K : Before(x, y)
<1>. DEFINE new == Stamped(b, t)
            all == table[t] \cup new
            young == {x \in all : x[2] >= push[b].cutoff}
            K == young \ Evicted(young)
<1>1. /\ IsFiniteSet(new) /\ new \in SUBSET RowSet
      /\ \A x \in new : x[1] = b /\ x[2] = push[b].stamp
  BY StampedRows
<1>2. /\ table[t] \in SUBSET RowSet /\ lost[t] \in SUBSET RowSet /\ IsFiniteSet(table[t])
      /\ \A x, y \in table[t] \cup lost[t] : x[2] = y[2] => x[1] = y[1]
      /\ \A x \in table[t] \cup lost[t] : x[2] # push[b].stamp
      /\ push[b].cutoff \in Nat /\ push[b].cutoff <= cutoff /\ cutoff \in Nat
  BY DEF StampShape, Seen, Pushes
<1>. HIDE DEF new
<1>3. \A x, y \in table[t] \cup lost[t] \cup new : x[2] = y[2] => x[1] = y[1]
  BY <1>1, <1>2
<1>4. IsFiniteSet(all) /\ all \in SUBSET RowSet
  BY <1>1, <1>2, FS_Union
<1>5. young \in SUBSET RowSet /\ IsFiniteSet(young) /\ young \in SUBSET all
  BY <1>4, FS_Subset
<1>6. Ordered(young)
  BY <1>3, <1>5, RowsOrdered
<1>. DEFINE E == Evicted(young)
<1>7. /\ IsFiniteSet(K) /\ Cardinality(K) <= MaxRecords
      /\ E # {} => Cardinality(K) = MaxRecords
      /\ Cardinality(young) >= MaxRecords => Cardinality(K) = MaxRecords
      /\ \A x \in E, y \in K : Before(x, y)
  BY <1>5, <1>6, Trimming
<1>8. ASSUME NEW x \in all \ K, x[2] >= cutoff
      PROVE  Cardinality(K) = MaxRecords /\ \A y \in K : Before(x, y)
  <2>1. x[2] \in Nat
    BY <1>4 DEF RowSet
  <2>2. x \in young
    BY <1>2, <1>8, <2>1
  <2>3. x \in E
    BY <1>8, <2>2
  <2>. QED
    BY <1>7, <2>3
<1>9. ASSUME NEW x \in lost[t], x[2] >= cutoff
      PROVE  Cardinality(K) = MaxRecords /\ \A y \in K : Before(x, y)
  <2>1. Cardinality(table[t]) = MaxRecords /\ \A y \in table[t] : Before(x, y)
    BY <1>9 DEF Behind
  <2>2. x \in RowSet /\ x[2] \in Nat
    BY <1>2 DEF RowSet
  <2>3. table[t] \in SUBSET young
    <3>. SUFFICES ASSUME NEW y \in table[t] PROVE y[2] >= push[b].cutoff
      OBVIOUS
    <3>1. y[2] \in Nat /\ y[2] >= x[2]
      BY <1>2, <2>1, <2>2 DEF RowSet, Before
    <3>. QED
      BY <1>2, <1>9, <2>2, <3>1
  <2>4. Cardinality(young) >= MaxRecords
    <3>1. Cardinality(table[t]) <= Cardinality(young)
      BY <1>5, <2>3, FS_Subset
    <3>2. Cardinality(young) \in Nat /\ Cardinality(table[t]) \in Nat
      BY <1>2, <1>5, FS_CardinalityType
    <3>. HIDE DEF young
    <3>. QED
      BY <2>1, <3>1, <3>2
  <2>5. ASSUME NEW y \in K PROVE Before(x, y)
    <3>1. CASE y \in table[t]
      BY <2>1, <3>1
    <3>2. CASE y \in new
      <4>1. y \in RowSet /\ y \in young /\ y \notin Evicted(young)
        BY <1>5
      <4>2. y[2] \in Nat /\ y[2] # x[2]
        BY <1>1, <1>2, <3>2, <4>1 DEF RowSet
      <4>3. ASSUME y[2] < x[2] PROVE FALSE
        <5>1. Before(y, x)
          BY <4>3 DEF Before
        <5>2. \A z \in table[t] : Before(y, z)
          BY <1>2, <2>1, <2>2, <4>1, <5>1, BeforeIsAnOrder
        <5>3. Cardinality(table[t]) >= MaxRecords
          BY <2>1 DEF ObsAssumption
        <5>. HIDE DEF young
        <5>4. y \in Evicted(young)
          BY <1>5, <1>6, <2>3, <4>1, <5>2, <5>3, LateRowEvicted
        <5>. QED
          BY <4>1, <5>4
      <4>4. x[2] < y[2]
        BY <2>2, <4>2, <4>3
      <4>. QED
        BY <4>4 DEF Before
    <3>. QED
      BY <3>1, <3>2
  <2>. QED
    BY <1>7, <2>4, <2>5
<1>10. \A x \in lost[t] \cup (all \ K) : x[2] >= cutoff =>
            Cardinality(K) = MaxRecords /\ \A y \in K : Before(x, y)
  BY <1>8, <1>9
<1>11. K \in SUBSET RowSet /\ K \subseteq all
  BY <1>5
<1>. QED
  BY <1>4, <1>7, <1>10, <1>11 DEF new

\* The SQLite store: one transaction for the batch and the purge.
LEMMA InsertStep ==
    ASSUME ObsAssumption, ObsInv, NEW b \in Batches, InsertRows(b)
    PROVE  ObsInv'
<1>. DEFINE all(t) == table[t] \cup Stamped(b, t)
            young(t) == {x \in all(t) : x[2] >= push[b].cutoff}
            K(t) == young(t) \ Evicted(young(t))
<1>1. StampShape /\ push[b].pc = "valid" /\ okind = "sqlite"
  BY DEF ObsInv, InsertRows
<1>2. /\ push' = [push EXCEPT ![b] = Quiet] /\ UNCHANGED <<okind, clock, cutoff>>
      /\ table' = [t \in Tables |-> K(t)]
      /\ lost' = [t \in Tables |-> lost[t] \cup (all(t) \ K(t))]
  BY DEF InsertRows
<1>3. \A t \in Tables :
        /\ K(t) \in SUBSET RowSet /\ all(t) \in SUBSET RowSet /\ K(t) \subseteq all(t) /\ IsFiniteSet(K(t))
        /\ Cardinality(K(t)) <= MaxRecords
        /\ \A x \in lost[t] \cup (all(t) \ K(t)) : x[2] >= cutoff =>
                Cardinality(K(t)) = MaxRecords /\ \A y \in K(t) : Before(x, y)
  <2>. SUFFICES ASSUME NEW t \in Tables
                PROVE  /\ K(t) \in SUBSET RowSet /\ all(t) \in SUBSET RowSet /\ K(t) \subseteq all(t)
                       /\ IsFiniteSet(K(t)) /\ Cardinality(K(t)) <= MaxRecords
                       /\ \A x \in lost[t] \cup (all(t) \ K(t)) : x[2] >= cutoff =>
                            Cardinality(K(t)) = MaxRecords /\ \A y \in K(t) : Before(x, y)
    OBVIOUS
  <2>1. Behind(t)
    BY <1>1 DEF ObsInv, BoundShape
  <2>. QED
    BY <1>1, <2>1, PurgedTable
<1>4. lost \in [Tables -> SUBSET RowSet]
  BY <1>1 DEF StampShape
<1>. HIDE DEF K
<1>5. table' \in [Tables -> SUBSET RowSet] /\ lost' \in [Tables -> SUBSET RowSet]
  BY <1>2, <1>3, <1>4
<1>6. \A t \in Tables : IsFiniteSet(table'[t])
  BY <1>2, <1>3
<1>7. \A t \in Tables : Seen(t)' = Seen(t) \cup Stamped(b, t)
  <2>. SUFFICES ASSUME NEW t \in Tables PROVE Seen(t)' = Seen(t) \cup Stamped(b, t)
    OBVIOUS
  <2>1. table'[t] = K(t) /\ lost'[t] = lost[t] \cup (all(t) \ K(t)) /\ K(t) \subseteq all(t)
    BY <1>2, <1>3
  <2>. QED
    BY <2>1 DEF Seen
<1>8. StampShape'
  BY <1>1, <1>2, <1>5, <1>6, <1>7, CommitStamps
<1>9. BatchAtomic'
  BY <1>1, <1>2, <1>5, <1>7, WholeBatches
<1>10. BoundShape'
  <2>. SUFFICES ASSUME NEW t \in Tables PROVE Behind(t)'
    BY DEF BoundShape
  <2>1. table'[t] = K(t) /\ lost'[t] = lost[t] \cup (all(t) \ K(t)) /\ cutoff' = cutoff
    BY <1>2
  <2>. HIDE DEF all
  <2>. QED
    BY <1>3, <2>1 DEF Behind
<1>. QED
  BY <1>8, <1>9, <1>10 DEF ObsInv

\* A batch is kept whole and the newest rows stay, for any batches, contents, bound
\* and retention, in whatever order batches are stamped and committed.
THEOREM BatchesAreKept ==
    ASSUME ObsAssumption
    PROVE  ObsSpec => []BatchesKept
<1>1. ObsInit => ObsInv
  <2>. SUFFICES ASSUME ObsInit PROVE ObsInv
    OBVIOUS
  <2>1. \A t \in Tables : table[t] = {} /\ lost[t] = {} /\ Seen(t) = {}
    BY DEF ObsInit, Seen
  <2>2. StampShape
    BY <2>1, FS_EmptySet DEF ObsInit, StampShape, Pushes, Quiet, ObsAssumption
  <2>3. BatchAtomic
    BY DEF ObsInit, BatchAtomic
  <2>4. BoundShape
    <3>1. Cardinality({}) <= MaxRecords
      BY FS_EmptySet DEF ObsAssumption
    <3>. QED
      BY <2>1, <3>1 DEF BoundShape, Behind
  <2>. QED
    BY <2>2, <2>3, <2>4 DEF ObsInv
<1>2. ObsInv /\ [ObsNext]_ovars => ObsInv'
  <2>. SUFFICES ASSUME ObsInv, [ObsNext]_ovars PROVE ObsInv'
    OBVIOUS
  <2>0. /\ clock \in Nat /\ cutoff \in Nat /\ clock <= MaxStamps /\ cutoff <= clock + 1
        /\ push \in [Batches -> Pushes] /\ MaxStamps \in Nat
    BY DEF ObsInv, StampShape, ObsAssumption
  <2>1. ASSUME NEW b \in Batches, Validate(b) PROVE ObsInv'
    <3>1. /\ clock' = clock + 1 /\ clock < MaxStamps /\ UNCHANGED <<okind, table, lost, cutoff>>
          /\ push' = [push EXCEPT ![b] = IF b \in BadBatches THEN Quiet
                                         ELSE [pc |-> "valid", stamp |-> clock + 1, cutoff |-> cutoff]]
      BY <2>1 DEF Validate
    <3>2. /\ push' \in [Batches -> Pushes] /\ \A c \in Batches \ {b} : push'[c] = push[c]
          /\ push'[b].stamp <= clock + 1 /\ push'[b].cutoff <= cutoff
          /\ push'[b].pc = "valid" => push'[b].stamp = clock + 1 /\ b \notin BadBatches
      BY <2>0, <3>1 DEF Pushes, Quiet
    <3>3. \A c \in Batches :
            /\ push[c].stamp \in Nat /\ push[c].stamp <= clock /\ push[c].cutoff <= cutoff
            /\ push[c].pc = "valid" => push[c].stamp > 0 /\ c \notin BadBatches
      BY <2>0 DEF ObsInv, StampShape, Pushes
    <3>4. \A t \in Tables : Seen(t)' = Seen(t) /\ \A x \in Seen(t) : x[2] \in 1..clock
      BY <3>1 DEF Seen, ObsInv, StampShape
    <3>5. \A c \in Batches :
            /\ push'[c].stamp <= clock' /\ push'[c].cutoff <= cutoff'
            /\ push'[c].pc = "valid" => push'[c].stamp > 0 /\ c \notin BadBatches
      BY <2>0, <3>1, <3>2, <3>3
    <3>6. \A c, d \in Batches : push'[c].pc = "valid" /\ push'[d].pc = "valid" /\ push'[c].stamp = push'[d].stamp
                                => c = d
      <4>1. \A c, d \in Batches : push[c].pc = "valid" /\ push[d].pc = "valid" /\ push[c].stamp = push[d].stamp
                                => c = d
        BY DEF ObsInv, StampShape
      <4>2. \A c \in Batches : push[c].stamp # clock + 1
        BY <2>0, <3>3
      <4>. QED
        BY <3>2, <4>1, <4>2
    <3>7. \A t \in Tables : \A x \in Seen(t) : \A c \in Batches :
            push'[c].pc = "valid" => x[2] # push'[c].stamp
      BY <2>0, <3>2, <3>4 DEF ObsInv, StampShape
    <3>8. \A t \in Tables : \A x \in Seen(t) : x[1] \in Batches \ BadBatches /\ x[2] \in 1..clock'
      BY <2>0, <3>1, <3>4 DEF ObsInv, StampShape
    <3>9. clock' \in 0..MaxStamps /\ cutoff' \in 0..(clock' + 1)
      BY <2>0, <3>1
    <3>10. StampShape'
      BY <3>1, <3>2, <3>4, <3>5, <3>6, <3>7, <3>8, <3>9 DEF ObsInv, StampShape
    <3>11. BatchAtomic'
      <4>1. \A c \in Batches, t \in Tables : Rows(c, t, clock + 1) \cap (table[t] \cup lost[t]) = {}
        BY <2>0, <3>4 DEF Rows, Seen
      <4>2. \A s \in 1..clock' : s \in 1..clock \/ s = clock + 1
        BY <2>0, <3>1
      <4>. QED
        BY <3>1, <4>1, <4>2 DEF ObsInv, BatchAtomic
    <3>12. BoundShape'
      BY <3>1 DEF ObsInv, BoundShape, Behind
    <3>. QED
      BY <3>10, <3>11, <3>12 DEF ObsInv
  <2>2. ASSUME NEW b \in Batches, IngestDies(b) PROVE ObsInv'
    <3>1. push' = [push EXCEPT ![b] = Quiet] /\ UNCHANGED <<okind, clock, table, lost, cutoff>>
      BY <2>2 DEF IngestDies
    <3>2. /\ push' \in [Batches -> Pushes] /\ \A c \in Batches \ {b} : push'[c] = push[c]
          /\ push'[b].stamp = 0 /\ push'[b].cutoff = 0 /\ push'[b].pc = "idle"
      BY <2>0, <3>1 DEF Pushes, Quiet
    <3>3. \A t \in Tables : Seen(t)' = Seen(t)
      BY <3>1 DEF Seen
    <3>4. StampShape'
      BY <2>0, <3>1, <3>2, <3>3 DEF ObsInv, StampShape
    <3>5. BatchAtomic' /\ BoundShape'
      BY <3>1 DEF ObsInv, BatchAtomic, BoundShape, Behind
    <3>. QED
      BY <3>4, <3>5 DEF ObsInv
  <2>3. CASE TimePasses
    <3>1. cutoff <= clock /\ cutoff' = cutoff + 1 /\ UNCHANGED <<okind, clock, push, table, lost>>
      BY <2>3 DEF TimePasses
    <3>2. \A t \in Tables : Seen(t)' = Seen(t)
      BY <3>1 DEF Seen
    <3>3. \A b \in Batches : push[b].cutoff <= cutoff'
      BY <2>0, <3>1 DEF ObsInv, StampShape, Pushes
    <3>4. cutoff' \in 0..(clock + 1)
      BY <2>0, <3>1
    <3>5. StampShape'
      BY <3>1, <3>2, <3>3, <3>4 DEF ObsInv, StampShape
    <3>6. BoundShape'
      <4>. SUFFICES ASSUME okind = "sqlite", NEW t \in Tables PROVE Behind(t)'
        BY <3>1 DEF BoundShape
      <4>1. Behind(t)
        BY DEF ObsInv, BoundShape
      <4>2. \A x \in lost[t] : x[2] \in Nat
        BY DEF ObsInv, StampShape, RowSet
      <4>3. \A x \in lost[t] : x[2] >= cutoff + 1 => x[2] >= cutoff
        BY <2>0, <4>2
      <4>. QED
        BY <3>1, <4>1, <4>3 DEF Behind
    <3>7. BatchAtomic'
      BY <3>1 DEF ObsInv, BatchAtomic
    <3>. QED
      BY <3>5, <3>6, <3>7 DEF ObsInv
  <2>4. CASE UNCHANGED ovars
    BY <2>4 DEF ovars, ObsInv, StampShape, Seen, BatchAtomic, BoundShape, Behind
  <2>. QED
    BY <2>1, <2>2, <2>3, <2>4, ExtendStep, InsertStep DEF ObsNext
<1>3. ObsInv => BatchesKept
  <2>. SUFFICES ASSUME ObsInv PROVE BatchesKept
    OBVIOUS
  <2>1. ObsTypeOK
    <3>1. /\ clock \in Nat /\ cutoff \in Nat /\ clock <= MaxStamps /\ cutoff <= clock + 1 /\ MaxStamps \in Nat
      BY DEF ObsInv, StampShape, ObsAssumption
    <3>2. \A b \in Batches : push[b].pc \in {"idle", "valid"} /\ {push[b].stamp, push[b].cutoff} \subseteq 0..MaxStamps + 1
      BY <3>1 DEF ObsInv, StampShape, Pushes
    <3>3. \A t \in Tables : \A x \in table[t] \cup lost[t] : x[1] \in Batches \ BadBatches /\ x[2] \in 1..clock
      BY DEF ObsInv, StampShape, Seen
    <3>4. okind \in ObsBackends /\ clock \in 0..MaxStamps /\ cutoff \in 0..MaxStamps + 1
      BY <3>1 DEF ObsInv, StampShape
    <3>. QED
      BY <3>2, <3>3, <3>4 DEF ObsTypeOK
  <2>2. NewestKept
    <3>. SUFFICES ASSUME okind = "sqlite", NEW t \in Tables
                  PROVE  /\ Cardinality(table[t]) <= MaxRecords
                         /\ \A x \in lost[t], y \in table[t] : x[2] < cutoff \/ Before(x, y)
      BY DEF NewestKept
    <3>1. Behind(t)
      BY DEF ObsInv, BoundShape
    <3>2. cutoff \in Nat /\ \A x \in lost[t] : x[2] \in Nat
      BY DEF ObsInv, StampShape, RowSet
    <3>3. \A x \in lost[t] : x[2] < cutoff \/ x[2] >= cutoff
      BY <3>2
    <3>. QED
      BY <3>1, <3>3 DEF Behind
  <2>. QED
    BY <2>1, <2>2 DEF ObsInv, BatchesKept
<1>. QED
  BY <1>1, <1>2, <1>3, PTL DEF ObsSpec

-----------------------------------------------------------------------------
(* The probes of the gateway's shared circuit. *)

\* What is left to do after a call.
Plans == {<<>>, <<"release", "record">>, <<"record", "release">>, <<"release">>, <<"record">>}
Entries == [pc : {"idle", "select", "check", "circuit", "lease", "call", "after", "done", "streaming"},
            retry : BOOLEAN, stream : BOOLEAN, todo : Seq(Targets), sent : SUBSET Targets,
            outcome : {None, "success", "failure"}, after : Plans, leased : BOOLEAN, probe : Nat,
            held : BOOLEAN, status : {"none", "2xx", "4xx", "429", "5xx", "503"}]
Circuits == [fails : Nat, open : Opens, probe : BOOLEAN, times : Nat]

\* A request carries a probe only between the circuit's consent and the record of
\* its outcome, except when it is finished with all its targets.
Fits(x) ==
    /\ x.pc \in {"idle", "select", "check", "circuit"} => x.probe = 0
    /\ x.pc \in {"check", "circuit", "lease", "call", "streaming", "after"} => Len(x.todo) > 0
    /\ x.pc = "after" => x.after # <<>>
    /\ x.pc = "after" /\ x.after = <<"release">> => x.probe = 0 \/ x.outcome = None
    /\ x.pc = "done" => x.probe = 0 \/ Len(x.todo) = 0

\* The n-th opening of a circuit had its probe: it is over, or the probe is marked.
Marked(n, c) == n <= c.times /\ (n = c.times => c.open # "open" /\ (c.open = "cooled" => c.probe))
Probing(x) == x.probe > 0 /\ Len(x.todo) > 0

GatewayShape ==
    /\ setup \in Setups
    /\ req \in [Requests -> Entries] /\ circuit \in [Targets -> Circuits]
    /\ \A q \in Requests : Fits(req[q])
ProbesMarked == \A q \in Requests : Probing(req[q]) => Marked(req[q].probe, circuit[Head(req[q].todo)])
ProbesApart ==
    \A p, q \in Requests : p # q /\ Probing(req[p]) /\ Probing(req[q]) /\ Head(req[p].todo) = Head(req[q].todo)
        => req[p].probe # req[q].probe

ProbeInv == GatewayShape /\ ProbesMarked /\ ProbesApart

\* A non-empty list of targets starts with a target.
LEMMA FirstTarget ==
    ASSUME NEW s \in Seq(Targets), Len(s) > 0
    PROVE  Head(s) \in Targets /\ Tail(s) \in Seq(Targets) /\ Len(Tail(s)) = Len(s) - 1 /\ Len(s) \in Nat
<1>1. s # <<>>
  OBVIOUS
<1>. QED
  BY <1>1, HeadTailProperties

\* One request moves, perhaps with a change of circuits that loses no mark.
LEMMA RequestMoves ==
    ASSUME ProbeInv, NEW q \in Requests, NEW x \in Entries, Fits(x), setup' = setup,
           req' = [req EXCEPT ![q] = x], circuit' \in [Targets -> Circuits],
           \A t \in Targets : \A n \in Nat : n > 0 /\ Marked(n, circuit[t]) => Marked(n, circuit'[t]),
           Probing(x) => Marked(x.probe, circuit'[Head(x.todo)]),
           \A p \in Requests \ {q} : Probing(x) /\ Probing(req[p]) /\ Head(req[p].todo) = Head(x.todo)
                                      => req[p].probe # x.probe
    PROVE  ProbeInv'
<1>1. /\ req' \in [Requests -> Entries] /\ req'[q] = x
      /\ \A p \in Requests \ {q} : req'[p] = req[p] /\ req[p] \in Entries
  BY DEF ProbeInv, GatewayShape
<1>2. GatewayShape'
  BY <1>1 DEF ProbeInv, GatewayShape
<1>3. ProbesMarked'
  <2>. SUFFICES ASSUME NEW p \in Requests, Probing(req'[p])
                PROVE  Marked(req'[p].probe, circuit'[Head(req'[p].todo)])
    BY DEF ProbesMarked
  <2>1. CASE p = q
    BY <1>1, <2>1
  <2>2. CASE p # q
    <3>1. req'[p] = req[p] /\ req[p].todo \in Seq(Targets) /\ req[p].probe \in Nat /\ Probing(req[p])
      BY <1>1, <2>2 DEF Entries
    <3>2. Head(req[p].todo) \in Targets
      BY <3>1, FirstTarget DEF Probing
    <3>3. Marked(req[p].probe, circuit[Head(req[p].todo)])
      BY <3>1 DEF ProbeInv, ProbesMarked
    <3>. QED
      BY <3>1, <3>2, <3>3 DEF Probing
  <2>. QED
    BY <2>1, <2>2
<1>4. ProbesApart'
  BY <1>1 DEF ProbeInv, ProbesApart
<1>. QED
  BY <1>2, <1>3, <1>4 DEF ProbeInv

\* A request moves and keeps its probe at its target, or has none.
LEMMA ProbeKept ==
    ASSUME ProbeInv, NEW q \in Requests, NEW x \in Entries, Fits(x), setup' = setup,
           req' = [req EXCEPT ![q] = x], circuit' = circuit,
           Probing(x) => x.probe = req[q].probe /\ x.todo = req[q].todo
    PROVE  ProbeInv'
<1>1. circuit' \in [Targets -> Circuits]
  BY DEF ProbeInv, GatewayShape
<1>2. Probing(x) => Marked(x.probe, circuit'[Head(x.todo)])
  BY DEF ProbeInv, ProbesMarked, Probing
<1>3. \A p \in Requests \ {q} : Probing(x) /\ Probing(req[p]) /\ Head(req[p].todo) = Head(x.todo)
                                => req[p].probe # x.probe
  BY DEF ProbeInv, ProbesApart, Probing
<1>. QED
  BY <1>1, <1>2, <1>3, RequestMoves

\* The request moves without a probe, whatever becomes of the circuits.
LEMMA ProbeNone ==
    ASSUME ProbeInv, NEW q \in Requests, NEW x \in Entries, Fits(x), setup' = setup,
           req' = [req EXCEPT ![q] = x], circuit' \in [Targets -> Circuits],
           \A t \in Targets : \A n \in Nat : n > 0 /\ Marked(n, circuit[t]) => Marked(n, circuit'[t]),
           x.probe = 0
    PROVE  ProbeInv'
<1>1. ~Probing(x)
  BY DEF Probing
<1>. QED
  BY <1>1, RequestMoves

\* A request without a probe goes on to its next target, or ends.
LEMMA OnwardFits ==
    ASSUME NEW q, NEW rec \in Entries, Len(rec.todo) > 0, rec.probe = 0
    PROVE  Onward(q, rec) \in Entries /\ Fits(Onward(q, rec)) /\ Onward(q, rec).probe = 0
<1>1. rec.todo \in Seq(Targets)
  BY DEF Entries
<1>2. Tail(rec.todo) \in Seq(Targets) /\ Len(Tail(rec.todo)) = Len(rec.todo) - 1 /\ Len(rec.todo) \in Nat
  BY <1>1, FirstTarget
<1>3. CASE Len(rec.todo) > 1
  <2>. DEFINE x == [rec EXCEPT !.pc = "check", !.todo = Tail(rec.todo)]
  <2>1. x \in Entries /\ x.pc = "check" /\ x.probe = 0 /\ x.todo = Tail(rec.todo)
    BY <1>2 DEF Entries
  <2>2. Onward(q, rec) = x
    BY <1>3 DEF Onward
  <2>3. Len(x.todo) > 0
    BY <1>2, <1>3, <2>1
  <2>. HIDE DEF x
  <2>. QED
    BY <2>1, <2>2, <2>3 DEF Fits
<1>4. CASE ~(Len(rec.todo) > 1)
  <2>. DEFINE x == [rec EXCEPT !.pc = "done", !.todo = <<>>,
                               !.status = IF rec.status = "none" THEN "503" ELSE rec.status]
  <2>1. x \in Entries /\ x.pc = "done" /\ x.probe = 0
    BY EmptySeq DEF Entries
  <2>2. Onward(q, rec) = x
    BY <1>4 DEF Onward
  <2>. HIDE DEF x
  <2>. QED
    BY <2>1, <2>2 DEF Fits
<1>. QED
  BY <1>3, <1>4

\* The plans, one step shorter.
LEMMA PlanSteps ==
    ASSUME NEW s \in Plans, s # <<>>
    PROVE  /\ Head(s) \in {"record", "release"}
           /\ Len(s) > 1 => Tail(s) \in Plans /\ Tail(s) # <<>>
           /\ Len(s) > 1 /\ Tail(s) = <<"release">> => Head(s) = "record"
           /\ ~(Len(s) > 1) /\ Head(s) = "release" => s = <<"release">>
<1>1. CASE s = <<"release", "record">>
  BY <1>1 DEF Plans
<1>2. CASE s = <<"record", "release">>
  BY <1>2 DEF Plans
<1>3. CASE s = <<"release">>
  BY <1>3 DEF Plans
<1>4. CASE s = <<"record">>
  BY <1>4 DEF Plans
<1>. QED
  BY <1>1, <1>2, <1>3, <1>4 DEF Plans

\* One of the steps after a call is done.
LEMMA FinishFits ==
    ASSUME NEW q, NEW rec \in Entries, rec.pc = "after", rec.after # <<>>, Len(rec.todo) > 0,
           Len(rec.after) > 1 /\ Tail(rec.after) = <<"release">> => rec.probe = 0 \/ rec.outcome = None,
           ~(Len(rec.after) > 1) => rec.probe = 0 \/ rec.outcome = None
    PROVE  /\ Finish(q, rec) \in Entries /\ Fits(Finish(q, rec)) /\ Finish(q, rec).probe = rec.probe
           /\ Probing(Finish(q, rec)) => Finish(q, rec).todo = rec.todo
<1>1. rec.after \in Plans /\ rec.todo \in Seq(Targets)
  BY DEF Entries
<1>2. CASE Len(rec.after) > 1
  <2>. DEFINE x == [rec EXCEPT !.after = Tail(rec.after)]
  <2>1. Tail(rec.after) \in Plans /\ Tail(rec.after) # <<>>
    BY <1>1, <1>2, PlanSteps
  <2>2. /\ x \in Entries /\ x.pc = "after" /\ x.probe = rec.probe /\ x.todo = rec.todo
        /\ x.after = Tail(rec.after) /\ x.outcome = rec.outcome
    BY <2>1 DEF Entries
  <2>3. Finish(q, rec) = x
    BY <1>2 DEF Finish
  <2>. HIDE DEF x
  <2>. QED
    BY <1>2, <2>1, <2>2, <2>3 DEF Fits
<1>3. CASE ~(Len(rec.after) > 1)
  <2>. DEFINE end == [rec EXCEPT !.after = <<>>, !.outcome = None]
  <2>1. end \in Entries /\ end.probe = rec.probe /\ end.todo = rec.todo
    BY DEF Entries, Plans
  <2>2. CASE rec.outcome = "failure" /\ rec.status # "2xx"
    <3>1. rec.probe = 0
      BY <1>3, <2>2 DEF None
    <3>2. Finish(q, rec) = Onward(q, end)
      BY <1>3, <2>2 DEF Finish
    <3>. HIDE DEF end
    <3>3. Onward(q, end) \in Entries /\ Fits(Onward(q, end)) /\ Onward(q, end).probe = 0
      BY <2>1, <3>1, OnwardFits
    <3>. QED
      BY <3>1, <3>2, <3>3 DEF Probing
  <2>3. CASE ~(rec.outcome = "failure" /\ rec.status # "2xx")
    <3>. DEFINE x == [end EXCEPT !.pc = "done", !.todo = <<>>]
    <3>1. Finish(q, rec) = x
      BY <1>3, <2>3 DEF Finish
    <3>. HIDE DEF end
    <3>2. x \in Entries /\ x.pc = "done" /\ x.todo = <<>> /\ x.probe = rec.probe
      BY <2>1, EmptySeq DEF Entries
    <3>3. Len(x.todo) = 0
      BY <3>2
    <3>. HIDE DEF x
    <3>. QED
      BY <3>1, <3>2, <3>3 DEF Fits, Probing
  <2>. QED
    BY <2>2, <2>3
<1>. QED
  BY <1>2, <1>3

\* The state of a request that an action finds, and what follows from its place.
LEMMA EntryOf ==
    ASSUME ProbeInv, NEW q \in Requests
    PROVE  /\ req[q] \in Entries /\ Fits(req[q]) /\ req[q].todo \in Seq(Targets) /\ req[q].probe \in Nat
           /\ req[q].after \in Plans
           /\ Len(req[q].todo) > 0 => Target(q) \in Targets
<1>1. req[q] \in Entries /\ Fits(req[q])
  BY DEF ProbeInv, GatewayShape
<1>2. req[q].todo \in Seq(Targets) /\ req[q].probe \in Nat /\ req[q].after \in Plans
  BY <1>1 DEF Entries
<1>. QED
  BY <1>1, <1>2, FirstTarget DEF Target

\* A rotation of available targets is a list of targets.
LEMMA Rotation ==
    ASSUME NEW route \in Seq(Targets), NEW S \in SUBSET DOMAIN route, setup.order = route,
           NEW ready \in InOrder(S), ready # <<>>, NEW k \in Nat
    PROVE  LET start == k % Len(ready)
               order == SubSeq(ready, start + 1, Len(ready)) \o SubSeq(ready, 1, start)
           IN  /\ start \in Nat
               /\ order \in Seq(Targets) /\ Len(order) > 0
               /\ <<order[1]>> \in Seq(Targets) /\ Len(<<order[1]>>) > 0
<1>. DEFINE n == Cardinality(S)
<1>1. DOMAIN route = 1..Len(route) /\ Len(route) \in Nat /\ \A i \in DOMAIN route : route[i] \in Targets
  OBVIOUS
<1>2. n \in Nat
  <2>1. IsFiniteSet(DOMAIN route)
    BY <1>1, FS_Interval
  <2>2. IsFiniteSet(S)
    BY <2>1, FS_Subset
  <2>. QED
    BY <2>2, FS_CardinalityType
<1>3. PICK f \in [1..n -> S] : ready = [i \in 1..n |-> route[f[i]]]
  BY DEF InOrder
<1>. HIDE DEF n
<1>4. \A i \in 1..n : route[f[i]] \in Targets
  BY <1>1
<1>5. ready \in Seq(Targets) /\ Len(ready) = n
  BY <1>2, <1>3, <1>4
<1>6. n > 0
  BY <1>5, EmptySeq
<1>. DEFINE start == k % Len(ready)
            a == SubSeq(ready, start + 1, Len(ready))
            b == SubSeq(ready, 1, start)
<1>7. start \in 0..(n - 1)
  BY <1>2, <1>5, <1>6
<1>8. \A i \in 1..n : ready[i] \in Targets
  BY <1>3, <1>4
<1>9. a \in Seq(Targets) /\ Len(a) = n - start
  <2>1. \A i \in (start + 1)..Len(ready) : ready[i] \in Targets
    BY <1>2, <1>5, <1>7, <1>8
  <2>2. start + 1 \in Int /\ Len(ready) \in Int /\ start + 1 <= Len(ready)
    BY <1>2, <1>5, <1>7
  <2>. HIDE DEF start
  <2>. QED
    BY <1>2, <1>5, <1>7, <2>1, <2>2, SubSeqProperties
<1>10. b \in Seq(Targets) /\ Len(b) \in Nat
  <2>1. \A i \in 1..start : ready[i] \in Targets
    BY <1>2, <1>7, <1>8
  <2>. HIDE DEF start
  <2>2. start \in Int
    BY <1>2, <1>7
  <2>3. b \in Seq(Targets)
    BY <2>1, <2>2, SubSeqProperties
  <2>. QED
    BY <2>3, LenProperties
<1>. HIDE DEF a, b, start
<1>11. a \o b \in Seq(Targets) /\ Len(a \o b) > 0
  BY <1>2, <1>7, <1>9, <1>10, ConcatProperties
<1>12. (a \o b)[1] \in Targets
  <2>. DEFINE c == a \o b
  <2>1. c \in Seq(Targets) /\ Len(c) > 0
    BY <1>11
  <2>. HIDE DEF c
  <2>2. 1 \in 1..Len(c)
    BY <2>1
  <2>3. c[1] \in Targets
    BY <2>1, <2>2
  <2>. QED
    BY <2>3 DEF c
<1>13. <<(a \o b)[1]>> \in Seq(Targets) /\ Len(<<(a \o b)[1]>>) > 0
  <2>1. \A e \in Targets : <<e>> \in Seq(Targets) /\ Len(<<e>>) > 0
    OBVIOUS
  <2>. QED
    BY <1>12, <2>1
<1>14. start \in Nat
  BY <1>2, <1>7
<1>. QED
  BY <1>11, <1>13, <1>14 DEF a, b, start

\* The round-robin counters stay numbers.
LEMMA TurnCounts ==
    ASSUME NEW f \in [Replicas -> Nat], NEW r \in Replicas, NEW n \in Nat
    PROVE  [f EXCEPT ![r] = n] \in [Replicas -> Nat]
  OBVIOUS

\* Arrival and selection: no probe yet.
LEMMA ArrivalSteps ==
    ASSUME GatewayAssumption, ProbeInv, turn \in [Replicas -> Nat], NEW q \in Requests,
           Denied(q) \/ RateLimit(q) \/ RateStoreFails(q) \/ Select(q)
    PROVE  ProbeInv'
<1>1. /\ req[q] \in Entries /\ Fits(req[q]) /\ req[q].todo \in Seq(Targets)
  BY EntryOf
<1>2. req \in [Requests -> Entries] /\ setup' = setup /\ circuit' = circuit
  BY DEF ProbeInv, GatewayShape, Denied, RateLimit, RateStoreFails, Select
<1>3. req[q].probe = 0
  BY <1>1 DEF Denied, RateLimit, RateStoreFails, Select, At, Fits
<1>4. ASSUME req' = [req EXCEPT ![q].pc = "done", ![q].status = "4xx"] PROVE ProbeInv'
  <2>. DEFINE x == [req[q] EXCEPT !.pc = "done", !.status = "4xx"]
  <2>1. x \in Entries /\ x.pc = "done" /\ x.probe = 0
    BY <1>1, <1>3 DEF Entries
  <2>2. req' = [req EXCEPT ![q] = x]
    BY <1>2, <1>4
  <2>. HIDE DEF x
  <2>3. Fits(x) /\ ~Probing(x)
    BY <2>1 DEF Fits, Probing
  <2>. QED
    BY <1>2, <2>1, <2>2, <2>3, ProbeKept
<1>5. ASSUME Refuse(q) PROVE ProbeInv'
  <2>. DEFINE x == [req[q] EXCEPT !.pc = "done", !.status = "503", !.todo = <<>>]
  <2>1. x \in Entries /\ x.pc = "done" /\ x.probe = 0
    BY <1>1, <1>3, EmptySeq DEF Entries
  <2>2. req' = [req EXCEPT ![q] = x]
    BY <1>2, <1>5 DEF Refuse
  <2>. HIDE DEF x
  <2>3. Fits(x) /\ ~Probing(x)
    BY <2>1 DEF Fits, Probing
  <2>. QED
    BY <1>2, <2>1, <2>2, <2>3, ProbeKept
<1>6. CASE RateLimit(q)
  <2>1. PICK retry \in BOOLEAN, stream \in BOOLEAN, ok \in BOOLEAN :
          req' = [req EXCEPT ![q].retry = retry, ![q].stream = stream,
                             ![q].pc = IF ok THEN "select" ELSE "done",
                             ![q].status = IF ok THEN @ ELSE "429"]
    <3>1. setup.retries \subseteq BOOLEAN /\ setup.streams \subseteq BOOLEAN
      BY DEF GatewayAssumption, SetupOK, ProbeInv, GatewayShape
    <3>. DEFINE have == LET c == CallerOf[q]
                            p == PlaceOf(q)
                        IN  IF c \in DOMAIN bucket[p] THEN bucket[p][c] ELSE Rate
                ok == have >= 1
    <3>2. PICK retry \in setup.retries, stream \in setup.streams :
            req' = [req EXCEPT ![q].retry = retry, ![q].stream = stream,
                               ![q].pc = IF ok THEN "select" ELSE "done",
                               ![q].status = IF ok THEN @ ELSE "429"]
      BY <1>6 DEF RateLimit
    <3>. HIDE DEF have
    <3>3. CASE ok
      BY <3>1, <3>2, <3>3
    <3>4. CASE ~ok
      BY <3>1, <3>2, <3>4
    <3>. QED
      BY <3>3, <3>4
  <2>. DEFINE x == [req[q] EXCEPT !.retry = retry, !.stream = stream,
                                  !.pc = IF ok THEN "select" ELSE "done",
                                  !.status = IF ok THEN req[q].status ELSE "429"]
  <2>2. x \in Entries /\ x.pc \in {"select", "done"} /\ x.probe = 0
    BY <1>1, <1>3 DEF Entries
  <2>3. req' = [req EXCEPT ![q] = x]
    BY <1>2, <2>1
  <2>. HIDE DEF x
  <2>4. Fits(x) /\ ~Probing(x)
    BY <2>2 DEF Fits, Probing
  <2>. QED
    BY <1>2, <2>2, <2>3, <2>4, ProbeKept
<1>7. CASE Select(q)
  <2>. DEFINE S == {i \in DOMAIN setup.order : Available(local[Here(q)][setup.order[i]])}
              k == turn[Here(q)]
  <2>1. setup.order \in Seq(Targets) /\ S \in SUBSET DOMAIN setup.order
    BY DEF GatewayAssumption, SetupOK, ProbeInv, GatewayShape
  <2>2. k \in Nat
    BY <1>7 DEF Select, At, Here, GatewayAssumption, SetupOK, ProbeInv, GatewayShape
  <2>3. PICK ready \in InOrder(S) :
          LET start == k % Len(ready)
              order == SubSeq(ready, start + 1, Len(ready)) \o SubSeq(ready, 1, start)
          IN  \/ ready = <<>> /\ Refuse(q)
              \/ /\ ready # <<>>
                 /\ \/ req' = [req EXCEPT ![q].pc = "check",
                                          ![q].todo = IF req[q].retry THEN order ELSE <<order[1]>>]
                    \/ req' = [req EXCEPT ![q].pc = "done", ![q].status = "4xx"]
    BY <1>7 DEF Select
  <2>. DEFINE start == k % Len(ready)
              order == SubSeq(ready, start + 1, Len(ready)) \o SubSeq(ready, 1, start)
              todo == IF req[q].retry THEN order ELSE <<order[1]>>
  <2>4. CASE ready # <<>> /\ req' = [req EXCEPT ![q].pc = "check", ![q].todo = todo]
    <3>1. /\ order \in Seq(Targets) /\ Len(order) > 0
          /\ <<order[1]>> \in Seq(Targets) /\ Len(<<order[1]>>) > 0
      BY <2>1, <2>2, <2>4, Rotation
    <3>2. todo \in Seq(Targets) /\ Len(todo) > 0
      BY <3>1
    <3>. HIDE DEF todo
    <3>. DEFINE x == [req[q] EXCEPT !.pc = "check", !.todo = todo]
    <3>3. x \in Entries /\ x.pc = "check" /\ x.probe = 0 /\ x.todo = todo
      BY <1>1, <1>3, <3>2 DEF Entries
    <3>4. req' = [req EXCEPT ![q] = x]
      BY <1>2, <2>4
    <3>. HIDE DEF x
    <3>5. Fits(x) /\ ~Probing(x)
      BY <3>2, <3>3 DEF Fits, Probing
    <3>. QED
      BY <1>2, <3>3, <3>4, <3>5, ProbeKept
  <2>. QED
    BY <1>4, <1>5, <2>3, <2>4
<1>. QED
  BY <1>4, <1>5, <1>6, <1>7 DEF Denied, RateStoreFails

\* A target is passed over.
LEMMA SkipStep ==
    ASSUME ProbeInv, NEW q \in Requests, Len(req[q].todo) > 0, req[q].probe = 0, Skip(q),
           setup' = setup, circuit' \in [Targets -> Circuits],
           \A t \in Targets : \A n \in Nat : n > 0 /\ Marked(n, circuit[t]) => Marked(n, circuit'[t])
    PROVE  ProbeInv'
<1>. DEFINE x == Onward(q, req[q])
<1>1. x \in Entries /\ Fits(x) /\ x.probe = 0
  BY EntryOf, OnwardFits
<1>2. req' = [req EXCEPT ![q] = x]
  BY DEF Skip
<1>. HIDE DEF x
<1>. QED
  BY <1>1, <1>2, ProbeNone

\* The local circuit and slot.
LEMMA CheckStep ==
    ASSUME ProbeInv, NEW q \in Requests, CheckTarget(q)
    PROVE  ProbeInv'
<1>1. req[q] \in Entries /\ Fits(req[q]) /\ (Len(req[q].todo) > 0 => Target(q) \in Targets)
  BY EntryOf
<1>2. /\ req \in [Requests -> Entries] /\ setup' = setup /\ circuit' = circuit
      /\ circuit \in [Targets -> Circuits]
  BY DEF ProbeInv, GatewayShape, CheckTarget
<1>3. req[q].pc = "check" /\ req[q].probe = 0 /\ Len(req[q].todo) > 0
  BY <1>1 DEF CheckTarget, At, Fits
<1>4. CASE Skip(q)
  BY <1>2, <1>3, <1>4, SkipStep
<1>5. CASE req' = [req EXCEPT ![q].pc = "call", ![q].held = TRUE, ![q].sent = @ \cup {Target(q)}]
  <2>. DEFINE x == [req[q] EXCEPT !.pc = "call", !.held = TRUE, !.sent = req[q].sent \cup {Target(q)}]
  <2>1. x \in Entries /\ x.pc = "call" /\ x.probe = 0 /\ x.todo = req[q].todo
    BY <1>1, <1>3 DEF Entries
  <2>2. req' = [req EXCEPT ![q] = x]
    BY <1>2, <1>5
  <2>. HIDE DEF x
  <2>3. Fits(x) /\ ~Probing(x)
    BY <1>3, <2>1 DEF Fits, Probing
  <2>. QED
    BY <1>2, <2>1, <2>2, <2>3, ProbeKept
<1>6. CASE req' = [req EXCEPT ![q].pc = "circuit"]
  <2>. DEFINE x == [req[q] EXCEPT !.pc = "circuit"]
  <2>1. x \in Entries /\ x.pc = "circuit" /\ x.probe = 0 /\ x.todo = req[q].todo
    BY <1>1, <1>3 DEF Entries
  <2>2. req' = [req EXCEPT ![q] = x]
    BY <1>2, <1>6
  <2>. HIDE DEF x
  <2>3. Fits(x) /\ ~Probing(x)
    BY <1>3, <2>1 DEF Fits, Probing
  <2>. QED
    BY <1>2, <2>1, <2>2, <2>3, ProbeKept
<1>. QED
  BY <1>4, <1>5, <1>6 DEF CheckTarget, TakeSlot

\* The script circuit_available: the one step at which a probe is let through.  No
\* other request can hold the probe of this opening, for it would be marked.
LEMMA CircuitStep ==
    ASSUME ProbeInv, NEW q \in Requests, SharedCircuit(q)
    PROVE  ProbeInv'
<1>. DEFINE t == Target(q)
            c == circuit[t]
            probes == c.open = "cooled"
            d == [c EXCEPT !.probe = c.probe \/ probes]
<1>1. /\ req[q] \in Entries /\ Fits(req[q]) /\ req[q].pc = "circuit" /\ req[q].probe = 0
      /\ Len(req[q].todo) > 0 /\ t \in Targets
  BY EntryOf DEF SharedCircuit, At, Fits
<1>2. /\ req \in [Requests -> Entries] /\ setup' = setup /\ circuit \in [Targets -> Circuits] /\ c \in Circuits
  BY <1>1 DEF ProbeInv, GatewayShape, SharedCircuit
<1>. HIDE DEF c
<1>3. CASE Skip(q) /\ circuit' = circuit
  BY <1>1, <1>2, <1>3, SkipStep
<1>4. CASE /\ ~(c.open = "open" \/ (probes /\ c.probe))
           /\ circuit' = [circuit EXCEPT ![t].probe = @ \/ probes]
  <2>1. /\ d \in Circuits /\ d.probe = (c.probe \/ probes) /\ d.open = c.open /\ d.times = c.times
        /\ c.open # "open" /\ c.times \in Nat
    BY <1>2, <1>4 DEF Circuits
  <2>. HIDE DEF d
  <2>2. circuit' = [circuit EXCEPT ![t] = d]
    BY <1>2, <1>4 DEF d, c
  <2>3. /\ circuit' \in [Targets -> Circuits] /\ circuit'[t] = d
        /\ \A u \in Targets \ {t} : circuit'[u] = circuit[u]
    BY <1>1, <1>2, <2>1, <2>2
  <2>4. \A u \in Targets : \A n \in Nat : n > 0 /\ Marked(n, circuit[u]) => Marked(n, circuit'[u])
    BY <2>1, <2>3 DEF Marked, c
  <2>5. CASE Skip(q)
    BY <1>1, <1>2, <2>3, <2>4, <2>5, SkipStep
  <2>6. CASE req' = [req EXCEPT ![q].pc = "lease", ![q].held = TRUE,
                                ![q].probe = IF probes THEN c.times ELSE 0]
    <3>. DEFINE n == IF probes THEN c.times ELSE 0
                x == [req[q] EXCEPT !.pc = "lease", !.held = TRUE, !.probe = n]
    <3>1. n \in Nat
      BY <2>1
    <3>2. n > 0 => probes /\ n = c.times
      OBVIOUS
    <3>3. req' = [req EXCEPT ![q] = x]
      BY <1>2, <2>6
    <3>. HIDE DEF n, probes
    <3>4. x \in Entries /\ x.pc = "lease" /\ x.probe = n /\ x.todo = req[q].todo
      BY <1>1, <3>1 DEF Entries
    <3>. HIDE DEF x
    <3>5. Fits(x) /\ Head(x.todo) = t
      BY <1>1, <3>4 DEF Fits, Target
    <3>6. Probing(x) => Marked(x.probe, circuit'[Head(x.todo)])
      <4>. SUFFICES ASSUME Probing(x) PROVE Marked(x.probe, d)
        BY <2>3, <3>5
      <4>1. probes /\ x.probe = c.times
        BY <3>2, <3>4 DEF Probing
      <4>2. d.probe
        BY <2>1, <4>1
      <4>. QED
        BY <2>1, <4>1, <4>2 DEF Marked
    <3>7. \A p \in Requests \ {q} : Probing(x) /\ Probing(req[p]) /\ Head(req[p].todo) = Head(x.todo)
                                    => req[p].probe # x.probe
      <4>. SUFFICES ASSUME NEW p \in Requests \ {q}, Probing(x), Probing(req[p]), Head(req[p].todo) = t,
                           req[p].probe = c.times, probes
                    PROVE  FALSE
        BY <3>2, <3>4, <3>5 DEF Probing
      <4>1. Marked(c.times, c)
        BY DEF ProbeInv, ProbesMarked, c
      <4>. QED
        BY <1>4, <4>1 DEF Marked, probes
    <3>. QED
      BY <1>2, <2>3, <2>4, <3>3, <3>4, <3>5, <3>6, <3>7, RequestMoves
  <2>. QED
    BY <2>5, <2>6 DEF SharedCircuit, c
<1>. QED
  BY <1>3, <1>4 DEF SharedCircuit, c

\* The lease of the shared bulkhead: taken, refused, or the store fails.
LEMMA LeaseSteps ==
    ASSUME ProbeInv, NEW q \in Requests, AcquireLease(q) \/ StoreFails(q)
    PROVE  ProbeInv'
<1>1. req[q] \in Entries /\ Fits(req[q]) /\ (Len(req[q].todo) > 0 => Target(q) \in Targets)
  BY EntryOf
<1>2. /\ req \in [Requests -> Entries] /\ setup' = setup /\ circuit' = circuit
      /\ circuit \in [Targets -> Circuits]
  BY DEF ProbeInv, GatewayShape, AcquireLease, StoreFails
<1>3. CASE AcquireLease(q)
  <2>1. req[q].pc = "lease" /\ Len(req[q].todo) > 0
    BY <1>1, <1>3 DEF AcquireLease, At, Fits
  <2>2. CASE req' = [req EXCEPT ![q].pc = "call", ![q].leased = TRUE, ![q].sent = @ \cup {Target(q)}]
    <3>. DEFINE x == [req[q] EXCEPT !.pc = "call", !.leased = TRUE, !.sent = req[q].sent \cup {Target(q)}]
    <3>1. x \in Entries /\ x.pc = "call" /\ x.probe = req[q].probe /\ x.todo = req[q].todo
      BY <1>1, <2>1 DEF Entries
    <3>2. req' = [req EXCEPT ![q] = x]
      BY <1>2, <2>2
    <3>. HIDE DEF x
    <3>3. Fits(x)
      BY <2>1, <3>1 DEF Fits
    <3>. QED
      BY <1>2, <3>1, <3>2, <3>3, ProbeKept
  <2>3. CASE req' = [req EXCEPT ![q] = Onward(q, [req[q] EXCEPT !.held = FALSE, !.probe = 0])]
    <3>. DEFINE rec == [req[q] EXCEPT !.held = FALSE, !.probe = 0]
                x == Onward(q, rec)
    <3>1. rec \in Entries /\ rec.probe = 0 /\ rec.todo = req[q].todo
      BY <1>1 DEF Entries
    <3>2. req' = [req EXCEPT ![q] = x]
      BY <2>3
    <3>. HIDE DEF rec
    <3>3. x \in Entries /\ Fits(x) /\ x.probe = 0
      BY <2>1, <3>1, OnwardFits
    <3>. HIDE DEF x
    <3>. QED
      BY <1>2, <3>2, <3>3, ProbeNone
  <2>. QED
    BY <1>3, <2>2, <2>3 DEF AcquireLease
<1>4. CASE StoreFails(q)
  <2>. DEFINE x == [req[q] EXCEPT !.pc = "done", !.status = "503", !.todo = <<>>, !.held = FALSE, !.probe = 0]
  <2>1. x \in Entries /\ x.pc = "done" /\ x.probe = 0
    BY <1>1, EmptySeq DEF Entries
  <2>2. req' = [req EXCEPT ![q] = x]
    BY <1>2, <1>4 DEF StoreFails
  <2>. HIDE DEF x
  <2>3. Fits(x)
    BY <2>1 DEF Fits
  <2>. QED
    BY <1>2, <2>1, <2>2, <2>3, ProbeNone
<1>. QED
  BY <1>3, <1>4

\* The upstream call and its stream.
LEMMA CallSteps ==
    ASSUME ProbeInv, NEW q \in Requests, Responds(q) \/ CallFails(q) \/ StreamEnds(q) \/ StreamUnread(q)
    PROVE  ProbeInv'
<1>1. req[q] \in Entries /\ Fits(req[q]) /\ req[q].status \in {"none", "2xx", "4xx", "429", "5xx", "503"}
  BY EntryOf DEF Entries
<1>2. req \in [Requests -> Entries] /\ setup' = setup /\ circuit' = circuit
  BY DEF ProbeInv, GatewayShape, Responds, CallFails, StreamEnds, StreamUnread
<1>3. req[q].pc \in {"call", "streaming"} /\ Len(req[q].todo) > 0
  BY <1>1 DEF Responds, CallFails, StreamEnds, StreamUnread, At, Fits
<1>4. ASSUME NEW outcome \in {None, "success", "failure"}, NEW plan \in Plans, plan # <<>>,
             NEW status \in {"none", "2xx", "4xx", "429", "5xx", "503"},
             plan = <<"release">> => outcome = None, Then(q, outcome, plan, status)
      PROVE  ProbeInv'
  <2>. DEFINE x == [req[q] EXCEPT !.pc = "after", !.outcome = outcome, !.after = plan, !.status = status]
  <2>1. /\ x \in Entries /\ x.pc = "after" /\ x.probe = req[q].probe /\ x.todo = req[q].todo
        /\ x.after = plan /\ x.outcome = outcome
    BY <1>1 DEF Entries
  <2>2. req' = [req EXCEPT ![q] = x]
    BY <1>2, <1>4 DEF Then
  <2>. HIDE DEF x
  <2>3. Fits(x)
    BY <1>3, <1>4, <2>1 DEF Fits
  <2>. QED
    BY <1>2, <2>1, <2>2, <2>3, ProbeKept
<1>5. CASE req' = [req EXCEPT ![q].pc = "streaming", ![q].status = "2xx"]
  <2>. DEFINE x == [req[q] EXCEPT !.pc = "streaming", !.status = "2xx"]
  <2>1. x \in Entries /\ x.pc = "streaming" /\ x.probe = req[q].probe /\ x.todo = req[q].todo
    BY <1>1 DEF Entries
  <2>2. req' = [req EXCEPT ![q] = x]
    BY <1>2, <1>5
  <2>. HIDE DEF x
  <2>3. Fits(x)
    BY <1>3, <2>1 DEF Fits
  <2>. QED
    BY <1>2, <2>1, <2>2, <2>3, ProbeKept
<1>6. CASE StreamUnread(q)
  <2>. DEFINE x == [req[q] EXCEPT !.pc = "done", !.todo = <<>>]
  <2>1. x \in Entries /\ x.pc = "done" /\ x.todo = <<>>
    BY <1>1, EmptySeq DEF Entries
  <2>2. req' = [req EXCEPT ![q] = x]
    BY <1>2, <1>6 DEF StreamUnread
  <2>. HIDE DEF x
  <2>3. Len(x.todo) = 0
    BY <2>1
  <2>4. Fits(x) /\ ~Probing(x)
    BY <2>1, <2>3 DEF Fits, Probing
  <2>. QED
    BY <1>2, <2>1, <2>2, <2>4, ProbeKept
<1>7. /\ <<"release", "record">> \in Plans /\ <<"record", "release">> \in Plans /\ <<"release">> \in Plans
      /\ <<"release", "record">> # <<>> /\ <<"record", "release">> # <<>> /\ <<"release">> # <<>>
      /\ <<"release", "record">> # <<"release">> /\ <<"record", "release">> # <<"release">>
  BY DEF Plans
<1>8. CASE Responds(q)
  BY <1>4, <1>5, <1>7, <1>8 DEF Responds
<1>9. CASE CallFails(q)
  BY <1>1, <1>4, <1>7, <1>9 DEF CallFails
<1>10. CASE StreamEnds(q)
  BY <1>4, <1>7, <1>10 DEF StreamEnds
<1>. QED
  BY <1>6, <1>8, <1>9, <1>10

\* What a recorded outcome makes of a circuit forgets no probe.
LEMMA RecordedCircuit ==
    ASSUME NEW c \in Circuits
    PROVE  /\ SharedFailed(c) \in Circuits /\ [NoCircuit EXCEPT !.times = c.times] \in Circuits
           /\ \A n \in Nat : n > 0 /\ Marked(n, c) => Marked(n, SharedFailed(c))
           /\ \A n \in Nat : n > 0 /\ Marked(n, c) => Marked(n, [NoCircuit EXCEPT !.times = c.times])
<1>1. c.fails \in Nat /\ c.times \in Nat /\ c.open \in Opens /\ c.probe \in BOOLEAN
  BY DEF Circuits
<1>2. CASE c.fails + 1 >= FailureThreshold
  <2>. DEFINE d == [fails |-> c.fails + 1, open |-> "open", probe |-> FALSE, times |-> c.times + 1]
  <2>1. d \in Circuits /\ d.times = c.times + 1 /\ SharedFailed(c) = d
    BY <1>1, <1>2 DEF Circuits, Opens, SharedFailed
  <2>. HIDE DEF d
  <2>2. \A n \in Nat : Marked(n, c) => Marked(n, d)
    BY <1>1, <2>1 DEF Marked
  <2>. QED
    BY <1>1, <2>1, <2>2 DEF Circuits, NoCircuit, Opens, Marked
<1>3. CASE ~(c.fails + 1 >= FailureThreshold)
  <2>. DEFINE d == [c EXCEPT !.fails = c.fails + 1]
  <2>1. d \in Circuits /\ d.times = c.times /\ d.open = c.open /\ d.probe = c.probe /\ SharedFailed(c) = d
    BY <1>1, <1>3 DEF Circuits, SharedFailed
  <2>. HIDE DEF d
  <2>2. \A n \in Nat : Marked(n, c) => Marked(n, d)
    BY <1>1, <2>1 DEF Marked
  <2>. QED
    BY <1>1, <2>1, <2>2 DEF Circuits, NoCircuit, Opens, Marked
<1>. QED
  BY <1>2, <1>3

\* The outcome is recorded, which ends the probe, and the slot is given back.
LEMMA AfterSteps ==
    ASSUME ProbeInv, NEW q \in Requests, Record(q) \/ Release(q)
    PROVE  ProbeInv'
<1>1. /\ req[q] \in Entries /\ Fits(req[q]) /\ req[q].after \in Plans
      /\ Len(req[q].todo) > 0 => Target(q) \in Targets
  BY EntryOf
<1>2. req \in [Requests -> Entries] /\ setup' = setup /\ circuit \in [Targets -> Circuits]
  BY DEF ProbeInv, GatewayShape, Record, Release
<1>3. req[q].pc = "after" /\ Len(req[q].todo) > 0 /\ req[q].after # <<>> /\ Target(q) \in Targets
  BY <1>1 DEF Record, Release, At, Fits
<1>4. CASE Record(q)
  <2>. DEFINE rec == [req[q] EXCEPT !.probe = 0]
              x == Finish(q, rec)
              t == Target(q)
  <2>1. /\ rec \in Entries /\ rec.probe = 0 /\ rec.pc = "after" /\ rec.after = req[q].after
        /\ rec.todo = req[q].todo
    BY <1>1, <1>3 DEF Entries
  <2>2. req' = [req EXCEPT ![q] = x]
    BY <1>4 DEF Record
  <2>. HIDE DEF rec
  <2>3. x \in Entries /\ Fits(x) /\ x.probe = 0
    BY <1>3, <2>1, FinishFits
  <2>. HIDE DEF x
  <2>4. PICK d : /\ d \in {circuit[t], SharedFailed(circuit[t]), [NoCircuit EXCEPT !.times = circuit[t].times]}
                 /\ circuit' = [circuit EXCEPT ![t] = d]
    <3>1. CASE circuit' = circuit
      BY <1>2, <1>3, <3>1
    <3>2. CASE req[q].outcome = "failure" /\ circuit' # circuit
      BY <1>4, <3>2 DEF Record
    <3>3. CASE req[q].outcome # "failure" /\ circuit' # circuit
      BY <1>4, <3>3 DEF Record
    <3>. QED
      BY <3>1, <3>2, <3>3
  <2>5. /\ d \in Circuits /\ \A n \in Nat : n > 0 /\ Marked(n, circuit[t]) => Marked(n, d)
    <3>. DEFINE c == circuit[t]
    <3>1. c \in Circuits /\ d \in {c, SharedFailed(c), [NoCircuit EXCEPT !.times = c.times]}
      BY <1>2, <1>3, <2>4
    <3>. HIDE DEF c
    <3>2. d \in Circuits /\ \A n \in Nat : n > 0 /\ Marked(n, c) => Marked(n, d)
      BY <3>1, RecordedCircuit
    <3>. QED
      BY <3>2 DEF c
  <2>6. /\ circuit' \in [Targets -> Circuits] /\ circuit'[t] = d
        /\ \A u \in Targets \ {t} : circuit'[u] = circuit[u]
    BY <1>2, <1>3, <2>4, <2>5
  <2>7. \A u \in Targets : \A n \in Nat : n > 0 /\ Marked(n, circuit[u]) => Marked(n, circuit'[u])
    BY <2>5, <2>6
  <2>. QED
    BY <1>2, <2>2, <2>3, <2>6, <2>7, ProbeNone
<1>5. CASE Release(q)
  <2>. DEFINE rec == [req[q] EXCEPT !.held = FALSE, !.leased = FALSE]
              x == Finish(q, rec)
  <2>1. /\ rec \in Entries /\ rec.probe = req[q].probe /\ rec.pc = "after" /\ rec.after = req[q].after
        /\ rec.todo = req[q].todo /\ rec.outcome = req[q].outcome
    BY <1>1, <1>3 DEF Entries
  <2>2. req' = [req EXCEPT ![q] = x] /\ circuit' = circuit /\ Head(req[q].after) = "release"
    BY <1>5 DEF Release
  <2>. HIDE DEF rec
  <2>3. /\ Len(rec.after) > 1 => Tail(rec.after) # <<"release">>
        /\ ~(Len(rec.after) > 1) => rec.probe = 0 \/ rec.outcome = None
    BY <1>1, <1>3, <2>1, <2>2, PlanSteps DEF Fits
  <2>4. x \in Entries /\ Fits(x) /\ x.probe = rec.probe /\ (Probing(x) => x.todo = rec.todo)
    BY <1>3, <2>1, <2>3, FinishFits
  <2>. HIDE DEF x
  <2>. QED
    BY <1>2, <2>1, <2>2, <2>4, ProbeKept
<1>. QED
  BY <1>4, <1>5

\* Time at the shared circuit and at the leases.
LEMMA SharedTimeSteps ==
    ASSUME ProbeInv, NEW t \in Targets,
           CoolShared(t) \/ CircuitKeyExpires(t) \/ \E q \in Requests : LeaseExpires(t, q)
    PROVE  ProbeInv'
<1>1. /\ req \in [Requests -> Entries] /\ setup' = setup /\ circuit \in [Targets -> Circuits]
      /\ circuit[t] \in Circuits
  BY DEF ProbeInv, GatewayShape, CoolShared, CircuitKeyExpires, LeaseExpires
<1>2. ASSUME NEW d \in Circuits, req' = req, circuit' = [circuit EXCEPT ![t] = d],
             \A n \in Nat : n > 0 /\ Marked(n, circuit[t]) => Marked(n, d)
      PROVE  ProbeInv'
  <2>1. /\ circuit' \in [Targets -> Circuits] /\ circuit'[t] = d
        /\ \A u \in Targets \ {t} : circuit'[u] = circuit[u]
    BY <1>1, <1>2
  <2>2. \A u \in Targets : \A n \in Nat : n > 0 /\ Marked(n, circuit[u]) => Marked(n, circuit'[u])
    BY <1>2, <2>1
  <2>3. \A q \in Requests : Probing(req[q]) => Head(req[q].todo) \in Targets /\ req[q].probe \in Nat /\ req[q].probe > 0
    BY EntryOf DEF Probing, Target
  <2>4. ProbesMarked'
    BY <1>2, <2>2, <2>3 DEF ProbeInv, ProbesMarked
  <2>5. GatewayShape' /\ ProbesApart'
    BY <1>1, <1>2, <2>1 DEF ProbeInv, GatewayShape, ProbesApart
  <2>. QED
    BY <2>4, <2>5 DEF ProbeInv
<1>3. CASE CoolShared(t)
  <2>. DEFINE d == [circuit[t] EXCEPT !.open = "cooled"]
  <2>1. d \in Circuits /\ d.times = circuit[t].times
    BY <1>1 DEF Circuits, Opens
  <2>2. circuit[t].open = "open" /\ req' = req /\ circuit' = [circuit EXCEPT ![t] = d]
    BY <1>1, <1>3 DEF CoolShared
  <2>. HIDE DEF d
  <2>3. \A n \in Nat : n > 0 /\ Marked(n, circuit[t]) => Marked(n, d)
    BY <2>1, <2>2 DEF Marked
  <2>. QED
    BY <1>2, <2>1, <2>2, <2>3
<1>4. CASE CircuitKeyExpires(t)
  <2>. DEFINE d == [NoCircuit EXCEPT !.times = circuit[t].times]
  <2>1. d \in Circuits /\ \A n \in Nat : n > 0 /\ Marked(n, circuit[t]) => Marked(n, d)
    BY <1>1, RecordedCircuit
  <2>2. req' = req /\ circuit' = [circuit EXCEPT ![t] = d]
    BY <1>4 DEF CircuitKeyExpires
  <2>. HIDE DEF d
  <2>. QED
    BY <1>2, <2>1, <2>2
<1>5. ASSUME NEW q \in Requests, LeaseExpires(t, q) PROVE ProbeInv'
  <2>. DEFINE x == [req[q] EXCEPT !.leased = FALSE]
  <2>1. req[q] \in Entries /\ Fits(req[q])
    BY EntryOf
  <2>2. /\ x \in Entries /\ x.pc = req[q].pc /\ x.probe = req[q].probe /\ x.todo = req[q].todo
        /\ x.after = req[q].after /\ x.outcome = req[q].outcome
    BY <2>1 DEF Entries
  <2>3. req' = [req EXCEPT ![q] = x] /\ circuit' = circuit
    BY <1>1, <1>5 DEF LeaseExpires
  <2>. HIDE DEF x
  <2>4. Fits(x)
    BY <2>1, <2>2 DEF Fits
  <2>. QED
    BY <1>1, <2>2, <2>3, <2>4, ProbeKept
<1>. QED
  BY <1>3, <1>4, <1>5

\* The probes and the round-robin counters, at first and after every step.
ProbeState == ProbeInv /\ turn \in [Replicas -> Nat]

\* At first no request carries a probe.
LEMMA ProbeStarts ==
    ASSUME Init
    PROVE  ProbeState
<1>1. turn \in [Replicas -> Nat]
  BY DEF Init
<1>. DEFINE x == [pc |-> "idle", retry |-> FALSE, stream |-> FALSE, todo |-> <<>>,
                  sent |-> {}, outcome |-> None, after |-> <<>>, leased |-> FALSE,
                  probe |-> 0, held |-> FALSE, status |-> "none"]
<1>2. x \in Entries /\ x.pc = "idle" /\ x.probe = 0
  BY EmptySeq DEF Entries, Plans
<1>3. req = [q \in Requests |-> x]
  BY DEF Init
<1>4. NoCircuit \in Circuits
  BY DEF NoCircuit, Circuits, Opens
<1>. HIDE DEF x
<1>5. Fits(x) /\ ~Probing(x)
  BY <1>2 DEF Fits, Probing
<1>6. ProbeInv
  BY <1>2, <1>3, <1>4, <1>5 DEF Init, ProbeInv, GatewayShape, ProbesMarked, ProbesApart
<1>. QED
  BY <1>1, <1>6 DEF ProbeState

\* Every step of the gateway keeps the probes apart.
LEMMA ProbeStays ==
    ASSUME GatewayAssumption, ProbeState, [Next]_vars
    PROVE  ProbeState'
<1>. USE DEF ProbeState
<1>1. turn' \in [Replicas -> Nat]
  <2>1. ASSUME NEW q \in Requests, Select(q) PROVE turn' \in [Replicas -> Nat]
    <3>. DEFINE S == {i \in DOMAIN setup.order : Available(local[Here(q)][setup.order[i]])}
                k == turn[Here(q)]
    <3>1. setup.order \in Seq(Targets) /\ S \in SUBSET DOMAIN setup.order
      BY DEF GatewayAssumption, SetupOK, ProbeInv, GatewayShape
    <3>2. k \in Nat
      BY <2>1 DEF Select, At, Here, GatewayAssumption, SetupOK, ProbeInv, GatewayShape
    <3>3. PICK ready \in InOrder(S) :
            \/ turn' = turn
            \/ ready # <<>> /\ turn' = [turn EXCEPT ![Here(q)] = (k % Len(ready)) + 1]
      BY <2>1 DEF Select
    <3>4. CASE turn' = turn
      BY <3>4
    <3>5. CASE ready # <<>> /\ turn' = [turn EXCEPT ![Here(q)] = (k % Len(ready)) + 1]
      <4>. DEFINE start == k % Len(ready)
                  order == SubSeq(ready, start + 1, Len(ready)) \o SubSeq(ready, 1, start)
      <4>1. start \in Nat /\ order \in Seq(Targets) /\ Len(order) > 0
        BY <3>1, <3>2, <3>5, Rotation
      <4>2. turn' = [turn EXCEPT ![Here(q)] = start + 1] /\ turn \in [Replicas -> Nat]
        BY <3>5
      <4>. HIDE DEF start
      <4>3. start + 1 \in Nat
        BY <4>1
      <4>4. Here(q) \in Replicas
        BY <2>1 DEF Select, At, Here, GatewayAssumption, SetupOK, ProbeInv, GatewayShape
      <4>5. [turn EXCEPT ![Here(q)] = start + 1] \in [Replicas -> Nat]
        BY <4>2, <4>3, <4>4, TurnCounts
      <4>. QED
        BY <4>2, <4>5
    <3>. QED
      BY <3>3, <3>4, <3>5
  <2>2. CASE turn' = turn
    BY <2>2
  <2>3. ASSUME NEW q \in Requests, Step(q) PROVE turn' = turn \/ Select(q)
    BY <2>3 DEF Step, Denied, RateLimit, CheckTarget, SharedCircuit, AcquireLease, Responds, CallFails,
                Record, Release
  <2>4. ASSUME NEW q \in Requests, RateStoreFails(q) \/ StoreFails(q) \/ StreamEnds(q) \/ StreamUnread(q)
        PROVE  turn' = turn
    BY <2>4 DEF RateStoreFails, StoreFails, StreamEnds, StreamUnread
  <2>5. ASSUME NEW p \in Places, NEW c \in Callers, Refill(p, c) PROVE turn' = turn
    BY <2>5 DEF Refill
  <2>6. ASSUME NEW r \in Replicas, Health(r) \/ \E t \in Targets : CoolLocal(r, t) PROVE turn' = turn
    BY <2>6 DEF Health, CoolLocal
  <2>7. ASSUME NEW t \in Targets, CoolShared(t) \/ CircuitKeyExpires(t) \/ \E q \in Requests : LeaseExpires(t, q)
        PROVE  turn' = turn
    BY <2>7 DEF CoolShared, CircuitKeyExpires, LeaseExpires
  <2>8. CASE UNCHANGED vars
    BY <2>2, <2>8 DEF vars
  <2>. QED
    BY <2>1, <2>2, <2>3, <2>4, <2>5, <2>6, <2>7, <2>8 DEF Next
<1>2. ASSUME UNCHANGED <<setup, req, circuit>> PROVE ProbeInv'
  BY <1>2 DEF ProbeInv, GatewayShape, ProbesMarked, ProbesApart
<1>3. ASSUME NEW q \in Requests, Step(q) PROVE ProbeInv'
  BY <1>3, ArrivalSteps, CheckStep, CircuitStep, LeaseSteps, CallSteps, AfterSteps DEF Step
<1>4. ASSUME NEW q \in Requests, RateStoreFails(q) \/ StoreFails(q) \/ StreamEnds(q) \/ StreamUnread(q)
      PROVE  ProbeInv'
  BY <1>4, ArrivalSteps, LeaseSteps, CallSteps
<1>5. ASSUME NEW p \in Places, NEW c \in Callers, Refill(p, c) PROVE ProbeInv'
  BY <1>2, <1>5 DEF Refill
<1>6. ASSUME NEW r \in Replicas, Health(r) \/ \E t \in Targets : CoolLocal(r, t) PROVE ProbeInv'
  BY <1>2, <1>6 DEF Health, CoolLocal
<1>7. CASE UNCHANGED vars
  BY <1>2, <1>7 DEF vars
<1>. QED
  BY <1>1, <1>3, <1>4, <1>5, <1>6, <1>7, SharedTimeSteps DEF Next

\* Each opening of a shared circuit lets at most one probe through over the whole
\* fleet, for any number of replicas, targets and requests, whatever expires or fails.
THEOREM OneProbePerOpening ==
    ASSUME GatewayAssumption
    PROVE  Spec => []OneProbe
<1>1. ProbeState => OneProbe
  <2>. SUFFICES ASSUME ProbeInv, NEW p \in Requests, NEW q \in Requests, p # q, req[p].probe > 0,
                       req[p].todo # <<>>, req[q].todo # <<>>, Target(p) = Target(q)
                PROVE  req[p].probe # req[q].probe
    BY DEF OneProbe, ProbeState
  <2>1. req[p].todo \in Seq(Targets) /\ req[q].todo \in Seq(Targets)
    BY EntryOf
  <2>2. Len(req[p].todo) > 0 /\ Len(req[q].todo) > 0
    BY <2>1, EmptySeq
  <2>. QED
    BY <2>2 DEF ProbeInv, ProbesApart, Probing, Target
<1>2. Init => ProbeState
  BY ProbeStarts
<1>3. ProbeState /\ [Next]_vars => ProbeState'
  BY ProbeStays
<1>. QED
  BY <1>1, <1>2, <1>3, PTL DEF Spec
-----------------------------------------------------------------------------
(* The gateway's books: slots, leases, targets tried and tokens. *)

\* A request holds a slot of its target from the acquisition to the release, or
\* left it behind with a body that nobody read.
HolderOf(x, t) == x.held /\ Len(x.todo) > 0 /\ Head(x.todo) = t
StrayOf(x, t) == x.pc = "done" /\ x.held /\ t \in x.sent
Holders(r, t) == {q \in DOMAIN setup.at : setup.at[q] = r /\ HolderOf(req[q], t)}
Strays(r, t) == {q \in DOMAIN setup.at : setup.at[q] = r /\ StrayOf(req[q], t)}

\* What a request's place in forward() says about its slot, lease, targets and status.
Holding(x) ==
    /\ x.pc \in {"idle", "select", "check", "circuit"} => ~x.held
    /\ x.pc \in {"lease", "call", "streaming"} => x.held
    /\ x.pc = "after" => (x.held <=> x.after # <<"record">>)
    /\ x.leased => x.held /\ x.pc # "lease"
Trying(x) ==
    /\ x.pc \in {"idle", "select", "done"} => Len(x.todo) = 0
    /\ x.pc \in {"idle", "select"} => x.sent = {}
    /\ x.pc \in {"call", "streaming", "after"} => Head(x.todo) \in x.sent
    /\ ~x.retry => \E t \in Targets \cup {None} : x.sent \subseteq {t}
    /\ ~x.retry /\ x.pc \notin {"idle", "select", "done"} => Len(x.todo) = 1 /\ x.sent \subseteq {Head(x.todo)}
    /\ x.status = "2xx" => x.pc \in {"done", "streaming", "after"}
    /\ x.status = "429" => x.pc = "done"
Sound(x) == Holding(x) /\ Trying(x)

LocalTargets == [fails : Nat, open : Opens, used : 0..MaxConcurrency]
Active == {q \in Requests : req[q].pc # "idle"}
Arrivals ==
    /\ IsFiniteSet(Active) /\ Active \subseteq DOMAIN setup.at
    /\ \A q \in Requests : Sound(req[q])
SlotBooks ==
    /\ local \in [Replicas -> [Targets -> LocalTargets]]
    /\ \A r \in Replicas, t \in Targets :
         /\ Cardinality(Holders(r, t)) <= local[r][t].used
         /\ local[r][t].used <= Cardinality(Holders(r, t)) + Cardinality(Strays(r, t))
LeaseBooks ==
    /\ leases \in [Targets -> SUBSET Requests]
    /\ \A t \in Targets : IsFiniteSet(leases[t]) /\ Cardinality(leases[t]) <= MaxConcurrency
    /\ \A q \in Requests : req[q].leased /\ Len(req[q].todo) > 0 => q \in leases[Head(req[q].todo)]

\* The tokens of a caller at a place, and the replicas' tables of buckets.
Tokens(p, c) == IF c \in DOMAIN bucket[p] THEN bucket[p][c] ELSE 0
Buckets == UNION {[D -> 0..Rate] : D \in SUBSET Callers}
TableBooks ==
    /\ bucket \in [Places -> Buckets] /\ recent \in [Replicas -> Seq(Callers)]
    /\ \A r \in Replicas : /\ Members(recent[r]) = DOMAIN bucket[r]
                           /\ Cardinality(DOMAIN bucket[r]) <= MaxBuckets
RateBooks ==
    /\ credit \in [Places -> [Callers -> Nat]]
    /\ \A p \in Places, c \in Callers : Cardinality(Granted(p, c)) + Tokens(p, c) <= credit[p][c]

BookInv == Arrivals /\ SlotBooks /\ LeaseBooks /\ TableBooks /\ RateBooks

\* The setup of a behavior, and the places in it.
LEMMA SetupFacts ==
    ASSUME GatewayAssumption, setup \in Setups
    PROVE  /\ DOMAIN setup.at \subseteq Requests /\ \A q \in DOMAIN setup.at : Here(q) \in Replicas /\ PlaceOf(q) \in Places
           /\ setup.shared \in BOOLEAN /\ setup.faults \in BOOLEAN
           /\ setup.retries \subseteq BOOLEAN /\ setup.streams \subseteq BOOLEAN /\ setup.refills \in Nat
           /\ CallerOf \in [Requests -> Callers] /\ "redis" \notin Replicas
           /\ MaxConcurrency \in Nat /\ MaxConcurrency > 0 /\ FailureThreshold \in Nat /\ FailureThreshold > 0
           /\ Rate \in Nat /\ Rate > 0 /\ MaxBuckets \in Nat /\ MaxBuckets > 0
  BY DEF GatewayAssumption, SetupOK, Here, PlaceOf, Places, shared

\* Subsets of the requests that have arrived are finite.
LEMMA BooksFinite ==
    ASSUME IsFiniteSet(Active), \A q \in Requests : req[q] \in Entries /\ Sound(req[q]),
           DOMAIN setup.at \subseteq Requests
    PROVE  /\ \A r, t : /\ IsFiniteSet(Holders(r, t)) /\ Cardinality(Holders(r, t)) \in Nat
                        /\ IsFiniteSet(Strays(r, t)) /\ Cardinality(Strays(r, t)) \in Nat
           /\ \A p, c : IsFiniteSet(Granted(p, c)) /\ Cardinality(Granted(p, c)) \in Nat
<1>1. ASSUME NEW r, NEW t PROVE Holders(r, t) \subseteq Active /\ Strays(r, t) \subseteq Active
  BY DEF Holders, Strays, HolderOf, StrayOf, Active, Sound, Holding
<1>2. ASSUME NEW p, NEW c PROVE Granted(p, c) \subseteq Active
  BY DEF Granted, Counted, Active
<1>. QED
  BY <1>1, <1>2, FS_Subset, FS_CardinalityType

\* A finite set of requests after one of them has moved.
LEMMA OneMoves ==
    ASSUME NEW S, NEW T, NEW q, IsFiniteSet(S), \A p : p # q => (p \in T <=> p \in S)
    PROVE  /\ IsFiniteSet(T) /\ Cardinality(S) \in Nat /\ Cardinality(T) \in Nat
           /\ (q \in S <=> q \in T) => Cardinality(T) = Cardinality(S)
           /\ q \notin S /\ q \in T => Cardinality(T) = Cardinality(S) + 1
           /\ q \in S /\ q \notin T => Cardinality(T) = Cardinality(S) - 1
<1>1. CASE q \in S <=> q \in T
  <2>1. T = S
    BY <1>1
  <2>. QED
    BY <1>1, <2>1, FS_CardinalityType
<1>2. CASE q \notin S /\ q \in T
  <2>1. T = S \cup {q}
    BY <1>2
  <2>. QED
    BY <1>2, <2>1, FS_AddElement, FS_CardinalityType
<1>3. CASE q \in S /\ q \notin T
  <2>1. T = S \ {q}
    BY <1>3
  <2>. QED
    BY <1>3, <2>1, FS_RemoveElement, FS_CardinalityType
<1>. QED
  BY <1>1, <1>2, <1>3

\* The four things that a step of q can do to the slots of target t at q's replica:
\* nothing, take one, give it back, or leave it behind.
SlotStays(x, y, used, new, t) ==
    new = used /\ (HolderOf(y, t) <=> HolderOf(x, t)) /\ (StrayOf(x, t) => StrayOf(y, t))
SlotTaken(x, y, used, new, t) ==
    new = used + 1 /\ ~HolderOf(x, t) /\ HolderOf(y, t) /\ (StrayOf(x, t) => StrayOf(y, t))
SlotGiven(x, y, used, new, t) ==
    new = used - 1 /\ HolderOf(x, t) /\ ~HolderOf(y, t) /\ (StrayOf(x, t) => StrayOf(y, t))
SlotLeft(x, y, used, new, t) ==
    new = used /\ HolderOf(x, t) /\ ~HolderOf(y, t) /\ ~StrayOf(x, t) /\ StrayOf(y, t)
SlotMoves(x, y, used, new, t) ==
    \/ SlotStays(x, y, used, new, t) \/ SlotTaken(x, y, used, new, t)
    \/ SlotGiven(x, y, used, new, t) \/ SlotLeft(x, y, used, new, t)

\* Whatever it does, the books agree afterwards.
LEMMA SlotsMove ==
    ASSUME GatewayAssumption, GatewayShape, Arrivals, SlotBooks, NEW q \in DOMAIN setup.at, NEW x \in Entries,
           setup' = setup, req' = [req EXCEPT ![q] = x],
           local' \in [Replicas -> [Targets -> LocalTargets]],
           \A r \in Replicas, t \in Targets :
               IF r = Here(q) THEN SlotMoves(req[q], x, local[r][t].used, local'[r][t].used, t)
               ELSE local'[r][t].used = local[r][t].used
    PROVE  SlotBooks'
<1>1. q \in Requests /\ req \in [Requests -> Entries] /\ DOMAIN setup.at \subseteq Requests
  BY SetupFacts DEF GatewayShape
<1>2. req'[q] = x /\ \A p \in Requests : p # q => req'[p] = req[p]
  BY <1>1
<1>. SUFFICES ASSUME NEW r \in Replicas, NEW t \in Targets
              PROVE  /\ Cardinality(Holders(r, t)') <= local'[r][t].used
                     /\ local'[r][t].used <= Cardinality(Holders(r, t)') + Cardinality(Strays(r, t)')
  BY DEF SlotBooks
<1>. DEFINE H == Holders(r, t)
            S == Strays(r, t)
            G == {p \in DOMAIN setup.at : setup.at[p] = r /\ HolderOf(req'[p], t)}
            U == {p \in DOMAIN setup.at : setup.at[p] = r /\ StrayOf(req'[p], t)}
            u == local[r][t].used
            v == local'[r][t].used
<1>3. Holders(r, t)' = G /\ Strays(r, t)' = U
  BY DEF Holders, Strays, HolderOf, StrayOf
<1>4. /\ IsFiniteSet(H) /\ IsFiniteSet(S) /\ u \in Nat /\ v \in Nat
      /\ Cardinality(H) <= u /\ u <= Cardinality(H) + Cardinality(S)
  <2>1. IsFiniteSet(H) /\ IsFiniteSet(S)
    BY <1>1, BooksFinite DEF Arrivals
  <2>2. local[r][t] \in LocalTargets /\ local'[r][t] \in LocalTargets
    BY DEF SlotBooks
  <2>3. u \in Nat /\ v \in Nat
    BY <2>2, SetupFacts DEF LocalTargets, GatewayShape
  <2>. QED
    BY <2>1, <2>3 DEF SlotBooks
<1>5. \A p : p # q => (p \in G <=> p \in H) /\ (p \in U <=> p \in S)
  BY <1>1, <1>2 DEF Holders, Strays
<1>6. /\ q \in H <=> Here(q) = r /\ HolderOf(req[q], t)
      /\ q \in G <=> Here(q) = r /\ HolderOf(x, t)
      /\ q \in S <=> Here(q) = r /\ StrayOf(req[q], t)
      /\ q \in U <=> Here(q) = r /\ StrayOf(x, t)
  BY <1>2 DEF Holders, Strays, Here
<1>. HIDE DEF H, S, G, U, u, v
<1>7. /\ Cardinality(H) \in Nat /\ Cardinality(G) \in Nat
      /\ (q \in H <=> q \in G) => Cardinality(G) = Cardinality(H)
      /\ q \notin H /\ q \in G => Cardinality(G) = Cardinality(H) + 1
      /\ q \in H /\ q \notin G => Cardinality(G) = Cardinality(H) - 1
  BY <1>4, <1>5, OneMoves
<1>8. /\ Cardinality(S) \in Nat /\ Cardinality(U) \in Nat
      /\ (q \in S <=> q \in U) => Cardinality(U) = Cardinality(S)
      /\ q \notin S /\ q \in U => Cardinality(U) = Cardinality(S) + 1
  BY <1>4, <1>5, OneMoves
<1>9. Cardinality(G) <= v /\ v <= Cardinality(G) + Cardinality(U)
  <2>1. CASE r # Here(q)
    <3>1. v = u /\ q \notin H /\ q \notin G /\ q \notin S /\ q \notin U
      BY <1>6, <2>1 DEF u, v
    <3>. QED
      BY <1>4, <1>7, <1>8, <3>1
  <2>2. CASE r = Here(q)
    <3>1. SlotMoves(req[q], x, u, v, t)
      BY <2>2 DEF u, v
    <3>2. \/ v = u /\ (q \in G <=> q \in H) /\ (q \in S => q \in U)
          \/ v = u + 1 /\ q \notin H /\ q \in G /\ (q \in S => q \in U)
          \/ v = u - 1 /\ q \in H /\ q \notin G /\ (q \in S => q \in U)
          \/ v = u /\ q \in H /\ q \notin G /\ q \notin S /\ q \in U
      BY <1>6, <2>2, <3>1 DEF SlotMoves, SlotStays, SlotTaken, SlotGiven, SlotLeft
    <3>. QED
      BY <1>4, <1>7, <1>8, <3>2
  <2>. QED
    BY <2>1, <2>2
<1>. QED
  BY <1>3, <1>9 DEF v

\* The leases after a step of q: no other request loses one.
LEMMA LeasesMove ==
    ASSUME GatewayShape, LeaseBooks, NEW q \in Requests, NEW x \in Entries, req' = [req EXCEPT ![q] = x],
           leases' \in [Targets -> SUBSET Requests],
           \A t \in Targets : IsFiniteSet(leases'[t]) /\ Cardinality(leases'[t]) <= MaxConcurrency,
           \A t \in Targets : \A p \in Requests \ {q} : p \in leases[t] => p \in leases'[t],
           x.leased /\ Len(x.todo) > 0 => q \in leases'[Head(x.todo)]
    PROVE  LeaseBooks'
<1>1. req \in [Requests -> Entries]
  BY DEF GatewayShape
<1>2. ASSUME NEW p \in Requests, req'[p].leased, Len(req'[p].todo) > 0 PROVE p \in leases'[Head(req'[p].todo)]
  <2>1. CASE p = q
    BY <1>1, <1>2, <2>1
  <2>2. CASE p # q
    <3>1. req'[p] = req[p] /\ req[p].todo \in Seq(Targets)
      BY <1>1, <2>2 DEF Entries
    <3>2. Head(req[p].todo) \in Targets
      BY <1>2, <3>1, FirstTarget
    <3>3. p \in leases[Head(req[p].todo)]
      BY <1>2, <3>1 DEF LeaseBooks
    <3>. QED
      BY <2>2, <3>1, <3>2, <3>3
  <2>. QED
    BY <2>1, <2>2
<1>. QED
  BY <1>2 DEF LeaseBooks

\* A request that keeps its lease, or gives up having one, changes nothing else.
LEMMA LeasesKept ==
    ASSUME GatewayShape, LeaseBooks, NEW q \in Requests, NEW x \in Entries, req' = [req EXCEPT ![q] = x],
           leases' = leases, x.leased /\ Len(x.todo) > 0 => req[q].leased /\ x.todo = req[q].todo
    PROVE  LeaseBooks'
<1>1. leases' \in [Targets -> SUBSET Requests]
  BY DEF LeaseBooks
<1>2. \A t \in Targets : IsFiniteSet(leases'[t]) /\ Cardinality(leases'[t]) <= MaxConcurrency
  BY DEF LeaseBooks
<1>3. x.leased /\ Len(x.todo) > 0 => q \in leases'[Head(x.todo)]
  BY DEF LeaseBooks
<1>. QED
  BY <1>1, <1>2, <1>3, LeasesMove

\* A lease ends.
LEMMA LeaseRemoved ==
    ASSUME GatewayAssumption, GatewayShape, LeaseBooks, NEW q \in Requests, NEW x \in Entries, ~x.leased,
           req' = [req EXCEPT ![q] = x], NEW t \in Targets, leases' = [leases EXCEPT ![t] = @ \ {q}]
    PROVE  LeaseBooks'
<1>1. leases \in [Targets -> SUBSET Requests] /\ IsFiniteSet(leases[t]) /\ Cardinality(leases[t]) <= MaxConcurrency
  BY DEF LeaseBooks
<1>2. /\ leases' \in [Targets -> SUBSET Requests] /\ leases'[t] = leases[t] \ {q}
      /\ \A s \in Targets : s # t => leases'[s] = leases[s]
  BY <1>1
<1>3. IsFiniteSet(leases'[t]) /\ Cardinality(leases'[t]) <= MaxConcurrency
  <2>1. MaxConcurrency \in Nat /\ Cardinality(leases[t]) \in Nat
    BY <1>1, FS_CardinalityType, SetupFacts DEF GatewayShape
  <2>2. IsFiniteSet(leases[t] \ {q}) /\ Cardinality(leases[t] \ {q}) <= Cardinality(leases[t])
    BY <1>1, FS_Subset
  <2>3. Cardinality(leases[t] \ {q}) \in Nat
    BY <2>2, FS_CardinalityType
  <2>4. Cardinality(leases[t] \ {q}) <= MaxConcurrency
    BY <1>1, <2>1, <2>2, <2>3
  <2>. QED
    BY <1>2, <2>2, <2>4
<1>4. \A s \in Targets : IsFiniteSet(leases'[s]) /\ Cardinality(leases'[s]) <= MaxConcurrency
  BY <1>2, <1>3 DEF LeaseBooks
<1>5. \A s \in Targets : \A p \in Requests \ {q} : p \in leases[s] => p \in leases'[s]
  BY <1>2
<1>. QED
  BY <1>2, <1>4, <1>5, LeasesMove

\* One more request may have arrived.
LEMMA ArrivalsMove ==
    ASSUME GatewayAssumption, GatewayShape, Arrivals, NEW q \in DOMAIN setup.at, NEW x \in Entries,
           Sound(x), x.pc # "idle", setup' = setup, req' = [req EXCEPT ![q] = x]
    PROVE  /\ Arrivals' /\ q \in Requests /\ DOMAIN setup.at \subseteq Requests
           /\ req'[q] = x /\ \A p \in Requests : p # q => req'[p] = req[p]
<1>1. q \in Requests /\ req \in [Requests -> Entries] /\ DOMAIN setup.at \subseteq Requests
  BY SetupFacts DEF GatewayShape
<1>2. req'[q] = x /\ \A p \in Requests : p # q => req'[p] = req[p]
  BY <1>1
<1>3. Active' = Active \cup {q}
  BY <1>1, <1>2 DEF Active
<1>4. IsFiniteSet(Active')
  BY <1>3, FS_AddElement DEF Arrivals
<1>5. Active' \subseteq DOMAIN setup'.at
  BY <1>3 DEF Arrivals
<1>6. \A p \in Requests : Sound(req'[p])
  BY <1>2 DEF Arrivals
<1>. QED
  BY <1>1, <1>2, <1>4, <1>5, <1>6 DEF Arrivals

\* The books after a step of one request that asks for no token.
LEMMA BooksMove ==
    ASSUME GatewayAssumption, GatewayShape, BookInv, NEW q \in DOMAIN setup.at, NEW x \in Entries,
           Sound(x), x.pc # "idle", setup' = setup, req' = [req EXCEPT ![q] = x], UNCHANGED rates,
           Counted(x) => Counted(req[q]), SlotBooks', LeaseBooks'
    PROVE  BookInv'
<1>1. q \in Requests /\ req \in [Requests -> Entries] /\ DOMAIN setup.at \subseteq Requests
  BY SetupFacts DEF GatewayShape
<1>2. req'[q] = x /\ \A p \in Requests : p # q => req'[p] = req[p]
  BY <1>1
<1>3. Arrivals'
  BY ArrivalsMove DEF BookInv
<1>4. bucket' = bucket /\ recent' = recent /\ credit' = credit
  BY DEF rates
<1>5. TableBooks'
  BY <1>4 DEF BookInv, TableBooks
<1>6. RateBooks'
  <2>1. credit' \in [Places -> [Callers -> Nat]]
    BY <1>4 DEF BookInv, RateBooks
  <2>2. ASSUME NEW p \in Places, NEW c \in Callers
        PROVE  Cardinality(Granted(p, c)') + Tokens(p, c)' <= credit'[p][c]
    <3>1. Granted(p, c)' = {b \in DOMAIN setup.at : PlaceOf(b) = p /\ CallerOf[b] = c /\ Counted(req'[b])}
      BY DEF Granted, PlaceOf, Here, shared, Counted
    <3>2. Granted(p, c)' \subseteq Granted(p, c)
      BY <1>1, <1>2, <3>1 DEF Granted
    <3>3. IsFiniteSet(Granted(p, c)) /\ Cardinality(Granted(p, c)) \in Nat
      BY <1>1, BooksFinite DEF BookInv, Arrivals
    <3>4. Cardinality(Granted(p, c)') <= Cardinality(Granted(p, c)) /\ Cardinality(Granted(p, c)') \in Nat
      BY <3>2, <3>3, FS_Subset, FS_CardinalityType
    <3>5. Tokens(p, c)' = Tokens(p, c) /\ Tokens(p, c) \in Nat
      <4>1. PICK D \in SUBSET Callers : bucket[p] \in [D -> 0..Rate]
        BY DEF BookInv, TableBooks, Buckets
      <4>. QED
        BY <1>4, <4>1, SetupFacts DEF Tokens, GatewayShape
    <3>6. Cardinality(Granted(p, c)) + Tokens(p, c) <= credit[p][c] /\ credit[p][c] \in Nat
      BY DEF BookInv, RateBooks
    <3>. QED
      BY <1>4, <3>3, <3>4, <3>5, <3>6
  <2>. QED
    BY <2>1, <2>2 DEF RateBooks
<1>. QED
  BY <1>3, <1>5, <1>6 DEF BookInv

\* A step of a request that leaves every slot as it was.
LEMMA BooksQuiet ==
    ASSUME GatewayAssumption, GatewayShape, BookInv, NEW q \in DOMAIN setup.at, NEW x \in Entries,
           Sound(x), x.pc # "idle", setup' = setup, req' = [req EXCEPT ![q] = x], UNCHANGED rates,
           Counted(x) => Counted(req[q]),
           local' \in [Replicas -> [Targets -> LocalTargets]],
           \A r \in Replicas, t \in Targets : local'[r][t].used = local[r][t].used,
           \A t \in Targets : (HolderOf(x, t) <=> HolderOf(req[q], t)) /\ (StrayOf(req[q], t) => StrayOf(x, t)),
           LeaseBooks'
    PROVE  BookInv'
<1>1. ASSUME NEW r \in Replicas, NEW t \in Targets
      PROVE  IF r = Here(q) THEN SlotMoves(req[q], x, local[r][t].used, local'[r][t].used, t)
             ELSE local'[r][t].used = local[r][t].used
  BY DEF SlotMoves, SlotStays
<1>2. SlotBooks'
  BY <1>1, SlotsMove DEF BookInv
<1>. QED
  BY <1>2, BooksMove

\* A step of a request that changes the entry of target u at its replica.
LEMMA BooksAt ==
    ASSUME GatewayAssumption, GatewayShape, BookInv, NEW q \in DOMAIN setup.at, NEW x \in Entries,
           Sound(x), x.pc # "idle", setup' = setup, req' = [req EXCEPT ![q] = x], UNCHANGED rates,
           Counted(x) => Counted(req[q]),
           NEW u \in Targets, NEW y \in LocalTargets, local' = [local EXCEPT ![Here(q)][u] = y],
           SlotMoves(req[q], x, local[Here(q)][u].used, y.used, u),
           \A t \in Targets \ {u} : (HolderOf(x, t) <=> HolderOf(req[q], t)) /\ (StrayOf(req[q], t) => StrayOf(x, t)),
           LeaseBooks'
    PROVE  BookInv'
<1>1. Here(q) \in Replicas /\ local \in [Replicas -> [Targets -> LocalTargets]]
  BY SetupFacts DEF GatewayShape, BookInv, SlotBooks
<1>2. /\ local' \in [Replicas -> [Targets -> LocalTargets]] /\ local'[Here(q)][u] = y
      /\ \A r \in Replicas, t \in Targets : r # Here(q) \/ t # u => local'[r][t] = local[r][t]
  BY <1>1
<1>3. ASSUME NEW r \in Replicas, NEW t \in Targets
      PROVE  IF r = Here(q) THEN SlotMoves(req[q], x, local[r][t].used, local'[r][t].used, t)
             ELSE local'[r][t].used = local[r][t].used
  <2>1. CASE r # Here(q)
    BY <1>2, <2>1
  <2>2. CASE r = Here(q) /\ t # u
    BY <1>2, <2>2 DEF SlotMoves, SlotStays
  <2>3. CASE r = Here(q) /\ t = u
    BY <1>2, <2>3
  <2>. QED
    BY <2>1, <2>2, <2>3
<1>4. SlotBooks'
  BY <1>2, <1>3, SlotsMove DEF BookInv
<1>. QED
  BY <1>4, BooksMove

\* What an action of a request that has arrived finds.
LEMMA BookEntry ==
    ASSUME GatewayAssumption, ProbeInv, BookInv, NEW q \in Requests, req[q].pc # "idle" \/ q \in DOMAIN setup.at
    PROVE  /\ q \in DOMAIN setup.at /\ req[q] \in Entries /\ Fits(req[q]) /\ Sound(req[q])
           /\ req[q].todo \in Seq(Targets) /\ req[q].after \in Plans /\ req[q].sent \in SUBSET Targets
           /\ Here(q) \in Replicas /\ local \in [Replicas -> [Targets -> LocalTargets]]
           /\ Len(req[q].todo) > 0 => /\ Target(q) \in Targets /\ Target(q) = Head(req[q].todo)
                                      /\ local[Here(q)][Target(q)] \in LocalTargets
           /\ req[q].pc \notin {"idle", "done"} => Counted(req[q])
<1>1. q \in DOMAIN setup.at /\ Sound(req[q])
  BY DEF BookInv, Arrivals, Active
<1>2. Here(q) \in Replicas
  BY <1>1, SetupFacts DEF ProbeInv, GatewayShape
<1>3. /\ req[q] \in Entries /\ Fits(req[q]) /\ req[q].todo \in Seq(Targets) /\ req[q].after \in Plans
      /\ req[q].sent \in SUBSET Targets /\ (Len(req[q].todo) > 0 => Target(q) \in Targets)
  BY EntryOf DEF Entries
<1>4. local \in [Replicas -> [Targets -> LocalTargets]]
  BY DEF BookInv, SlotBooks
<1>5. req[q].pc \notin {"idle", "done"} => Counted(req[q])
  BY <1>1 DEF Sound, Trying, Counted
<1>. QED
  BY <1>1, <1>2, <1>3, <1>4, <1>5 DEF Target

\* A request without a slot ends, or goes on without one.
LEMMA BooksFree ==
    ASSUME GatewayAssumption, GatewayShape, BookInv, NEW q \in DOMAIN setup.at, NEW x \in Entries,
           Sound(x), x.pc # "idle", ~x.held, ~req[q].held, setup' = setup, req' = [req EXCEPT ![q] = x],
           UNCHANGED rates, Counted(x) => Counted(req[q]), leases' = leases,
           local' \in [Replicas -> [Targets -> LocalTargets]],
           \A r \in Replicas, t \in Targets : local'[r][t].used = local[r][t].used
    PROVE  BookInv'
<1>1. q \in Requests
  BY SetupFacts DEF GatewayShape
<1>2. ~x.leased
  BY DEF Sound, Holding
<1>3. LeaseBooks'
  BY <1>1, <1>2, LeasesKept DEF BookInv
<1>4. \A t \in Targets : (HolderOf(x, t) <=> HolderOf(req[q], t)) /\ (StrayOf(req[q], t) => StrayOf(x, t))
  BY DEF HolderOf, StrayOf
<1>. QED
  BY <1>3, <1>4, BooksQuiet

\* A request that has given everything back and knows its answer is done.
LEMMA DoneSound ==
    ASSUME NEW x \in Entries, x.pc = "done", x.todo = <<>>, ~x.held, ~x.leased,
           ~x.retry => \E t \in Targets \cup {None} : x.sent \subseteq {t}
    PROVE  Sound(x)
<1>1. Len(x.todo) = 0
  OBVIOUS
<1>. QED
  BY <1>1 DEF Sound, Holding, Trying

\* It goes on to its next target only if it may be repeated.
LEMMA OnwardSound ==
    ASSUME NEW q, NEW rec \in Entries, Len(rec.todo) > 0, ~rec.held, ~rec.leased, rec.status \notin {"2xx", "429"},
           ~rec.retry => Len(rec.todo) = 1 /\ rec.sent \subseteq {Head(rec.todo)}
    PROVE  /\ Onward(q, rec) \in Entries /\ Sound(Onward(q, rec)) /\ ~Onward(q, rec).held
           /\ Onward(q, rec).pc # "idle"
<1>1. rec.todo \in Seq(Targets)
  BY DEF Entries
<1>2. /\ Head(rec.todo) \in Targets /\ Tail(rec.todo) \in Seq(Targets)
      /\ Len(Tail(rec.todo)) = Len(rec.todo) - 1 /\ Len(rec.todo) \in Nat
  BY <1>1, FirstTarget
<1>3. CASE Len(rec.todo) > 1
  <2>. DEFINE x == [rec EXCEPT !.pc = "check", !.todo = Tail(rec.todo)]
  <2>1. /\ x \in Entries /\ x.pc = "check" /\ x.todo = Tail(rec.todo) /\ x.held = rec.held
        /\ x.leased = rec.leased /\ x.retry = rec.retry /\ x.status = rec.status /\ x.sent = rec.sent
    BY <1>2 DEF Entries
  <2>2. Onward(q, rec) = x
    BY <1>3 DEF Onward
  <2>. HIDE DEF x
  <2>3. x.retry
    <3>1. \A n \in Nat : n > 1 => n # 1
      OBVIOUS
    <3>2. rec.retry
      BY <1>2, <1>3, <3>1, Zenon
    <3>. QED
      BY <2>1, <3>2
  <2>. QED
    BY <2>1, <2>2, <2>3 DEF Sound, Holding, Trying
<1>4. CASE ~(Len(rec.todo) > 1)
  <2>. DEFINE x == [rec EXCEPT !.pc = "done", !.todo = <<>>,
                               !.status = IF rec.status = "none" THEN "503" ELSE rec.status]
  <2>1. /\ x \in Entries /\ x.pc = "done" /\ x.todo = <<>> /\ x.held = rec.held
        /\ x.leased = rec.leased /\ x.retry = rec.retry /\ x.sent = rec.sent
    BY EmptySeq DEF Entries
  <2>2. Onward(q, rec) = x
    BY <1>4 DEF Onward
  <2>. HIDE DEF x
  <2>3. Sound(x)
    BY <1>2, <2>1, DoneSound
  <2>. QED
    BY <2>1, <2>2, <2>3
<1>. QED
  BY <1>3, <1>4

\* A replica asks its circuits: no slot changes.
LEMMA CircuitsAsked ==
    ASSUME GatewayAssumption, setup \in Setups, SlotBooks, NEW r \in Replicas
    PROVE  /\ \A y \in LocalTargets : Reopened(y) \in LocalTargets /\ Reopened(y).used = y.used
           /\ AllChecked(r) \in [Replicas -> [Targets -> LocalTargets]]
           /\ \A s \in Replicas, t \in Targets : AllChecked(r)[s][t].used = local[s][t].used
<1>1. FailureThreshold \in Nat /\ FailureThreshold > 0
  BY SetupFacts
<1>2. ASSUME NEW y \in LocalTargets PROVE Reopened(y) \in LocalTargets /\ Reopened(y).used = y.used
  <2>1. FailureThreshold - 1 \in Nat
    BY <1>1
  <2>2. [y EXCEPT !.open = "closed", !.fails = FailureThreshold - 1] \in LocalTargets
    BY <2>1 DEF LocalTargets, Opens
  <2>3. [y EXCEPT !.open = "closed", !.fails = FailureThreshold - 1].used = y.used
    BY DEF LocalTargets
  <2>. QED
    BY <2>2, <2>3 DEF Reopened
<1>3. local \in [Replicas -> [Targets -> LocalTargets]]
  BY DEF SlotBooks
<1>. DEFINE g == [t \in Targets |-> Reopened(local[r][t])]
<1>4. g \in [Targets -> LocalTargets] /\ \A t \in Targets : g[t].used = local[r][t].used
  BY <1>2, <1>3
<1>5. AllChecked(r) = [local EXCEPT ![r] = g]
  BY DEF AllChecked
<1>. HIDE DEF g
<1>. QED
  BY <1>2, <1>3, <1>4, <1>5

\* Arrival without a token, and the choice of targets.
LEMMA ArrivalBooks ==
    ASSUME GatewayAssumption, ProbeState, BookInv, NEW q \in Requests, Denied(q) \/ RateStoreFails(q) \/ Select(q)
    PROVE  BookInv'
<1>. USE DEF ProbeState
<1>1. /\ q \in DOMAIN setup.at /\ req[q] \in Entries /\ Fits(req[q]) /\ Sound(req[q])
      /\ req[q].todo \in Seq(Targets) /\ req[q].sent \in SUBSET Targets /\ Here(q) \in Replicas
      /\ local \in [Replicas -> [Targets -> LocalTargets]]
      /\ req[q].pc \notin {"idle", "done"} => Counted(req[q])
  BY BookEntry DEF Denied, RateStoreFails, Select, At
<1>2. /\ req[q].pc \in {"idle", "select"} /\ ~req[q].held /\ ~req[q].leased /\ Len(req[q].todo) = 0
      /\ req[q].sent = {}
  BY <1>1 DEF Denied, RateStoreFails, Select, At, Sound, Holding, Trying
<1>3. /\ req \in [Requests -> Entries] /\ setup' = setup /\ setup \in Setups /\ leases' = leases
      /\ UNCHANGED rates /\ GatewayShape
  BY DEF ProbeInv, GatewayShape, Denied, RateStoreFails, Select
<1>4. /\ local' \in [Replicas -> [Targets -> LocalTargets]]
      /\ \A r \in Replicas, t \in Targets : local'[r][t].used = local[r][t].used
  <2>1. CASE local' = local
    BY <1>1, <2>1
  <2>2. CASE local' = AllChecked(Here(q))
    BY <1>1, <1>3, <2>2, CircuitsAsked DEF BookInv
  <2>. QED
    BY <2>1, <2>2 DEF Denied, RateStoreFails, Select
<1>5. ASSUME NEW x \in Entries, x.pc = "done", x.todo = <<>>, ~x.held, ~x.leased, x.sent = {},
             req' = [req EXCEPT ![q] = x]
      PROVE  BookInv'
  <2>1. Sound(x)
    BY <1>5, DoneSound
  <2>2. ~Counted(x)
    BY <1>5 DEF Counted
  <2>. QED
    BY <1>1, <1>2, <1>3, <1>4, <1>5, <2>1, <2>2, BooksFree
<1>6. ASSUME req' = [req EXCEPT ![q].pc = "done", ![q].status = "4xx"] PROVE BookInv'
  <2>. DEFINE x == [req[q] EXCEPT !.pc = "done", !.status = "4xx"]
  <2>1. /\ x \in Entries /\ x.pc = "done" /\ x.todo = req[q].todo /\ x.held = req[q].held
        /\ x.leased = req[q].leased /\ x.sent = req[q].sent
    BY <1>1 DEF Entries
  <2>2. req' = [req EXCEPT ![q] = x]
    BY <1>3, <1>6
  <2>3. x.todo = <<>>
    BY <1>1, <1>2, <2>1, EmptySeq
  <2>. HIDE DEF x
  <2>. QED
    BY <1>2, <1>5, <2>1, <2>2, <2>3
<1>7. ASSUME Refuse(q) PROVE BookInv'
  <2>. DEFINE x == [req[q] EXCEPT !.pc = "done", !.status = "503", !.todo = <<>>]
  <2>1. /\ x \in Entries /\ x.pc = "done" /\ x.todo = <<>> /\ x.held = req[q].held
        /\ x.leased = req[q].leased /\ x.sent = req[q].sent
    BY <1>1, EmptySeq DEF Entries
  <2>2. req' = [req EXCEPT ![q] = x]
    BY <1>3, <1>7 DEF Refuse
  <2>. HIDE DEF x
  <2>. QED
    BY <1>2, <1>5, <2>1, <2>2
<1>8. CASE Select(q)
  <2>. DEFINE S == {i \in DOMAIN setup.order : Available(local[Here(q)][setup.order[i]])}
              k == turn[Here(q)]
  <2>1. setup.order \in Seq(Targets) /\ S \in SUBSET DOMAIN setup.order
    BY DEF GatewayAssumption, SetupOK, ProbeInv, GatewayShape
  <2>2. k \in Nat
    BY <1>1
  <2>3. PICK ready \in InOrder(S) :
          LET start == k % Len(ready)
              order == SubSeq(ready, start + 1, Len(ready)) \o SubSeq(ready, 1, start)
          IN  \/ ready = <<>> /\ Refuse(q)
              \/ /\ ready # <<>>
                 /\ \/ req' = [req EXCEPT ![q].pc = "check",
                                          ![q].todo = IF req[q].retry THEN order ELSE <<order[1]>>]
                    \/ req' = [req EXCEPT ![q].pc = "done", ![q].status = "4xx"]
    BY <1>8 DEF Select
  <2>. DEFINE start == k % Len(ready)
              order == SubSeq(ready, start + 1, Len(ready)) \o SubSeq(ready, 1, start)
              todo == IF req[q].retry THEN order ELSE <<order[1]>>
  <2>4. CASE ready # <<>> /\ req' = [req EXCEPT ![q].pc = "check", ![q].todo = todo]
    <3>1. /\ order \in Seq(Targets) /\ Len(order) > 0
          /\ <<order[1]>> \in Seq(Targets) /\ Len(<<order[1]>>) > 0
      BY <2>1, <2>2, <2>4, Rotation
    <3>2. todo \in Seq(Targets) /\ Len(todo) > 0
      BY <3>1
    <3>3. ~req[q].retry => Len(todo) = 1
      <4>1. \A e : Len(<<e>>) = 1
        OBVIOUS
      <4>. QED
        BY <4>1
    <3>. HIDE DEF todo
    <3>. DEFINE x == [req[q] EXCEPT !.pc = "check", !.todo = todo]
    <3>4. /\ x \in Entries /\ x.pc = "check" /\ x.todo = todo /\ x.held = req[q].held /\ x.retry = req[q].retry
          /\ x.leased = req[q].leased /\ x.sent = req[q].sent /\ x.status = req[q].status
      BY <1>1, <3>2 DEF Entries
    <3>5. req' = [req EXCEPT ![q] = x]
      BY <1>3, <2>4
    <3>. HIDE DEF x
    <3>6. Sound(x)
      BY <1>1, <1>2, <3>3, <3>4 DEF Sound, Holding, Trying
    <3>7. Counted(req[q])
      BY <1>1, <1>8 DEF Select, At
    <3>. QED
      BY <1>1, <1>2, <1>3, <1>4, <3>4, <3>5, <3>6, <3>7, BooksFree
  <2>. QED
    BY <1>6, <1>7, <2>3, <2>4
<1>. QED
  BY <1>6, <1>7, <1>8 DEF Denied, RateStoreFails

\* A target is passed over by a request that holds nothing.
LEMMA SkipBooks ==
    ASSUME GatewayAssumption, ProbeInv, BookInv, NEW q \in Requests, req[q].pc \in {"check", "circuit"}, Skip(q),
           setup' = setup, UNCHANGED rates, leases' = leases,
           local' \in [Replicas -> [Targets -> LocalTargets]],
           \A r \in Replicas, t \in Targets : local'[r][t].used = local[r][t].used
    PROVE  BookInv'
<1>. DEFINE x == Onward(q, req[q])
<1>1. /\ q \in DOMAIN setup.at /\ req[q] \in Entries /\ Fits(req[q]) /\ Sound(req[q]) /\ Counted(req[q])
  BY BookEntry
<1>2. /\ Len(req[q].todo) > 0 /\ ~req[q].held /\ ~req[q].leased /\ req[q].status \notin {"2xx", "429"}
      /\ ~req[q].retry => Len(req[q].todo) = 1 /\ req[q].sent \subseteq {Head(req[q].todo)}
  BY <1>1 DEF Fits, Sound, Holding, Trying
<1>3. x \in Entries /\ Sound(x) /\ ~x.held /\ x.pc # "idle"
  BY <1>1, <1>2, OnwardSound
<1>4. req' = [req EXCEPT ![q] = x]
  BY DEF Skip
<1>. HIDE DEF x
<1>. QED
  BY <1>1, <1>2, <1>3, <1>4, BooksFree DEF ProbeInv

\* A slot of the target is taken.
LEMMA TakeBooks ==
    ASSUME GatewayAssumption, ProbeInv, BookInv, NEW q \in Requests, req[q].pc \in {"check", "circuit"},
           NEW x \in Entries, Sound(x), x.pc \notin {"idle", "done"}, x.held, x.todo = req[q].todo, ~x.leased,
           setup' = setup, req' = [req EXCEPT ![q] = x], UNCHANGED rates, leases' = leases,
           NEW y \in LocalTargets, y.used = local[Here(q)][Target(q)].used + 1,
           local' = [local EXCEPT ![Here(q)][Target(q)] = y]
    PROVE  BookInv'
<1>1. /\ q \in DOMAIN setup.at /\ Fits(req[q]) /\ Sound(req[q]) /\ Counted(req[q])
      /\ Len(req[q].todo) > 0 => Target(q) \in Targets /\ Target(q) = Head(req[q].todo)
  BY BookEntry
<1>2. Len(req[q].todo) > 0 /\ ~req[q].held
  BY <1>1 DEF Fits, Sound, Holding
<1>3. LeaseBooks'
  BY LeasesKept DEF BookInv, ProbeInv
<1>4. SlotMoves(req[q], x, local[Here(q)][Target(q)].used, y.used, Target(q))
  BY <1>1, <1>2 DEF SlotMoves, SlotTaken, HolderOf, StrayOf
<1>5. \A t \in Targets \ {Target(q)} : (HolderOf(x, t) <=> HolderOf(req[q], t)) /\ (StrayOf(req[q], t) => StrayOf(x, t))
  BY <1>1, <1>2 DEF HolderOf, StrayOf
<1>. QED
  BY <1>1, <1>2, <1>3, <1>4, <1>5, BooksAt DEF ProbeInv

\* A slot of the target is given back.
LEMMA GiveBooks ==
    ASSUME GatewayAssumption, ProbeInv, BookInv, NEW q \in Requests, req[q].pc \in {"lease", "after"}, req[q].held,
           NEW x \in Entries, Sound(x), x.pc # "idle", ~x.held, LeaseBooks',
           setup' = setup, req' = [req EXCEPT ![q] = x], UNCHANGED rates, local' = SlotBack(q)
    PROVE  BookInv'
<1>1. /\ q \in DOMAIN setup.at /\ Fits(req[q]) /\ Sound(req[q]) /\ Counted(req[q]) /\ Here(q) \in Replicas
      /\ local \in [Replicas -> [Targets -> LocalTargets]]
      /\ Len(req[q].todo) > 0 => /\ Target(q) \in Targets /\ Target(q) = Head(req[q].todo)
                                 /\ local[Here(q)][Target(q)] \in LocalTargets
  BY BookEntry
<1>2. Len(req[q].todo) > 0
  BY <1>1 DEF Fits
<1>. DEFINE u == Target(q)
            old == local[Here(q)][u]
            y == [old EXCEPT !.used = old.used - 1]
<1>3. u \in Targets /\ old \in LocalTargets /\ old.used \in 0..MaxConcurrency
  BY <1>1, <1>2 DEF LocalTargets
<1>4. old.used > 0
  <2>. DEFINE H == Holders(Here(q), u)
  <2>1. q \in H
    BY <1>1, <1>2 DEF Holders, HolderOf, Here
  <2>2. IsFiniteSet(H) /\ Cardinality(H) \in Nat
    <3>1. DOMAIN setup.at \subseteq Requests /\ \A p \in Requests : req[p] \in Entries
      BY SetupFacts DEF ProbeInv, GatewayShape
    <3>. QED
      BY <3>1, BooksFinite DEF BookInv, Arrivals
  <2>3. Cardinality(H) <= old.used
    BY <1>1, <1>3 DEF BookInv, SlotBooks
  <2>. HIDE DEF H, old
  <2>4. Cardinality(H) # 0
    BY <2>1, <2>2, FS_EmptySet
  <2>. QED
    BY <1>3, <2>2, <2>3, <2>4, SetupFacts DEF ProbeInv, GatewayShape
<1>5. MaxConcurrency \in Nat
  BY SetupFacts DEF ProbeInv, GatewayShape
<1>6. old.used - 1 \in 0..MaxConcurrency
  <2>. HIDE DEF old
  <2>. QED
    BY <1>3, <1>4, <1>5
<1>7. y \in LocalTargets /\ y.used = old.used - 1
  <2>. HIDE DEF old
  <2>. QED
    BY <1>3, <1>6 DEF LocalTargets
<1>8. local' = [local EXCEPT ![Here(q)][u] = y]
  BY <1>1, <1>3 DEF SlotBack
<1>9. SlotMoves(req[q], x, local[Here(q)][u].used, y.used, u)
  <2>. HIDE DEF y
  <2>. QED
    BY <1>1, <1>2, <1>7 DEF SlotMoves, SlotGiven, HolderOf, StrayOf
<1>10. \A t \in Targets \ {u} : (HolderOf(x, t) <=> HolderOf(req[q], t)) /\ (StrayOf(req[q], t) => StrayOf(x, t))
  BY <1>1, <1>2 DEF HolderOf, StrayOf
<1>. HIDE DEF y, old, u
<1>. QED
  <2>1. GatewayShape /\ q \in DOMAIN setup.at /\ Counted(req[q]) /\ u \in Targets /\ y \in LocalTargets
    BY <1>1, <1>3, <1>7 DEF ProbeInv
  <2>. QED
    BY <1>8, <1>9, <1>10, <2>1, BooksAt

\* The local circuit and, without a store, the slot.
LEMMA CheckBooks ==
    ASSUME GatewayAssumption, ProbeInv, BookInv, NEW q \in Requests, CheckTarget(q)
    PROVE  BookInv'
<1>1. req[q].pc = "check" /\ setup' = setup /\ UNCHANGED rates /\ leases' = leases
  BY DEF CheckTarget, At
<1>2. /\ q \in DOMAIN setup.at /\ req[q] \in Entries /\ Fits(req[q]) /\ Sound(req[q]) /\ Counted(req[q])
      /\ Here(q) \in Replicas /\ local \in [Replicas -> [Targets -> LocalTargets]]
      /\ Len(req[q].todo) > 0 => /\ Target(q) \in Targets /\ Target(q) = Head(req[q].todo)
                                 /\ local[Here(q)][Target(q)] \in LocalTargets
  BY <1>1, BookEntry
<1>3. /\ Len(req[q].todo) > 0 /\ ~req[q].held /\ ~req[q].leased /\ req[q].status \notin {"2xx", "429"}
      /\ ~req[q].retry => Len(req[q].todo) = 1 /\ req[q].sent \subseteq {Head(req[q].todo)}
  BY <1>1, <1>2 DEF Fits, Sound, Holding, Trying
<1>. DEFINE t == Target(q)
            old == local[Here(q)][t]
            y == Reopened(old)
<1>4. t \in Targets /\ old \in LocalTargets /\ y \in LocalTargets /\ y.used = old.used
  BY <1>2, <1>3, CircuitsAsked DEF ProbeInv, GatewayShape, BookInv
<1>5. ASSUME local' = local \/ local' = [local EXCEPT ![Here(q)][t] = y]
      PROVE  /\ local' \in [Replicas -> [Targets -> LocalTargets]]
             /\ \A r \in Replicas, s \in Targets : local'[r][s].used = local[r][s].used
  <2>1. CASE local' = local
    BY <1>2, <2>1
  <2>2. CASE local' = [local EXCEPT ![Here(q)][t] = y]
    <3>. HIDE DEF y, t
    <3>1. /\ local' \in [Replicas -> [Targets -> LocalTargets]] /\ local'[Here(q)][t] = y
          /\ \A r \in Replicas, s \in Targets : r # Here(q) \/ s # t => local'[r][s] = local[r][s]
      BY <1>2, <1>4, <2>2
    <3>. QED
      BY <1>4, <3>1
  <2>. QED
    BY <1>5, <2>1, <2>2
<1>6. req \in [Requests -> Entries]
  BY DEF ProbeInv, GatewayShape
<1>7. CASE Skip(q) /\ (local' = local \/ local' = [local EXCEPT ![Here(q)][t] = y])
  BY <1>1, <1>5, <1>7, SkipBooks
<1>8. CASE /\ y.used < MaxConcurrency
           /\ local' = [local EXCEPT ![Here(q)][t] = [y EXCEPT !.used = y.used + 1]]
           /\ req' = [req EXCEPT ![q].pc = "call", ![q].held = TRUE, ![q].sent = @ \cup {t}]
  <2>. DEFINE x == [req[q] EXCEPT !.pc = "call", !.held = TRUE, !.sent = req[q].sent \cup {t}]
              z == [y EXCEPT !.used = y.used + 1]
  <2>1. /\ x \in Entries /\ x.pc = "call" /\ x.todo = req[q].todo /\ x.held = TRUE
        /\ x.leased = req[q].leased /\ x.sent = req[q].sent \cup {t} /\ x.retry = req[q].retry
        /\ x.status = req[q].status
    BY <1>2, <1>4 DEF Entries
  <2>2. req' = [req EXCEPT ![q] = x]
    BY <1>6, <1>8
  <2>3. z \in LocalTargets /\ z.used = old.used + 1
    <3>. HIDE DEF old, y
    <3>1. y.used \in 0..MaxConcurrency /\ MaxConcurrency \in Nat
      BY <1>4, SetupFacts DEF LocalTargets, ProbeInv, GatewayShape
    <3>2. y.used + 1 \in 0..MaxConcurrency
      BY <1>8, <3>1
    <3>. QED
      BY <1>4, <3>2 DEF LocalTargets
  <2>4. local' = [local EXCEPT ![Here(q)][t] = z]
    BY <1>8
  <2>. HIDE DEF x, z
  <2>5. Sound(x)
    <3>1. t \in x.sent /\ Head(x.todo) = t /\ (~x.retry => x.sent \subseteq {t})
      BY <1>2, <1>3, <2>1
    <3>. QED
      BY <1>3, <1>4, <2>1, <3>1 DEF Sound, Holding, Trying
  <2>. QED
    BY <1>1, <1>3, <2>1, <2>2, <2>3, <2>4, <2>5, TakeBooks
<1>9. CASE local' = [local EXCEPT ![Here(q)][t] = y] /\ req' = [req EXCEPT ![q].pc = "circuit"]
  <2>. DEFINE x == [req[q] EXCEPT !.pc = "circuit"]
  <2>1. /\ x \in Entries /\ x.pc = "circuit" /\ x.todo = req[q].todo /\ x.held = req[q].held
        /\ x.leased = req[q].leased /\ x.sent = req[q].sent /\ x.retry = req[q].retry
        /\ x.status = req[q].status
    BY <1>2 DEF Entries
  <2>2. req' = [req EXCEPT ![q] = x]
    BY <1>6, <1>9
  <2>. HIDE DEF x
  <2>3. Sound(x)
    BY <1>1, <1>2, <1>3, <2>1 DEF Sound, Holding, Trying
  <2>. QED
    BY <1>1, <1>2, <1>3, <1>5, <1>9, <2>1, <2>2, <2>3, BooksFree DEF ProbeInv
<1>. QED
  BY <1>7, <1>8, <1>9 DEF CheckTarget, TakeSlot

\* The script circuit_available and the local slot.
LEMMA CircuitBooks ==
    ASSUME GatewayAssumption, ProbeInv, BookInv, NEW q \in Requests, SharedCircuit(q)
    PROVE  BookInv'
<1>1. req[q].pc = "circuit" /\ setup' = setup /\ UNCHANGED rates /\ leases' = leases
  BY DEF SharedCircuit, At
<1>2. /\ q \in DOMAIN setup.at /\ req[q] \in Entries /\ Fits(req[q]) /\ Sound(req[q]) /\ Counted(req[q])
      /\ Here(q) \in Replicas /\ local \in [Replicas -> [Targets -> LocalTargets]]
      /\ Len(req[q].todo) > 0 => /\ Target(q) \in Targets /\ Target(q) = Head(req[q].todo)
                                 /\ local[Here(q)][Target(q)] \in LocalTargets
  BY <1>1, BookEntry
<1>3. /\ Len(req[q].todo) > 0 /\ ~req[q].held /\ ~req[q].leased /\ req[q].status \notin {"2xx", "429"}
      /\ ~req[q].retry => Len(req[q].todo) = 1 /\ req[q].sent \subseteq {Head(req[q].todo)}
  BY <1>1, <1>2 DEF Fits, Sound, Holding, Trying
<1>. DEFINE t == Target(q)
            old == local[Here(q)][t]
            c == circuit[t]
            n == IF c.open = "cooled" THEN c.times ELSE 0
<1>4. t \in Targets /\ old \in LocalTargets
  BY <1>2, <1>3
<1>5. req \in [Requests -> Entries] /\ n \in Nat
  <2>1. c \in Circuits
    BY <1>4 DEF ProbeInv, GatewayShape
  <2>2. c.times \in Nat
    BY <2>1 DEF Circuits
  <2>. QED
    BY <2>2 DEF ProbeInv, GatewayShape
<1>6. CASE Skip(q) /\ local' = local
  BY <1>1, <1>2, <1>6, SkipBooks
<1>7. CASE /\ old.used < MaxConcurrency
           /\ local' = [local EXCEPT ![Here(q)][t].used = @ + 1]
           /\ req' = [req EXCEPT ![q].pc = "lease", ![q].held = TRUE, ![q].probe = n]
  <2>. HIDE DEF n
  <2>. DEFINE x == [req[q] EXCEPT !.pc = "lease", !.held = TRUE, !.probe = n]
              z == [old EXCEPT !.used = old.used + 1]
  <2>1. /\ x \in Entries /\ x.pc = "lease" /\ x.todo = req[q].todo /\ x.held = TRUE
        /\ x.leased = req[q].leased /\ x.sent = req[q].sent /\ x.retry = req[q].retry
        /\ x.status = req[q].status
    BY <1>2, <1>5 DEF Entries
  <2>2. req' = [req EXCEPT ![q] = x]
    BY <1>5, <1>7
  <2>3. z \in LocalTargets /\ z.used = old.used + 1
    <3>. HIDE DEF old
    <3>1. old.used \in 0..MaxConcurrency /\ MaxConcurrency \in Nat
      BY <1>4, SetupFacts DEF LocalTargets, ProbeInv, GatewayShape
    <3>2. old.used + 1 \in 0..MaxConcurrency
      BY <1>7, <3>1
    <3>. QED
      BY <1>4, <3>2 DEF LocalTargets
  <2>4. local' = [local EXCEPT ![Here(q)][t] = z]
    BY <1>2, <1>4, <1>7
  <2>. HIDE DEF x, z
  <2>5. Sound(x)
    BY <1>1, <1>2, <1>3, <2>1 DEF Sound, Holding, Trying
  <2>. QED
    BY <1>1, <1>3, <2>1, <2>2, <2>3, <2>4, <2>5, TakeBooks
<1>. QED
  BY <1>6, <1>7 DEF SharedCircuit

\* The lease is taken or refused, or the store fails: without a lease the slot goes back.
LEMMA LeaseStepBooks ==
    ASSUME GatewayAssumption, ProbeInv, BookInv, NEW q \in Requests, AcquireLease(q) \/ StoreFails(q)
    PROVE  BookInv'
<1>1. req[q].pc \in {"circuit", "lease"} /\ setup' = setup /\ UNCHANGED rates
  BY DEF AcquireLease, StoreFails, At
<1>2. /\ q \in DOMAIN setup.at /\ req[q] \in Entries /\ Fits(req[q]) /\ Sound(req[q]) /\ Counted(req[q])
      /\ Here(q) \in Replicas /\ local \in [Replicas -> [Targets -> LocalTargets]]
      /\ req[q].sent \in SUBSET Targets
      /\ Len(req[q].todo) > 0 => /\ Target(q) \in Targets /\ Target(q) = Head(req[q].todo)
  BY <1>1, BookEntry
<1>3. /\ Len(req[q].todo) > 0 /\ ~req[q].leased /\ req[q].status \notin {"2xx", "429"}
      /\ (req[q].pc = "lease" => req[q].held) /\ (req[q].pc = "circuit" => ~req[q].held)
      /\ ~req[q].retry => Len(req[q].todo) = 1 /\ req[q].sent \subseteq {Head(req[q].todo)}
  BY <1>1, <1>2 DEF Fits, Sound, Holding, Trying
<1>4. req \in [Requests -> Entries]
  BY DEF ProbeInv, GatewayShape
<1>. DEFINE t == Target(q)
<1>5. t \in Targets
  BY <1>2, <1>3
<1>6. CASE /\ req[q].pc = "lease" /\ Cardinality(leases[t]) < MaxConcurrency
           /\ leases' = [leases EXCEPT ![t] = @ \cup {q}] /\ local' = local
           /\ req' = [req EXCEPT ![q].pc = "call", ![q].leased = TRUE, ![q].sent = @ \cup {t}]
  <2>. DEFINE x == [req[q] EXCEPT !.pc = "call", !.leased = TRUE, !.sent = req[q].sent \cup {t}]
  <2>1. /\ x \in Entries /\ x.pc = "call" /\ x.todo = req[q].todo /\ x.held = req[q].held
        /\ x.sent = req[q].sent \cup {t} /\ x.retry = req[q].retry /\ x.status = req[q].status
    BY <1>2, <1>5 DEF Entries
  <2>2. req' = [req EXCEPT ![q] = x]
    BY <1>4, <1>6
  <2>. HIDE DEF x
  <2>3. Sound(x)
    <3>1. t \in x.sent /\ Head(x.todo) = t /\ (~x.retry => x.sent \subseteq {t})
      BY <1>2, <1>3, <2>1
    <3>. QED
      BY <1>3, <1>5, <1>6, <2>1, <3>1 DEF Sound, Holding, Trying
  <2>4. \A s \in Targets : (HolderOf(x, s) <=> HolderOf(req[q], s)) /\ (StrayOf(req[q], s) => StrayOf(x, s))
    BY <1>1, <2>1 DEF HolderOf, StrayOf
  <2>5. LeaseBooks'
    <3>1. leases \in [Targets -> SUBSET Requests] /\ IsFiniteSet(leases[t])
      BY <1>5 DEF BookInv, LeaseBooks
    <3>2. /\ leases' \in [Targets -> SUBSET Requests] /\ leases'[t] = leases[t] \cup {q}
          /\ \A s \in Targets : s # t => leases'[s] = leases[s]
      BY <1>5, <1>6, <3>1
    <3>3. IsFiniteSet(leases'[t]) /\ Cardinality(leases'[t]) <= MaxConcurrency
      <4>1. Cardinality(leases[t]) \in Nat /\ MaxConcurrency \in Nat
        BY <3>1, FS_CardinalityType, SetupFacts DEF ProbeInv, GatewayShape
      <4>2. /\ IsFiniteSet(leases[t] \cup {q})
            /\ Cardinality(leases[t] \cup {q}) = IF q \in leases[t] THEN Cardinality(leases[t])
                                                 ELSE Cardinality(leases[t]) + 1
        BY <3>1, FS_AddElement
      <4>3. Cardinality(leases[t] \cup {q}) <= MaxConcurrency
        BY <1>6, <4>1, <4>2
      <4>. QED
        BY <3>2, <4>2, <4>3
    <3>4. \A s \in Targets : IsFiniteSet(leases'[s]) /\ Cardinality(leases'[s]) <= MaxConcurrency
      BY <3>2, <3>3 DEF BookInv, LeaseBooks
    <3>5. \A s \in Targets : \A p \in Requests \ {q} : p \in leases[s] => p \in leases'[s]
      BY <3>2
    <3>6. q \in leases'[Head(x.todo)]
      BY <1>2, <1>3, <2>1, <3>2
    <3>. QED
      BY <2>1, <2>2, <3>2, <3>4, <3>5, <3>6, LeasesMove DEF BookInv, ProbeInv
  <2>. QED
    BY <1>1, <1>2, <1>6, <2>1, <2>2, <2>3, <2>4, <2>5, BooksQuiet DEF ProbeInv
<1>7. CASE /\ req[q].pc = "lease" /\ leases' = leases /\ local' = SlotBack(q)
           /\ req' = [req EXCEPT ![q] = Onward(q, [req[q] EXCEPT !.held = FALSE, !.probe = 0])]
  <2>. DEFINE rec == [req[q] EXCEPT !.held = FALSE, !.probe = 0]
              x == Onward(q, rec)
  <2>1. /\ rec \in Entries /\ rec.todo = req[q].todo /\ rec.held = FALSE /\ rec.leased = req[q].leased
        /\ rec.sent = req[q].sent /\ rec.retry = req[q].retry /\ rec.status = req[q].status
    BY <1>2 DEF Entries
  <2>2. req' = [req EXCEPT ![q] = x]
    BY <1>7
  <2>. HIDE DEF rec
  <2>3. x \in Entries /\ Sound(x) /\ ~x.held /\ x.pc # "idle"
    BY <1>3, <2>1, OnwardSound
  <2>. HIDE DEF x
  <2>4. ~x.leased
    BY <2>3 DEF Sound, Holding
  <2>5. LeaseBooks'
    BY <1>7, <2>2, <2>3, <2>4, LeasesKept DEF BookInv, ProbeInv
  <2>. QED
    BY <1>1, <1>3, <1>7, <2>2, <2>3, <2>5, GiveBooks
<1>8. CASE /\ leases' = leases /\ local' = IF At(q, "lease") THEN SlotBack(q) ELSE local
           /\ req' = [req EXCEPT ![q].pc = "done", ![q].status = "503", ![q].todo = <<>>,
                                 ![q].held = FALSE, ![q].probe = 0]
  <2>. DEFINE x == [req[q] EXCEPT !.pc = "done", !.status = "503", !.todo = <<>>, !.held = FALSE, !.probe = 0]
  <2>1. /\ x \in Entries /\ x.pc = "done" /\ x.todo = <<>> /\ x.held = FALSE /\ x.leased = req[q].leased
        /\ x.sent = req[q].sent /\ x.retry = req[q].retry
    BY <1>2, EmptySeq DEF Entries
  <2>2. req' = [req EXCEPT ![q] = x]
    BY <1>4, <1>8
  <2>. HIDE DEF x
  <2>3. Sound(x) /\ ~x.leased
    BY <1>2, <1>3, <2>1, DoneSound DEF Sound, Trying
  <2>4. CASE req[q].pc = "lease"
    <3>1. local' = SlotBack(q)
      BY <1>2, <1>8, <2>4 DEF At
    <3>2. LeaseBooks'
      BY <1>8, <2>1, <2>2, <2>3, LeasesKept DEF BookInv, ProbeInv
    <3>. QED
      BY <1>1, <1>3, <2>1, <2>2, <2>3, <2>4, <3>1, <3>2, GiveBooks
  <2>5. CASE req[q].pc = "circuit"
    <3>1. local' = local
      BY <1>8, <2>5 DEF At
    <3>. QED
      BY <1>1, <1>2, <1>3, <1>8, <2>1, <2>2, <2>3, <2>5, <3>1, BooksFree DEF ProbeInv
  <2>. QED
    BY <1>1, <2>4, <2>5
<1>9. CASE AcquireLease(q)
  BY <1>6, <1>7, <1>9 DEF AcquireLease, At
<1>10. CASE StoreFails(q)
  BY <1>8, <1>10 DEF StoreFails
<1>. QED
  BY <1>9, <1>10

\* The upstream call and its stream: the slot stays with the request, unless it is left.
LEMMA CallBooks ==
    ASSUME GatewayAssumption, ProbeInv, BookInv, NEW q \in Requests,
           Responds(q) \/ CallFails(q) \/ StreamEnds(q) \/ StreamUnread(q)
    PROVE  BookInv'
<1>1. req[q].pc \in {"call", "streaming"} /\ setup' = setup /\ UNCHANGED rates /\ leases' = leases /\ local' = local
  BY DEF Responds, CallFails, StreamEnds, StreamUnread, At
<1>2. /\ q \in DOMAIN setup.at /\ req[q] \in Entries /\ Fits(req[q]) /\ Sound(req[q]) /\ Counted(req[q])
      /\ Here(q) \in Replicas /\ local \in [Replicas -> [Targets -> LocalTargets]]
      /\ Len(req[q].todo) > 0 => Target(q) \in Targets /\ Target(q) = Head(req[q].todo)
  BY <1>1, BookEntry
<1>3. /\ Len(req[q].todo) > 0 /\ req[q].held /\ req[q].status # "429" /\ Head(req[q].todo) \in req[q].sent
      /\ ~req[q].retry => Len(req[q].todo) = 1 /\ req[q].sent \subseteq {Head(req[q].todo)}
  BY <1>1, <1>2 DEF Fits, Sound, Holding, Trying
<1>4. req \in [Requests -> Entries] /\ Head(req[q].todo) \in Targets
  BY <1>2, <1>3 DEF ProbeInv, GatewayShape
<1>5. ASSUME NEW x \in Entries, x.pc \in {"streaming", "after"}, x.pc = "after" => x.after # <<"record">>,
             x.todo = req[q].todo, x.held = req[q].held, x.leased = req[q].leased, x.sent = req[q].sent,
             x.retry = req[q].retry, x.status # "429", req' = [req EXCEPT ![q] = x]
      PROVE  BookInv'
  <2>1. Sound(x)
    BY <1>3, <1>4, <1>5 DEF Sound, Holding, Trying
  <2>2. LeaseBooks'
    BY <1>1, <1>5, LeasesKept DEF BookInv, ProbeInv
  <2>3. \A s \in Targets : (HolderOf(x, s) <=> HolderOf(req[q], s)) /\ (StrayOf(req[q], s) => StrayOf(x, s))
    BY <1>1, <1>5 DEF HolderOf, StrayOf
  <2>. QED
    BY <1>1, <1>2, <1>5, <2>1, <2>2, <2>3, BooksQuiet DEF ProbeInv
<1>6. ASSUME NEW outcome \in {None, "success", "failure"}, NEW plan \in Plans, plan # <<"record">>,
             NEW status \in {"none", "2xx", "4xx", "5xx", "503"}, Then(q, outcome, plan, status)
      PROVE  BookInv'
  <2>. DEFINE x == [req[q] EXCEPT !.pc = "after", !.outcome = outcome, !.after = plan, !.status = status]
  <2>1. /\ x \in Entries /\ x.pc = "after" /\ x.after = plan /\ x.todo = req[q].todo /\ x.held = req[q].held
        /\ x.leased = req[q].leased /\ x.sent = req[q].sent /\ x.retry = req[q].retry /\ x.status = status
    BY <1>2 DEF Entries
  <2>2. req' = [req EXCEPT ![q] = x]
    BY <1>4, <1>6 DEF Then
  <2>. HIDE DEF x
  <2>. QED
    BY <1>5, <1>6, <2>1, <2>2
<1>7. CASE req' = [req EXCEPT ![q].pc = "streaming", ![q].status = "2xx"]
  <2>. DEFINE x == [req[q] EXCEPT !.pc = "streaming", !.status = "2xx"]
  <2>1. /\ x \in Entries /\ x.pc = "streaming" /\ x.todo = req[q].todo /\ x.held = req[q].held
        /\ x.leased = req[q].leased /\ x.sent = req[q].sent /\ x.retry = req[q].retry /\ x.status = "2xx"
    BY <1>2 DEF Entries
  <2>2. req' = [req EXCEPT ![q] = x]
    BY <1>4, <1>7
  <2>. HIDE DEF x
  <2>. QED
    BY <1>5, <2>1, <2>2
<1>8. CASE StreamUnread(q)
  <2>. DEFINE x == [req[q] EXCEPT !.pc = "done", !.todo = <<>>]
  <2>1. /\ x \in Entries /\ x.pc = "done" /\ x.todo = <<>> /\ x.held = req[q].held
        /\ x.leased = req[q].leased /\ x.sent = req[q].sent /\ x.retry = req[q].retry /\ x.status = req[q].status
    BY <1>2, EmptySeq DEF Entries
  <2>2. req' = [req EXCEPT ![q] = x]
    BY <1>4, <1>8 DEF StreamUnread
  <2>. HIDE DEF x
  <2>3. Len(x.todo) = 0
    BY <2>1
  <2>4. ~(Len(x.todo) > 0)
    BY <2>3
  <2>5. Sound(x)
    BY <1>3, <1>4, <2>1, <2>3 DEF Sound, Holding, Trying
  <2>6. LeaseBooks'
    BY <1>1, <2>1, <2>2, <2>4, LeasesKept DEF BookInv, ProbeInv
  <2>7. ASSUME NEW r \in Replicas, NEW s \in Targets
        PROVE  IF r = Here(q) THEN SlotMoves(req[q], x, local[r][s].used, local'[r][s].used, s)
               ELSE local'[r][s].used = local[r][s].used
    <3>1. ~HolderOf(x, s) /\ ~StrayOf(req[q], s)
      BY <1>1, <2>4 DEF HolderOf, StrayOf
    <3>2. CASE s = Head(req[q].todo)
      <4>1. HolderOf(req[q], s) /\ StrayOf(x, s)
        BY <1>3, <2>1, <3>2 DEF HolderOf, StrayOf
      <4>. QED
        BY <1>1, <3>1, <4>1 DEF SlotMoves, SlotLeft
    <3>3. CASE s # Head(req[q].todo)
      <4>1. ~HolderOf(req[q], s)
        BY <3>3 DEF HolderOf
      <4>. QED
        BY <1>1, <3>1, <4>1 DEF SlotMoves, SlotStays
    <3>. QED
      BY <3>2, <3>3
  <2>8. SlotBooks'
    BY <1>1, <1>2, <2>1, <2>2, <2>7, SlotsMove DEF BookInv, ProbeInv
  <2>. QED
    BY <1>1, <1>2, <2>1, <2>2, <2>5, <2>6, <2>8, BooksMove DEF ProbeInv
<1>9. /\ <<"release", "record">> \in Plans /\ <<"record", "release">> \in Plans /\ <<"release">> \in Plans
      /\ <<"release", "record">> # <<"record">> /\ <<"record", "release">> # <<"record">> /\ <<"release">> # <<"record">>
  BY DEF Plans
<1>10. CASE Responds(q)
  BY <1>6, <1>7, <1>9, <1>10 DEF Responds
<1>11. CASE CallFails(q)
  <2>1. req[q].status \in {"none", "2xx", "4xx", "5xx", "503"}
    BY <1>2, <1>3 DEF Entries
  <2>. QED
    BY <1>6, <1>9, <1>11, <2>1 DEF CallFails
<1>12. CASE StreamEnds(q)
  BY <1>6, <1>9, <1>12 DEF StreamEnds
<1>. QED
  BY <1>8, <1>10, <1>11, <1>12

\* What a plan has left, and whether the slot is still to be given back.
LEMMA PlanLeft ==
    ASSUME NEW s \in Plans, s # <<>>
    PROVE  /\ Head(s) = "record" => /\ Len(s) > 1 => s # <<"record">> /\ Tail(s) # <<"record">>
                                    /\ ~(Len(s) > 1) => s = <<"record">>
           /\ Head(s) = "release" => s # <<"record">> /\ (Len(s) > 1 => Tail(s) = <<"record">>)
<1>1. CASE s = <<"release", "record">>
  BY <1>1 DEF Plans
<1>2. CASE s = <<"record", "release">>
  BY <1>2 DEF Plans
<1>3. CASE s = <<"release">>
  BY <1>3 DEF Plans
<1>4. CASE s = <<"record">>
  BY <1>4 DEF Plans
<1>. QED
  BY <1>1, <1>2, <1>3, <1>4 DEF Plans

\* The last of the steps after a call, of a request that holds nothing any more.
LEMMA FinishSound ==
    ASSUME NEW q, NEW rec \in Entries, rec.pc = "after", Len(rec.todo) > 0, Head(rec.todo) \in rec.sent,
           ~rec.held, ~rec.leased, rec.status # "429", rec.after \in Plans, rec.after # <<>>,
           Len(rec.after) > 1 => Tail(rec.after) = <<"record">>,
           ~rec.retry => Len(rec.todo) = 1 /\ rec.sent \subseteq {Head(rec.todo)}
    PROVE  /\ Finish(q, rec) \in Entries /\ Sound(Finish(q, rec)) /\ ~Finish(q, rec).held
           /\ Finish(q, rec).pc # "idle"
<1>1. rec.todo \in Seq(Targets)
  BY DEF Entries
<1>2. Head(rec.todo) \in Targets
  BY <1>1, FirstTarget
<1>3. CASE Len(rec.after) > 1
  <2>. DEFINE x == [rec EXCEPT !.after = Tail(rec.after)]
  <2>1. <<"record">> \in Plans
    BY DEF Plans
  <2>2. /\ x \in Entries /\ x.pc = "after" /\ x.after = <<"record">> /\ x.todo = rec.todo /\ x.held = rec.held
        /\ x.leased = rec.leased /\ x.sent = rec.sent /\ x.retry = rec.retry /\ x.status = rec.status
    BY <1>3, <2>1 DEF Entries
  <2>3. Finish(q, rec) = x
    BY <1>3 DEF Finish
  <2>. HIDE DEF x
  <2>4. Sound(x)
    BY <1>2, <2>2 DEF Sound, Holding, Trying
  <2>. QED
    BY <2>2, <2>3, <2>4
<1>4. CASE ~(Len(rec.after) > 1)
  <2>. DEFINE end == [rec EXCEPT !.after = <<>>, !.outcome = None]
  <2>1. /\ end \in Entries /\ end.todo = rec.todo /\ end.held = rec.held /\ end.pc = rec.pc
        /\ end.leased = rec.leased /\ end.sent = rec.sent /\ end.retry = rec.retry /\ end.status = rec.status
    BY DEF Entries, Plans
  <2>2. CASE rec.outcome = "failure" /\ rec.status # "2xx"
    <3>1. Finish(q, rec) = Onward(q, end)
      BY <1>4, <2>2 DEF Finish
    <3>. HIDE DEF end
    <3>. QED
      BY <2>1, <2>2, <3>1, OnwardSound
  <2>3. CASE ~(rec.outcome = "failure" /\ rec.status # "2xx")
    <3>. DEFINE x == [end EXCEPT !.pc = "done", !.todo = <<>>]
    <3>1. Finish(q, rec) = x
      BY <1>4, <2>3 DEF Finish
    <3>. HIDE DEF end
    <3>2. /\ x \in Entries /\ x.pc = "done" /\ x.todo = <<>> /\ x.held = rec.held
          /\ x.leased = rec.leased /\ x.sent = rec.sent /\ x.retry = rec.retry
      BY <2>1, EmptySeq DEF Entries
    <3>. HIDE DEF x
    <3>3. Sound(x)
      BY <1>2, <3>2, DoneSound
    <3>. QED
      BY <3>1, <3>2, <3>3
  <2>. QED
    BY <2>2, <2>3
<1>. QED
  BY <1>3, <1>4

\* The entry of one target changes and its slots do not.
LEMMA UsedSame ==
    ASSUME SlotBooks, NEW r \in Replicas, NEW t \in Targets, NEW y \in LocalTargets, y.used = local[r][t].used,
           local' = [local EXCEPT ![r][t] = y]
    PROVE  /\ local' \in [Replicas -> [Targets -> LocalTargets]]
           /\ \A s \in Replicas, u \in Targets : local'[s][u].used = local[s][u].used
<1>1. local \in [Replicas -> [Targets -> LocalTargets]]
  BY DEF SlotBooks
<1>2. /\ local' \in [Replicas -> [Targets -> LocalTargets]] /\ local'[r][t] = y
      /\ \A s \in Replicas, u \in Targets : s # r \/ u # t => local'[s][u] = local[s][u]
  BY <1>1
<1>. QED
  BY <1>2

\* The outcome of a call is recorded, before the slot is given back or after it.
LEMMA RecordBooks ==
    ASSUME GatewayAssumption, ProbeInv, BookInv, NEW q \in Requests, Record(q)
    PROVE  BookInv'
<1>1. /\ req[q].pc = "after" /\ setup' = setup /\ UNCHANGED rates /\ leases' = leases
      /\ Head(req[q].after) = "record"
  BY DEF Record, At
<1>2. /\ q \in DOMAIN setup.at /\ req[q] \in Entries /\ Fits(req[q]) /\ Sound(req[q]) /\ Counted(req[q])
      /\ req[q].after \in Plans /\ Here(q) \in Replicas /\ local \in [Replicas -> [Targets -> LocalTargets]]
      /\ Len(req[q].todo) > 0 => /\ Target(q) \in Targets /\ Target(q) = Head(req[q].todo)
                                 /\ local[Here(q)][Target(q)] \in LocalTargets
  BY <1>1, BookEntry
<1>3. /\ Len(req[q].todo) > 0 /\ req[q].after # <<>> /\ req[q].status # "429" /\ Head(req[q].todo) \in req[q].sent
      /\ ~req[q].retry => Len(req[q].todo) = 1 /\ req[q].sent \subseteq {Head(req[q].todo)}
      /\ req[q].held <=> req[q].after # <<"record">>
      /\ req[q].leased => req[q].held
  BY <1>1, <1>2 DEF Fits, Sound, Holding, Trying
<1>. DEFINE t == Target(q)
            old == local[Here(q)][t]
            y == IF req[q].outcome = "failure" THEN Failed(old) ELSE [old EXCEPT !.fails = 0, !.open = "closed"]
            rec == [req[q] EXCEPT !.probe = 0]
            x == Finish(q, rec)
<1>4. t \in Targets /\ old \in LocalTargets
  BY <1>2, <1>3
<1>5. y \in LocalTargets /\ y.used = old.used
  <2>. HIDE DEF old
  <2>1. old.fails \in Nat /\ old.open \in Opens
    BY <1>4 DEF LocalTargets
  <2>2. Failed(old) \in LocalTargets /\ Failed(old).used = old.used
    <3>1. old.fails + 1 \in Nat /\ (IF old.fails + 1 >= FailureThreshold THEN "open" ELSE old.open) \in Opens
      BY <2>1 DEF Opens
    <3>. QED
      BY <1>4, <3>1 DEF Failed, LocalTargets
  <2>3. [old EXCEPT !.fails = 0, !.open = "closed"] \in LocalTargets /\ [old EXCEPT !.fails = 0, !.open = "closed"].used = old.used
    BY <1>4 DEF LocalTargets, Opens
  <2>. QED
    BY <2>2, <2>3
<1>6. local' = [local EXCEPT ![Here(q)][t] = y] /\ req' = [req EXCEPT ![q] = x]
  BY DEF Record
<1>. HIDE DEF y
<1>7. /\ local' \in [Replicas -> [Targets -> LocalTargets]]
      /\ \A s \in Replicas, u \in Targets : local'[s][u].used = local[s][u].used
  BY <1>2, <1>4, <1>5, <1>6, UsedSame DEF BookInv
<1>8. /\ rec \in Entries /\ rec.pc = "after" /\ rec.after = req[q].after /\ rec.todo = req[q].todo
      /\ rec.held = req[q].held /\ rec.leased = req[q].leased /\ rec.sent = req[q].sent
      /\ rec.retry = req[q].retry /\ rec.status = req[q].status
  BY <1>1, <1>2 DEF Entries
<1>. HIDE DEF rec
<1>9. CASE Len(req[q].after) > 1
  <2>. DEFINE z == [rec EXCEPT !.after = Tail(rec.after)]
  <2>1. x = z
    BY <1>8, <1>9 DEF Finish
  <2>2. Tail(req[q].after) \in Plans /\ Tail(req[q].after) # <<"record">> /\ req[q].after # <<"record">>
    BY <1>1, <1>2, <1>3, <1>9, PlanSteps, PlanLeft
  <2>3. /\ z \in Entries /\ z.pc = "after" /\ z.after = Tail(req[q].after) /\ z.todo = req[q].todo
        /\ z.held = req[q].held /\ z.leased = req[q].leased /\ z.sent = req[q].sent
        /\ z.retry = req[q].retry /\ z.status = req[q].status
    BY <1>8, <2>2 DEF Entries
  <2>. HIDE DEF z
  <2>4. Sound(z)
    BY <1>2, <1>3, <1>4, <2>2, <2>3 DEF Sound, Holding, Trying
  <2>5. req' = [req EXCEPT ![q] = z]
    BY <1>6, <2>1
  <2>6. LeaseBooks'
    BY <1>1, <2>3, <2>5, LeasesKept DEF BookInv, ProbeInv
  <2>7. \A s \in Targets : (HolderOf(z, s) <=> HolderOf(req[q], s)) /\ (StrayOf(req[q], s) => StrayOf(z, s))
    BY <1>1, <2>3 DEF HolderOf, StrayOf
  <2>. QED
    BY <1>1, <1>2, <1>7, <2>3, <2>4, <2>5, <2>6, <2>7, BooksQuiet DEF ProbeInv
<1>10. CASE ~(Len(req[q].after) > 1)
  <2>1. req[q].after = <<"record">>
    BY <1>1, <1>2, <1>3, <1>10, PlanLeft
  <2>2. ~req[q].held /\ ~req[q].leased
    BY <1>3, <2>1
  <2>3. x \in Entries /\ Sound(x) /\ ~x.held /\ x.pc # "idle"
    BY <1>2, <1>3, <1>8, <1>10, <2>2, FinishSound
  <2>. HIDE DEF x
  <2>. QED
    BY <1>1, <1>2, <1>6, <1>7, <2>2, <2>3, BooksFree DEF ProbeInv
<1>. QED
  BY <1>9, <1>10

\* The slot is given back and the lease ended, unless the store loses that.
LEMMA ReleaseBooks ==
    ASSUME GatewayAssumption, ProbeInv, BookInv, NEW q \in Requests, Release(q)
    PROVE  BookInv'
<1>1. /\ req[q].pc = "after" /\ setup' = setup /\ UNCHANGED rates /\ local' = SlotBack(q)
      /\ Head(req[q].after) = "release"
  BY DEF Release, At
<1>2. /\ q \in DOMAIN setup.at /\ req[q] \in Entries /\ Fits(req[q]) /\ Sound(req[q]) /\ req[q].after \in Plans
      /\ Len(req[q].todo) > 0 => Target(q) \in Targets /\ Target(q) = Head(req[q].todo)
  BY <1>1, BookEntry
<1>3. /\ Len(req[q].todo) > 0 /\ req[q].after # <<>> /\ req[q].status # "429" /\ Head(req[q].todo) \in req[q].sent
      /\ ~req[q].retry => Len(req[q].todo) = 1 /\ req[q].sent \subseteq {Head(req[q].todo)}
      /\ req[q].held <=> req[q].after # <<"record">>
  BY <1>1, <1>2 DEF Fits, Sound, Holding, Trying
<1>4. req[q].held /\ (Len(req[q].after) > 1 => Tail(req[q].after) = <<"record">>)
  BY <1>1, <1>2, <1>3, PlanLeft
<1>. DEFINE t == Target(q)
            rec == [req[q] EXCEPT !.held = FALSE, !.leased = FALSE]
            x == Finish(q, rec)
<1>5. t \in Targets /\ req' = [req EXCEPT ![q] = x]
  BY <1>2, <1>3 DEF Release
<1>6. /\ rec \in Entries /\ rec.pc = "after" /\ rec.after = req[q].after /\ rec.todo = req[q].todo
      /\ rec.held = FALSE /\ rec.leased = FALSE /\ rec.sent = req[q].sent
      /\ rec.retry = req[q].retry /\ rec.status = req[q].status
  BY <1>1, <1>2 DEF Entries
<1>. HIDE DEF rec
<1>7. x \in Entries /\ Sound(x) /\ ~x.held /\ x.pc # "idle"
  BY <1>2, <1>3, <1>4, <1>6, FinishSound
<1>. HIDE DEF x
<1>8. ~x.leased
  BY <1>7 DEF Sound, Holding
<1>9. LeaseBooks'
  <2>1. CASE leases' = leases
    BY <1>5, <1>7, <1>8, <2>1, LeasesKept DEF BookInv, ProbeInv
  <2>2. CASE leases' = [leases EXCEPT ![t] = @ \ {q}]
    BY <1>5, <1>7, <1>8, <2>2, LeaseRemoved DEF BookInv, ProbeInv
  <2>. QED
    BY <2>1, <2>2 DEF Release
<1>. QED
  BY <1>1, <1>4, <1>5, <1>7, <1>9, GiveBooks

\* A step that moves no request.
LEMMA BooksStay ==
    ASSUME BookInv, setup' = setup, req' = req, UNCHANGED rates, LeaseBooks',
           local' \in [Replicas -> [Targets -> LocalTargets]],
           \A r \in Replicas, t \in Targets : local'[r][t].used = local[r][t].used
    PROVE  BookInv'
<1>1. bucket' = bucket /\ recent' = recent /\ credit' = credit
  BY DEF rates
<1>2. Arrivals'
  BY DEF BookInv, Arrivals, Active
<1>3. TableBooks' /\ RateBooks'
  <2>1. \A p, c : Granted(p, c)' = Granted(p, c) /\ Tokens(p, c)' = Tokens(p, c)
    BY <1>1 DEF Granted, Tokens, PlaceOf, Here, shared, Counted
  <2>. QED
    BY <1>1, <2>1 DEF BookInv, TableBooks, RateBooks
<1>4. SlotBooks'
  <2>1. \A r, t : Holders(r, t)' = Holders(r, t) /\ Strays(r, t)' = Strays(r, t)
    BY DEF Holders, Strays, HolderOf, StrayOf
  <2>. QED
    BY <2>1 DEF BookInv, SlotBooks
<1>. QED
  BY <1>2, <1>3, <1>4 DEF BookInv

\* Time, and the health endpoint.
LEMMA TimeBooks ==
    ASSUME GatewayAssumption, ProbeInv, BookInv,
           \/ UNCHANGED vars
           \/ \E r \in Replicas : Health(r) \/ \E t \in Targets : CoolLocal(r, t)
           \/ \E t \in Targets : CoolShared(t) \/ CircuitKeyExpires(t) \/ \E q \in Requests : LeaseExpires(t, q)
    PROVE  BookInv'
<1>1. /\ local \in [Replicas -> [Targets -> LocalTargets]] /\ setup \in Setups /\ req \in [Requests -> Entries]
      /\ GatewayShape /\ LeaseBooks /\ SlotBooks
  BY DEF BookInv, SlotBooks, ProbeInv, GatewayShape
<1>2. ASSUME setup' = setup, req' = req, UNCHANGED rates, leases' = leases,
             local' \in [Replicas -> [Targets -> LocalTargets]],
             \A r \in Replicas, t \in Targets : local'[r][t].used = local[r][t].used
      PROVE  BookInv'
  <2>1. LeaseBooks'
    BY <1>2 DEF BookInv, LeaseBooks
  <2>. QED
    BY <1>2, <2>1, BooksStay
<1>3. CASE UNCHANGED vars
  BY <1>1, <1>2, <1>3 DEF vars, rates
<1>4. ASSUME NEW r \in Replicas, Health(r) PROVE BookInv'
  <2>1. /\ local' \in [Replicas -> [Targets -> LocalTargets]]
        /\ \A s \in Replicas, t \in Targets : local'[s][t].used = local[s][t].used
    BY <1>1, <1>4, CircuitsAsked DEF Health
  <2>. QED
    BY <1>2, <1>4, <2>1 DEF Health
<1>5. ASSUME NEW r \in Replicas, NEW t \in Targets, CoolLocal(r, t) PROVE BookInv'
  <2>. DEFINE y == [local[r][t] EXCEPT !.open = "cooled"]
  <2>1. y \in LocalTargets /\ y.used = local[r][t].used
    BY <1>1 DEF LocalTargets, Opens
  <2>2. local' = [local EXCEPT ![r][t] = y]
    BY <1>1, <1>5 DEF CoolLocal
  <2>. HIDE DEF y
  <2>3. /\ local' \in [Replicas -> [Targets -> LocalTargets]]
        /\ \A s \in Replicas, u \in Targets : local'[s][u].used = local[s][u].used
    BY <1>1, <2>1, <2>2, UsedSame
  <2>. QED
    BY <1>2, <1>5, <2>3 DEF CoolLocal
<1>6. ASSUME NEW t \in Targets, CoolShared(t) \/ CircuitKeyExpires(t) PROVE BookInv'
  BY <1>1, <1>2, <1>6 DEF CoolShared, CircuitKeyExpires
<1>7. ASSUME NEW t \in Targets, NEW q \in Requests, LeaseExpires(t, q) PROVE BookInv'
  <2>. DEFINE x == [req[q] EXCEPT !.leased = FALSE]
  <2>1. req[q] \in Entries /\ Sound(req[q])
    BY <1>1 DEF BookInv, Arrivals
  <2>2. /\ x \in Entries /\ x.leased = FALSE /\ x.pc = req[q].pc /\ x.after = req[q].after /\ x.todo = req[q].todo
        /\ x.held = req[q].held /\ x.sent = req[q].sent /\ x.retry = req[q].retry /\ x.status = req[q].status
    BY <2>1 DEF Entries
  <2>3. /\ req' = [req EXCEPT ![q] = x] /\ leases' = [leases EXCEPT ![t] = @ \ {q}]
        /\ setup' = setup /\ UNCHANGED rates /\ local' = local
    BY <1>1, <1>7 DEF LeaseExpires
  <2>4. req[q].leased = FALSE => x = req[q]
    BY <2>1 DEF Entries
  <2>. HIDE DEF x
  <2>5. LeaseBooks'
    BY <1>1, <2>2, <2>3, LeaseRemoved
  <2>6. CASE req[q].leased
    <3>1. q \in DOMAIN setup.at /\ req[q].pc # "idle"
      BY <2>1, <2>6 DEF Sound, Holding, BookInv, Arrivals, Active
    <3>2. Sound(x)
      BY <2>1, <2>2 DEF Sound, Holding, Trying
    <3>3. \A s \in Targets : (HolderOf(x, s) <=> HolderOf(req[q], s)) /\ (StrayOf(req[q], s) => StrayOf(x, s))
      BY <2>2 DEF HolderOf, StrayOf
    <3>4. Counted(x) => Counted(req[q])
      BY <2>2 DEF Counted
    <3>. QED
      BY <1>1, <2>2, <2>3, <2>5, <3>1, <3>2, <3>3, <3>4, BooksQuiet
  <2>7. CASE ~req[q].leased
    <3>1. req[q].leased = FALSE
      BY <2>1, <2>7 DEF Entries
    <3>2. req' = req
      BY <1>1, <2>3, <2>4, <3>1
    <3>. QED
      BY <1>1, <2>3, <2>5, <3>2, BooksStay
  <2>. QED
    BY <2>6, <2>7
<1>. QED
  BY <1>3, <1>4, <1>5, <1>6, <1>7

\* The members of a list with one more.
LEMMA MembersAppend ==
    ASSUME NEW A, NEW s \in Seq(A), NEW e \in A
    PROVE  Append(s, e) \in Seq(A) /\ Members(Append(s, e)) = Members(s) \cup {e}
<1>1. /\ Len(s) \in Nat /\ Len(Append(s, e)) = Len(s) + 1 /\ Append(s, e)[Len(s) + 1] = e
      /\ \A i \in 1..Len(s) : Append(s, e)[i] = s[i]
  OBVIOUS
<1>2. 1..(Len(s) + 1) = (1..Len(s)) \cup {Len(s) + 1}
  BY <1>1
<1>. QED
  BY <1>1, <1>2 DEF Members

\* A list has no more members than places.
LEMMA MembersCount ==
    ASSUME NEW A, NEW s \in Seq(A)
    PROVE  IsFiniteSet(Members(s)) /\ Cardinality(Members(s)) \in Nat /\ Cardinality(Members(s)) <= Len(s)
<1>. DEFINE f == [i \in 1..Len(s) |-> s[i]]
<1>1. f \in Surjection(1..Len(s), Members(s))
  BY DEF Surjection, Members
<1>2. Len(s) \in Nat
  OBVIOUS
<1>3. IsFiniteSet(1..Len(s)) /\ Cardinality(1..Len(s)) = Len(s)
  BY <1>2, FS_Interval
<1>. HIDE DEF f
<1>4. IsFiniteSet(Members(s)) /\ Cardinality(Members(s)) <= Cardinality(1..Len(s))
  BY <1>1, <1>3, FS_Surjection
<1>. QED
  BY <1>3, <1>4, FS_CardinalityType

\* A replica's table of buckets stays as large as it may be: the bucket of a new
\* caller is made in a free place, or in that of the least recently used one.
LEMMA TableStep ==
    ASSUME GatewayAssumption, setup \in Setups, TableBooks, NEW r \in Replicas, NEW c \in Callers,
           NEW gone \in Evictions(r, c)
    PROVE  LET D == (DOMAIN bucket[r] \ gone) \cup {c}
               s == Append(Filtered(recent[r], Callers \ (gone \cup {c})), c)
           IN  s \in Seq(Callers) /\ Members(s) = D /\ Cardinality(D) <= MaxBuckets
<1>. DEFINE old == recent[r]
            E == DOMAIN bucket[r]
            D == (E \ gone) \cup {c}
            T == Callers \ (gone \cup {c})
            s == Append(Filtered(old, T), c)
<1>1. /\ old \in Seq(Callers) /\ Members(old) = E /\ Cardinality(E) <= MaxBuckets
      /\ MaxBuckets \in Nat /\ MaxBuckets > 0
  BY SetupFacts DEF TableBooks
<1>2. IsFiniteSet(E) /\ Cardinality(E) \in Nat /\ Cardinality(E) <= Len(old) /\ E \subseteq Callers
  <2>1. \A i \in 1..Len(old) : old[i] \in Callers
    BY <1>1
  <2>. HIDE DEF E
  <2>. QED
    BY <1>1, <2>1, MembersCount DEF Members
<1>3. s \in Seq(Callers) /\ Members(s) = D
  <2>1. Filtered(old, T) \in Seq(Callers) /\ Members(Filtered(old, T)) = Members(old) \cap T
    BY <1>1, FilteredMembers
  <2>. DEFINE g == Filtered(old, T)
  <2>. HIDE DEF g
  <2>2. Append(g, c) \in Seq(Callers) /\ Members(Append(g, c)) = Members(g) \cup {c}
    BY <2>1, MembersAppend DEF g
  <2>3. Members(g) \cup {c} = D
    BY <1>1, <1>2, <2>1 DEF g
  <2>. QED
    BY <2>2, <2>3 DEF g
<1>4. Cardinality(D) <= MaxBuckets
  <2>1. CASE c \in E \/ Len(old) < MaxBuckets
    <3>1. gone = {}
      BY <2>1 DEF Evictions
    <3>2. D = E \cup {c}
      BY <3>1
    <3>3. Cardinality(E \cup {c}) = IF c \in E THEN Cardinality(E) ELSE Cardinality(E) + 1
      BY <1>2, FS_AddElement
    <3>4. Len(old) \in Nat
      BY <1>1
    <3>. HIDE DEF E, D, old
    <3>5. Cardinality(E \cup {c}) <= MaxBuckets
      BY <1>1, <1>2, <2>1, <3>3, <3>4
    <3>. QED
      BY <3>2, <3>5
  <2>2. CASE ~(c \in E \/ Len(old) < MaxBuckets)
    <3>1. PICK k \in 1..Len(old) : gone = {old[i] : i \in 1..k}
      BY <2>2 DEF Evictions
    <3>2. old[1] \in gone /\ old[1] \in E
      <4>1. 1 \in 1..k /\ 1 \in 1..Len(old)
        BY <1>1, <3>1
      <4>. QED
        BY <1>1, <3>1, <4>1 DEF Members
    <3>3. E \ gone \subseteq E \ {old[1]}
      BY <3>2
    <3>4. IsFiniteSet(E \ {old[1]}) /\ Cardinality(E \ {old[1]}) = Cardinality(E) - 1
      BY <1>2, <3>2, FS_RemoveElement
    <3>5. IsFiniteSet(E \ gone) /\ Cardinality(E \ gone) <= Cardinality(E) - 1
      BY <3>3, <3>4, FS_Subset
    <3>6. Cardinality(E \ gone) \in Nat
      BY <3>5, FS_CardinalityType
    <3>7. Cardinality(D) = IF c \in E \ gone THEN Cardinality(E \ gone) ELSE Cardinality(E \ gone) + 1
      BY <3>5, FS_AddElement
    <3>. HIDE DEF E, D
    <3>. QED
      BY <1>1, <1>2, <3>5, <3>6, <3>7
  <2>. QED
    BY <2>1, <2>2
<1>. QED
  BY <1>3, <1>4

\* A caller's tokens are a number.
LEMMA TokensType ==
    ASSUME GatewayAssumption, setup \in Setups, bucket \in [Places -> Buckets], NEW p \in Places
    PROVE  /\ bucket[p] \in [DOMAIN bucket[p] -> 0..Rate] /\ DOMAIN bucket[p] \subseteq Callers
           /\ \A c : Tokens(p, c) \in 0..Rate /\ Tokens(p, c) \in Nat
           /\ Rate \in Nat /\ Rate > 0
<1>1. PICK D \in SUBSET Callers : bucket[p] \in [D -> 0..Rate]
  BY DEF Buckets
<1>2. Rate \in Nat /\ Rate > 0
  BY SetupFacts
<1>3. DOMAIN bucket[p] = D
  BY <1>1
<1>4. \A c : Tokens(p, c) \in 0..Rate
  BY <1>1, <1>2, <1>3 DEF Tokens
<1>. QED
  BY <1>1, <1>2, <1>3, <1>4

\* One bucket changes, by what a request was granted and what was credited.
LEMMA RatesMove ==
    ASSUME GatewayAssumption, setup \in Setups, bucket \in [Places -> Buckets], RateBooks, setup' = setup,
           NEW p \in Places, NEW c \in Callers, NEW b \in Buckets, bucket' = [bucket EXCEPT ![p] = b],
           NEW more \in Nat, credit' = [credit EXCEPT ![p][c] = @ + more],
           \A e \in Callers \ {c} : e \in DOMAIN b => e \in DOMAIN bucket[p] /\ b[e] = bucket[p][e],
           \A o \in Places, e \in Callers : o # p \/ e # c => Granted(o, e)' = Granted(o, e),
           \A o \in Places, e \in Callers : Cardinality(Granted(o, e)) \in Nat,
           Cardinality(Granted(p, c)') \in Nat, c \in DOMAIN b,
           Cardinality(Granted(p, c)') + b[c] <= Cardinality(Granted(p, c)) + Tokens(p, c) + more
    PROVE  RateBooks' /\ bucket' \in [Places -> Buckets]
<1>1. /\ bucket' \in [Places -> Buckets] /\ bucket'[p] = b
      /\ \A o \in Places : o # p => bucket'[o] = bucket[o]
  OBVIOUS
<1>2. credit \in [Places -> [Callers -> Nat]]
  BY DEF RateBooks
<1>3. /\ credit' \in [Places -> [Callers -> Nat]] /\ credit'[p][c] = credit[p][c] + more
      /\ \A o \in Places, e \in Callers : o # p \/ e # c => credit'[o][e] = credit[o][e]
  BY <1>2
<1>4. ASSUME NEW o \in Places, NEW e \in Callers
      PROVE  Cardinality(Granted(o, e)') + Tokens(o, e)' <= credit'[o][e]
  <2>1. Cardinality(Granted(o, e)) + Tokens(o, e) <= credit[o][e] /\ credit[o][e] \in Nat
    BY <1>2 DEF RateBooks
  <2>2. Tokens(o, e) \in Nat /\ Tokens(o, e)' \in Nat
    BY <1>1, TokensType DEF Tokens, Buckets
  <2>3. Cardinality(Granted(o, e)) \in Nat
    OBVIOUS
  <2>4. CASE o = p /\ e = c
    <3>1. Tokens(o, e)' = b[c]
      BY <1>1, <2>4 DEF Tokens
    <3>2. credit'[o][e] = credit[o][e] + more /\ Cardinality(Granted(o, e)') \in Nat
      BY <1>3, <2>4
    <3>3. Cardinality(Granted(o, e)') + Tokens(o, e)' <= Cardinality(Granted(o, e)) + Tokens(o, e) + more
      BY <2>4, <3>1
    <3>. QED
      BY <2>1, <2>2, <2>3, <3>2, <3>3
  <2>5. CASE o # p \/ e # c
    <3>1. Granted(o, e)' = Granted(o, e) /\ credit'[o][e] = credit[o][e]
      BY <1>3, <2>5
    <3>2. Tokens(o, e)' = Tokens(o, e) \/ Tokens(o, e)' = 0
      BY <1>1, <2>5 DEF Tokens
    <3>. QED
      BY <2>1, <2>2, <2>3, <3>1, <3>2
  <2>. QED
    BY <2>4, <2>5
<1>. QED
  BY <1>1, <1>3, <1>4 DEF RateBooks

\* Arrival: one token for one request.
LEMMA RateLimitBooks ==
    ASSUME GatewayAssumption, ProbeInv, BookInv, NEW q \in Requests, RateLimit(q)
    PROVE  BookInv'
<1>1. /\ q \in DOMAIN setup.at /\ req[q] \in Entries /\ Fits(req[q]) /\ Sound(req[q]) /\ Here(q) \in Replicas
      /\ local \in [Replicas -> [Targets -> LocalTargets]] /\ req[q].pc = "idle"
  BY BookEntry DEF RateLimit, At
<1>2. /\ req \in [Requests -> Entries] /\ setup' = setup /\ setup \in Setups /\ leases' = leases /\ local' = local
      /\ GatewayShape
  BY DEF ProbeInv, GatewayShape, RateLimit
<1>. DEFINE c == CallerOf[q]
            p == PlaceOf(q)
<1>3. /\ setup.retries \subseteq BOOLEAN /\ setup.streams \subseteq BOOLEAN /\ c \in Callers /\ p \in Places
      /\ DOMAIN setup.at \subseteq Requests
  BY <1>1, <1>2, SetupFacts
<1>. DEFINE known == c \in DOMAIN bucket[p]
            have == IF known THEN bucket[p][c] ELSE Rate
            ok == have >= 1
            new == IF ok THEN have - 1 ELSE have
            more == IF known THEN 0 ELSE Rate
<1>4. PICK gone \in (IF shared THEN {{}} ELSE Evictions(Here(q), c)) :
        /\ bucket' = [bucket EXCEPT ![p] = [e \in (DOMAIN bucket[p] \ gone) \cup {c} |->
                                              IF e # c THEN bucket[p][e] ELSE IF ok THEN have - 1 ELSE have]]
        /\ recent' = IF shared THEN recent
                     ELSE [recent EXCEPT ![Here(q)] = Append(Filtered(recent[Here(q)], Callers \ (gone \cup {c})), c)]
  <2>1. bucket \in [Places -> Buckets] /\ recent \in [Replicas -> Seq(Callers)]
    BY DEF BookInv, TableBooks
  <2>. QED
    BY <1>1, <1>3, <2>1 DEF RateLimit
<1>5. credit' = IF known THEN credit ELSE [credit EXCEPT ![p][c] = @ + Rate]
  BY <1>3 DEF RateLimit
<1>6. PICK retry \in setup.retries, stream \in setup.streams :
        req' = [req EXCEPT ![q].retry = retry, ![q].stream = stream,
                           ![q].pc = IF ok THEN "select" ELSE "done",
                           ![q].status = IF ok THEN @ ELSE "429"]
  BY <1>3 DEF RateLimit
<1>7. /\ bucket \in [Places -> Buckets] /\ bucket[p] \in [DOMAIN bucket[p] -> 0..Rate] /\ DOMAIN bucket[p] \subseteq Callers
      /\ Rate \in Nat /\ Rate > 0 /\ Tokens(p, c) = (IF known THEN bucket[p][c] ELSE 0) /\ Tokens(p, c) \in Nat
  BY <1>2, <1>3, TokensType DEF BookInv, TableBooks, Tokens
<1>8. have \in 0..Rate /\ new \in 0..Rate /\ more \in Nat /\ have = Tokens(p, c) + more
  <2>1. CASE known
    BY <1>7, <2>1
  <2>2. CASE ~known
    BY <1>7, <2>2
  <2>. QED
    BY <2>1, <2>2
<1>9. credit' = [credit EXCEPT ![p][c] = @ + more]
  <2>1. credit \in [Places -> [Callers -> Nat]]
    BY DEF BookInv, RateBooks
  <2>2. CASE known
    <3>1. credit[p][c] + 0 = credit[p][c]
      BY <1>3, <2>1
    <3>. QED
      BY <1>3, <1>5, <2>1, <2>2, <3>1
  <2>3. CASE ~known
    BY <1>5, <2>3
  <2>. QED
    BY <2>2, <2>3
<1>. DEFINE b == [e \in (DOMAIN bucket[p] \ gone) \cup {c} |-> IF e # c THEN bucket[p][e] ELSE new]
            x == [req[q] EXCEPT !.retry = retry, !.stream = stream, !.pc = IF ok THEN "select" ELSE "done",
                                !.status = IF ok THEN req[q].status ELSE "429"]
<1>10. /\ bucket' = [bucket EXCEPT ![p] = b] /\ c \in DOMAIN b /\ b[c] = new
       /\ DOMAIN b = (DOMAIN bucket[p] \ gone) \cup {c}
       /\ \A e \in Callers \ {c} : e \in DOMAIN b => e \in DOMAIN bucket[p] /\ b[e] = bucket[p][e]
  BY <1>4
<1>. HIDE DEF have, new, more, known
<1>11. b \in Buckets
  <2>1. (DOMAIN bucket[p] \ gone) \cup {c} \in SUBSET Callers
    BY <1>3, <1>7
  <2>2. b \in [(DOMAIN bucket[p] \ gone) \cup {c} -> 0..Rate]
    BY <1>7, <1>8
  <2>. QED
    BY <2>1, <2>2 DEF Buckets
<1>12. /\ x \in Entries /\ x.todo = req[q].todo /\ x.held = req[q].held /\ x.leased = req[q].leased
       /\ x.sent = req[q].sent /\ x.pc = (IF ok THEN "select" ELSE "done")
       /\ x.status = (IF ok THEN req[q].status ELSE "429") /\ req' = [req EXCEPT ![q] = x]
  BY <1>1, <1>2, <1>3, <1>6 DEF Entries
<1>. HIDE DEF b, x, ok
<1>13. /\ ~req[q].held /\ ~req[q].leased /\ Len(req[q].todo) = 0 /\ req[q].sent = {}
       /\ req[q].status \notin {"2xx", "429"} /\ ~Counted(req[q])
  BY <1>1 DEF Sound, Holding, Trying, Counted
<1>14. Sound(x) /\ x.pc # "idle"
  BY <1>12, <1>13 DEF Sound, Holding, Trying
<1>15. Counted(x) <=> ok
  BY <1>12, <1>13 DEF Counted
<1>16. /\ Arrivals' /\ req'[q] = x /\ \A a \in Requests : a # q => req'[a] = req[a]
  BY <1>1, <1>2, <1>12, <1>14, ArrivalsMove DEF BookInv
<1>17. SlotBooks'
  <2>1. \A t : ~HolderOf(x, t) /\ ~HolderOf(req[q], t) /\ ~StrayOf(req[q], t)
    BY <1>12, <1>13 DEF HolderOf, StrayOf
  <2>2. ASSUME NEW r \in Replicas, NEW t \in Targets
        PROVE  IF r = Here(q) THEN SlotMoves(req[q], x, local[r][t].used, local'[r][t].used, t)
               ELSE local'[r][t].used = local[r][t].used
    BY <1>2, <2>1 DEF SlotMoves, SlotStays
  <2>. QED
    BY <1>1, <1>2, <1>12, <2>2, SlotsMove DEF BookInv
<1>18. LeaseBooks'
  BY <1>2, <1>12, <1>13, LeasesKept DEF BookInv
<1>19. RateBooks' /\ bucket' \in [Places -> Buckets]
  <2>1. \A o, e : Granted(o, e)' = {a \in DOMAIN setup.at : PlaceOf(a) = o /\ CallerOf[a] = e /\ Counted(req'[a])}
    BY <1>2 DEF Granted, PlaceOf, Here, shared, Counted
  <2>2. \A o \in Places, e \in Callers : o # p \/ e # c => Granted(o, e)' = Granted(o, e)
    BY <1>3, <1>16, <2>1 DEF Granted
  <2>3. \A o, e : IsFiniteSet(Granted(o, e)) /\ Cardinality(Granted(o, e)) \in Nat
    BY <1>2, <1>3, BooksFinite DEF BookInv, Arrivals
  <2>4. PICK o \in Places, d \in Callers : o = p /\ d = c
    BY <1>3
  <2>. DEFINE G == Granted(o, d)
              H == Granted(o, d)'
  <2>5. /\ q \notin G /\ (q \in H <=> ok) /\ \A a : a # q => (a \in H <=> a \in G)
    <3>1. H = {a \in DOMAIN setup.at : PlaceOf(a) = o /\ CallerOf[a] = d /\ Counted(req'[a])}
      BY <2>1
    <3>. HIDE DEF H
    <3>2. G = {a \in DOMAIN setup.at : PlaceOf(a) = o /\ CallerOf[a] = d /\ Counted(req[a])}
      BY DEF Granted
    <3>. QED
      BY <1>1, <1>3, <1>13, <1>15, <1>16, <2>4, <3>1, <3>2
  <2>6. IsFiniteSet(G)
    BY <2>3
  <2>. HIDE DEF G, H
  <2>7. /\ Cardinality(G) \in Nat /\ Cardinality(H) \in Nat
        /\ ok => Cardinality(H) = Cardinality(G) + 1
        /\ ~ok => Cardinality(H) = Cardinality(G)
    BY <2>5, <2>6, OneMoves
  <2>8. Cardinality(H) + new <= Cardinality(G) + Tokens(p, c) + more
    <3>1. CASE ok
      <4>1. new = have - 1
        BY <3>1 DEF new
      <4>. QED
        BY <1>7, <1>8, <2>7, <3>1, <4>1
    <3>2. CASE ~ok
      <4>1. new = have
        BY <3>2 DEF new
      <4>. QED
        BY <1>7, <1>8, <2>7, <3>2, <4>1
    <3>. QED
      BY <3>1, <3>2
  <2>. HIDE DEF c, p
  <2>9. /\ Cardinality(H) + b[d] <= Cardinality(G) + Tokens(o, d) + more /\ d \in DOMAIN b
        /\ bucket' = [bucket EXCEPT ![o] = b] /\ credit' = [credit EXCEPT ![o][d] = @ + more]
    BY <1>9, <1>10, <2>4, <2>8
  <2>10. /\ \A e \in Callers \ {d} : e \in DOMAIN b => e \in DOMAIN bucket[o] /\ b[e] = bucket[o][e]
         /\ \A a \in Places, e \in Callers : a # o \/ e # d => Granted(a, e)' = Granted(a, e)
    BY <1>10, <2>2, <2>4
  <2>11. /\ \A a \in Places, e \in Callers : Cardinality(Granted(a, e)) \in Nat
         /\ Cardinality(Granted(o, d)') \in Nat
         /\ Cardinality(Granted(o, d)') + b[d] <= Cardinality(Granted(o, d)) + Tokens(o, d) + more
    BY <2>3, <2>7, <2>9 DEF G, H
  <2>12. RateBooks
    BY DEF BookInv
  <2>. QED
    BY <1>2, <1>7, <1>8, <1>11, <2>9, <2>10, <2>11, <2>12, RatesMove
<1>20. TableBooks'
  <2>1. /\ recent \in [Replicas -> Seq(Callers)] /\ TableBooks
        /\ \A r \in Replicas : Members(recent[r]) = DOMAIN bucket[r] /\ Cardinality(DOMAIN bucket[r]) <= MaxBuckets
    BY DEF BookInv, TableBooks
  <2>2. bucket'[p] = b /\ \A o \in Places : o # p => bucket'[o] = bucket[o]
    BY <1>3, <1>7, <1>10
  <2>3. CASE shared
    <3>1. p = "redis" /\ recent' = recent /\ "redis" \notin Replicas
      BY <1>2, <1>3, <1>4, <2>3, SetupFacts DEF PlaceOf
    <3>2. \A r \in Replicas : bucket'[r] = bucket[r]
      BY <2>2, <3>1 DEF Places
    <3>. QED
      BY <1>19, <2>1, <3>1, <3>2 DEF TableBooks
  <2>4. CASE ~shared
    <3>. DEFINE s == Append(Filtered(recent[Here(q)], Callers \ (gone \cup {c})), c)
    <3>1. p = Here(q) /\ gone \in Evictions(Here(q), c) /\ recent' = [recent EXCEPT ![Here(q)] = s]
      BY <1>3, <1>4, <2>4 DEF PlaceOf
    <3>2. s \in Seq(Callers) /\ Members(s) = DOMAIN b /\ Cardinality(DOMAIN b) <= MaxBuckets
      <4>. DEFINE D == (DOMAIN bucket[Here(q)] \ gone) \cup {c}
      <4>1. s \in Seq(Callers) /\ Members(s) = D /\ Cardinality(D) <= MaxBuckets
        BY <1>1, <1>2, <2>1, <3>1, TableStep
      <4>2. DOMAIN b = D
        BY <1>10, <3>1
      <4>. HIDE DEF D, s
      <4>. QED
        BY <4>1, <4>2
    <3>. HIDE DEF s
    <3>3. /\ recent' \in [Replicas -> Seq(Callers)] /\ recent'[Here(q)] = s
          /\ \A r \in Replicas : r # Here(q) => recent'[r] = recent[r]
      BY <1>1, <2>1, <3>1, <3>2
    <3>4. ASSUME NEW r \in Replicas
          PROVE  Members(recent'[r]) = DOMAIN bucket'[r] /\ Cardinality(DOMAIN bucket'[r]) <= MaxBuckets
      <4>1. CASE r = Here(q)
        BY <2>2, <3>1, <3>2, <3>3, <4>1
      <4>2. CASE r # Here(q)
        BY <2>1, <2>2, <3>1, <3>3, <4>2 DEF Places
      <4>. QED
        BY <4>1, <4>2
    <3>. QED
      BY <1>19, <3>3, <3>4 DEF TableBooks, Members
  <2>. QED
    BY <2>3, <2>4
<1>. QED
  BY <1>16, <1>17, <1>18, <1>19, <1>20 DEF BookInv

\* Time adds a token, and credits it.
LEMMA RefillBooks ==
    ASSUME GatewayAssumption, ProbeInv, BookInv, NEW p \in Places, NEW c \in Callers, Refill(p, c)
    PROVE  BookInv'
<1>1. /\ setup' = setup /\ req' = req /\ local' = local /\ leases' = leases /\ recent' = recent /\ setup \in Setups
      /\ c \in DOMAIN bucket[p] /\ bucket[p][c] < Rate /\ credit' = [credit EXCEPT ![p][c] = @ + 1]
  BY DEF Refill, ProbeInv, GatewayShape
<1>2. bucket \in [Places -> Buckets]
  BY DEF BookInv, TableBooks
<1>3. /\ bucket[p] \in [DOMAIN bucket[p] -> 0..Rate] /\ DOMAIN bucket[p] \subseteq Callers /\ Rate \in Nat
      /\ Tokens(p, c) \in Nat
  BY <1>1, <1>2, TokensType
<1>. DEFINE b == [bucket[p] EXCEPT ![c] = @ + 1]
<1>4. /\ DOMAIN b = DOMAIN bucket[p] /\ b[c] = bucket[p][c] + 1
      /\ \A e \in Callers \ {c} : e \in DOMAIN b => e \in DOMAIN bucket[p] /\ b[e] = bucket[p][e]
  BY <1>1, <1>3
<1>5. b \in Buckets
  <2>1. bucket[p][c] + 1 \in 0..Rate
    BY <1>1, <1>3
  <2>2. b \in [DOMAIN bucket[p] -> 0..Rate]
    BY <1>1, <1>3, <2>1
  <2>. HIDE DEF b
  <2>. QED
    BY <1>3, <2>2 DEF Buckets
<1>6. bucket' = [bucket EXCEPT ![p] = b]
  BY <1>2 DEF Refill
<1>. HIDE DEF b
<1>7. \A o, e : Granted(o, e)' = Granted(o, e) /\ Cardinality(Granted(o, e)) \in Nat
  <2>1. \A o, e : Granted(o, e)' = Granted(o, e)
    BY <1>1 DEF Granted, PlaceOf, Here, shared, Counted
  <2>2. DOMAIN setup.at \subseteq Requests /\ \A q \in Requests : req[q] \in Entries
    BY <1>1, SetupFacts DEF ProbeInv, GatewayShape
  <2>. QED
    BY <2>1, <2>2, BooksFinite DEF BookInv, Arrivals
<1>8. Cardinality(Granted(p, c)') + b[c] <= Cardinality(Granted(p, c)) + Tokens(p, c) + 1
  <2>1. Tokens(p, c) = bucket[p][c]
    BY <1>1 DEF Tokens
  <2>2. Cardinality(Granted(p, c)') = Cardinality(Granted(p, c)) /\ Cardinality(Granted(p, c)) \in Nat
    BY <1>7
  <2>. QED
    BY <1>3, <1>4, <2>1, <2>2
<1>9. RateBooks' /\ bucket' \in [Places -> Buckets]
  <2>1. RateBooks /\ c \in DOMAIN b
    BY <1>1, <1>4 DEF BookInv
  <2>2. \A o \in Places, e \in Callers : o # p \/ e # c => Granted(o, e)' = Granted(o, e)
    BY <1>7
  <2>3. (\A o \in Places, e \in Callers : Cardinality(Granted(o, e)) \in Nat) /\ Cardinality(Granted(p, c)') \in Nat
    BY <1>7
  <2>. QED
    BY <1>1, <1>2, <1>4, <1>5, <1>6, <1>8, <2>1, <2>2, <2>3, RatesMove
<1>10. TableBooks'
  <2>1. \A o \in Places : DOMAIN bucket'[o] = DOMAIN bucket[o]
    BY <1>2, <1>4, <1>6
  <2>2. \A r \in Replicas : DOMAIN bucket'[r] = DOMAIN bucket[r]
    BY <2>1 DEF Places
  <2>. QED
    BY <1>1, <1>9, <2>2 DEF BookInv, TableBooks
<1>11. Arrivals' /\ LeaseBooks'
  BY <1>1 DEF BookInv, Arrivals, Active, LeaseBooks
<1>12. SlotBooks'
  <2>1. \A r, t : Holders(r, t)' = Holders(r, t) /\ Strays(r, t)' = Strays(r, t)
    BY <1>1 DEF Holders, Strays, HolderOf, StrayOf
  <2>. QED
    BY <1>1, <2>1 DEF BookInv, SlotBooks
<1>. QED
  BY <1>9, <1>10, <1>11, <1>12 DEF BookInv

\* At first the books are empty.
LEMMA BooksStart ==
    ASSUME GatewayAssumption, Init
    PROVE  BookInv
<1>. DEFINE x == [pc |-> "idle", retry |-> FALSE, stream |-> FALSE, todo |-> <<>>,
                  sent |-> {}, outcome |-> None, after |-> <<>>, leased |-> FALSE,
                  probe |-> 0, held |-> FALSE, status |-> "none"]
<1>1. /\ x.pc = "idle" /\ x.held = FALSE /\ x.leased = FALSE /\ x.todo = <<>> /\ x.sent = {} /\ x.retry = FALSE
      /\ x.status = "none"
  OBVIOUS
<1>2. \A q \in Requests : req[q] = x
  BY DEF Init
<1>3. setup \in Setups
  BY DEF Init
<1>. HIDE DEF x
<1>4. Sound(x)
  <2>1. Len(x.todo) = 0
    BY <1>1
  <2>. QED
    BY <1>1, <2>1 DEF Sound, Holding, Trying
<1>5. Arrivals
  <2>1. Active = {}
    BY <1>1, <1>2 DEF Active
  <2>. QED
    BY <1>2, <1>4, <2>1, FS_EmptySet DEF Arrivals
<1>6. DOMAIN setup.at \subseteq Requests /\ MaxConcurrency \in Nat /\ MaxBuckets \in Nat
  BY <1>3, SetupFacts
<1>7. SlotBooks
  <2>. DEFINE y == [fails |-> 0, open |-> "closed", used |-> 0]
  <2>1. y \in LocalTargets /\ y.used = 0
    BY <1>6 DEF LocalTargets, Opens
  <2>2. local = [r \in Replicas |-> [t \in Targets |-> y]]
    BY DEF Init
  <2>. HIDE DEF y
  <2>3. \A r, t : Holders(r, t) = {} /\ Strays(r, t) = {}
    BY <1>1, <1>2, <1>6 DEF Holders, Strays, HolderOf, StrayOf
  <2>4. Cardinality({}) = 0
    BY FS_EmptySet
  <2>. QED
    BY <2>1, <2>2, <2>3, <2>4 DEF SlotBooks
<1>8. LeaseBooks
  <2>1. leases = [t \in Targets |-> {}]
    BY DEF Init
  <2>2. Cardinality({}) <= MaxConcurrency /\ IsFiniteSet({})
    BY <1>6, FS_EmptySet
  <2>. QED
    BY <1>1, <1>2, <2>1, <2>2 DEF LeaseBooks
<1>. DEFINE b == [e \in {} |-> 0]
<1>9. b \in Buckets /\ DOMAIN b = {}
  <2>1. b \in [{} -> 0..Rate] /\ {} \in SUBSET Callers
    OBVIOUS
  <2>. QED
    BY <2>1 DEF Buckets
<1>10. bucket = [p \in Places |-> b]
  BY DEF Init
<1>. HIDE DEF b
<1>11. TableBooks
  <2>1. recent = [r \in Replicas |-> <<>>] /\ <<>> \in Seq(Callers)
    BY EmptySeq DEF Init
  <2>2. Members(<<>>) = {}
    BY MembersEmpty
  <2>3. Cardinality({}) <= MaxBuckets
    BY <1>6, FS_EmptySet
  <2>4. recent \in [Replicas -> Seq(Callers)] /\ bucket \in [Places -> Buckets]
    BY <1>9, <1>10, <2>1
  <2>5. ASSUME NEW r \in Replicas PROVE recent[r] = <<>> /\ DOMAIN bucket[r] = {}
    BY <1>9, <1>10, <2>1 DEF Places
  <2>. QED
    BY <2>2, <2>3, <2>4, <2>5 DEF TableBooks
<1>12. RateBooks
  <2>1. credit = [p \in Places |-> [c \in Callers |-> 0]]
    BY DEF Init
  <2>2. \A p \in Places, c \in Callers : Granted(p, c) = {} /\ Tokens(p, c) = 0
    BY <1>1, <1>2, <1>6, <1>9, <1>10 DEF Granted, Counted, Tokens
  <2>3. Cardinality({}) = 0
    BY FS_EmptySet
  <2>. QED
    BY <2>1, <2>2, <2>3 DEF RateBooks
<1>. QED
  BY <1>5, <1>7, <1>8, <1>11, <1>12 DEF BookInv

\* Every step of the gateway keeps its books.
LEMMA BooksKept ==
    ASSUME GatewayAssumption, ProbeState, BookInv, [Next]_vars
    PROVE  BookInv'
<1>1. ProbeInv
  BY DEF ProbeState
<1>2. ASSUME NEW q \in Requests, Step(q) PROVE BookInv'
  BY <1>1, <1>2, ArrivalBooks, RateLimitBooks, CheckBooks, CircuitBooks, LeaseStepBooks, CallBooks, RecordBooks,
     ReleaseBooks DEF Step
<1>3. ASSUME NEW q \in Requests, RateStoreFails(q) \/ StoreFails(q) \/ StreamEnds(q) \/ StreamUnread(q)
      PROVE  BookInv'
  BY <1>1, <1>3, ArrivalBooks, LeaseStepBooks, CallBooks
<1>4. ASSUME NEW p \in Places, NEW c \in Callers, Refill(p, c) PROVE BookInv'
  BY <1>1, <1>4, RefillBooks
<1>. QED
  BY <1>1, <1>2, <1>3, <1>4, TimeBooks DEF Next

\* What the books say of the gateway.
LEMMA BooksSuffice ==
    ASSUME GatewayAssumption, ProbeState, BookInv
    PROVE  GatewayAccounts
<1>1. /\ setup \in Setups /\ req \in [Requests -> Entries] /\ circuit \in [Targets -> Circuits]
      /\ \A q \in Requests : Fits(req[q]) /\ Sound(req[q])
  BY DEF ProbeState, ProbeInv, GatewayShape, BookInv, Arrivals
<1>2. DOMAIN setup.at \subseteq Requests /\ MaxConcurrency \in Nat
  BY <1>1, SetupFacts
<1>3. \A q \in Requests : req[q].pc # "idle" => q \in DOMAIN setup.at
  BY DEF BookInv, Arrivals, Active
<1>4. \A q \in Requests : req[q].todo \in Seq(Targets) /\ (req[q].todo # <<>> <=> Len(req[q].todo) > 0)
  <2>. SUFFICES ASSUME NEW q \in Requests PROVE req[q].todo \in Seq(Targets) /\ (req[q].todo # <<>> <=> Len(req[q].todo) > 0)
    OBVIOUS
  <2>1. req[q].todo \in Seq(Targets)
    BY <1>1 DEF Entries
  <2>. QED
    BY <2>1, EmptySeq
<1>5. TypeOK
  <2>1. Plans \subseteq Seq({"record", "release"})
    BY DEF Plans
  <2>. DEFINE Records == [pc : {"idle", "select", "check", "circuit", "lease", "call", "after"} \cup Finals,
                          retry : BOOLEAN, stream : BOOLEAN, todo : Seq(Targets),
                          sent : SUBSET Targets, outcome : {None, "success", "failure"},
                          after : Seq({"record", "release"}), leased : BOOLEAN, probe : Nat,
                          held : BOOLEAN, status : {"none", "2xx", "4xx", "429", "5xx", "503"}]
  <2>2. Entries \subseteq Records
    BY <2>1 DEF Entries, Finals
  <2>. HIDE DEF Records
  <2>3. req \in [Requests -> Records]
    BY <1>1, <2>2
  <2>4. \A p \in Places : DOMAIN bucket[p] \subseteq Callers /\ \A c \in DOMAIN bucket[p] : bucket[p][c] \in 0..Rate
    BY <1>1, TokensType DEF BookInv, TableBooks
  <2>5. \A r \in Replicas : Cardinality(DOMAIN bucket[r]) <= MaxBuckets
    BY DEF BookInv, TableBooks
  <2>. QED
    BY <1>1, <2>3, <2>4, <2>5
       DEF TypeOK, Records, ProbeState, BookInv, SlotBooks, LeaseBooks, TableBooks, RateBooks, LocalTargets, Circuits
<1>6. SlotsAccounted
  <2>. SUFFICES ASSUME NEW r \in Replicas, NEW t \in Targets
                PROVE  LET H == {q \in DOMAIN setup.at : Here(q) = r /\ req[q].held /\ req[q].todo # <<>> /\ Target(q) = t}
                           S == {q \in DOMAIN setup.at : Here(q) = r /\ Abandoned(q) /\ t \in req[q].sent}
                       IN  Cardinality(H) <= local[r][t].used /\ local[r][t].used <= Cardinality(H) + Cardinality(S)
    BY DEF SlotsAccounted
  <2>1. {q \in DOMAIN setup.at : Here(q) = r /\ req[q].held /\ req[q].todo # <<>> /\ Target(q) = t} = Holders(r, t)
    BY <1>2, <1>4 DEF Holders, HolderOf, Here, Target
  <2>2. {q \in DOMAIN setup.at : Here(q) = r /\ Abandoned(q) /\ t \in req[q].sent} = Strays(r, t)
    BY DEF Strays, StrayOf, Here, Abandoned, At
  <2>. QED
    BY <2>1, <2>2 DEF BookInv, SlotBooks
<1>7. FleetBulkhead
  <2>. SUFFICES ASSUME NEW t \in Targets
                PROVE  Cardinality({q \in Requests : req[q].pc \in {"call", "streaming"} /\ Target(q) = t /\ req[q].leased})
                         <= MaxConcurrency
    BY DEF FleetBulkhead
  <2>. DEFINE S == {q \in Requests : req[q].pc \in {"call", "streaming"} /\ Target(q) = t /\ req[q].leased}
  <2>1. S \subseteq leases[t]
    BY <1>1 DEF Fits, BookInv, LeaseBooks, Target
  <2>2. IsFiniteSet(leases[t]) /\ Cardinality(leases[t]) <= MaxConcurrency
    BY DEF BookInv, LeaseBooks
  <2>. HIDE DEF S
  <2>3. IsFiniteSet(S) /\ Cardinality(S) <= Cardinality(leases[t])
    BY <2>1, <2>2, FS_Subset
  <2>4. Cardinality(S) \in Nat /\ Cardinality(leases[t]) \in Nat
    BY <2>2, <2>3, FS_CardinalityType
  <2>5. Cardinality(S) <= MaxConcurrency
    BY <1>2, <2>2, <2>3, <2>4
  <2>. QED
    BY <2>5 DEF S
<1>8. SentOnce
  <2>. SUFFICES ASSUME NEW q \in Requests
                PROVE  /\ ~req[q].retry => Cardinality(req[q].sent) <= 1
                       /\ req[q].status = "2xx" => At(q, "done") \/ req[q].pc \in {"streaming", "after"}
    BY DEF SentOnce
  <2>1. Sound(req[q])
    BY <1>1
  <2>2. ASSUME ~req[q].retry PROVE Cardinality(req[q].sent) <= 1
    <3>1. PICK t : req[q].sent \subseteq {t}
      BY <2>1, <2>2 DEF Sound, Trying
    <3>2. IsFiniteSet({t}) /\ Cardinality({t}) = 1
      BY FS_Singleton
    <3>3. Cardinality(req[q].sent) <= Cardinality({t})
      BY <3>1, <3>2, FS_Subset
    <3>. QED
      BY <3>2, <3>3
  <2>3. req[q].status = "2xx" => At(q, "done") \/ req[q].pc \in {"streaming", "after"}
    BY <1>3, <2>1 DEF Sound, Trying, At
  <2>. QED
    BY <2>2, <2>3
<1>9. RateHonoured
  <2>. SUFFICES ASSUME NEW p \in Places, NEW c \in Callers PROVE Cardinality(Granted(p, c)) <= credit[p][c]
    BY DEF RateHonoured
  <2>1. Cardinality(Granted(p, c)) + Tokens(p, c) <= credit[p][c] /\ credit[p][c] \in Nat
    BY DEF BookInv, RateBooks
  <2>2. Tokens(p, c) \in Nat
    BY <1>1, TokensType DEF BookInv, TableBooks
  <2>3. Cardinality(Granted(p, c)) \in Nat
    BY <1>1, <1>2, BooksFinite DEF BookInv, Arrivals
  <2>. QED
    BY <2>1, <2>2, <2>3
<1>. QED
  BY <1>5, <1>6, <1>7, <1>8, <1>9 DEF GatewayAccounts

\* The gateway's books are right, for any number of requests, replicas, targets and
\* callers: every slot taken is held or was left with an unread body, the calls under a
\* lease stay within the bulkhead of the fleet, a request that may not be repeated
\* reaches one target, and no caller is granted more than its bucket ever held.
THEOREM GatewayKeepsBooks ==
    ASSUME GatewayAssumption
    PROVE  Spec => []GatewayAccounts
<1>1. Init => ProbeState /\ BookInv
  BY ProbeStarts, BooksStart
<1>2. (ProbeState /\ BookInv) /\ [Next]_vars => (ProbeState /\ BookInv)'
  BY ProbeStays, BooksKept
<1>3. ProbeState /\ BookInv => GatewayAccounts
  BY BooksSuffice
<1>. QED
  BY <1>1, <1>2, <1>3, PTL DEF Spec
=============================================================================
