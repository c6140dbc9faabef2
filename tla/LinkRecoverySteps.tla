------------------------- MODULE LinkRecoverySteps --------------------------
(***************************************************************************)
(* The inductive invariant LinkInv of LinkRecovery, and the lemmas that    *)
(* the steps of a link at work keep it: those of a durable pass, of a      *)
(* socket event, of the socket and of the executor.                        *)
(*                                                                         *)
(* None of the properties is inductive.  LinkInv says who may be at work   *)
(* on the link and in which generation (ControlInv), how many attempts a   *)
(* batch of repairs has used (AttemptsInv), which socket events are on     *)
(* their way (FlightInv), what is settled below the checkpoint             *)
(* (SettledInv), and that a pass, an opening or a delivery in flight       *)
(* accounts for everything the link was told of (ToldInv).                 *)
(***************************************************************************)
EXTENDS LinkRecovery, FiniteSetTheorems, TLAPS

Generations == {"none", "same", "old"}
Recoveries == {"none", "retryable", "terminal"}
EntryKinds == Passes \cup Calls \cup {"repair"}
Entries == [kind : EntryKinds, pos : 0 .. MaxHead]
PassSteps == {"read", "commit", "push", "done"}
EventSteps == {"admit", "cursor", "committed"}
RepairSteps ==
  {"close", "attachPull", "attachPush", "complete", "persist", "rollback", "restore", "failed", "diagnosed"}
RunSteps == {"idle"} \cup PassSteps \cup EventSteps \cup RepairSteps
InitSteps ==
  {"openPull", "attachPull", "attachPush", "read", "commit", "push", "adopt", "setLive", "persist", "over"}
Runs ==
  [kind : EntryKinds \cup {"none"}, pos : 0 .. MaxHead, gen : Generations, pc : RunSteps,
   from : 0 .. MaxHead + 1, upTo : 0 .. MaxHead, drained : BOOLEAN, refused : BOOLEAN,
   threw : BOOLEAN, recovery : Recoveries]
Executors == [ready : BOOLEAN, entries : Seq(Entries), run : Runs, drain : BOOLEAN, watch : BOOLEAN]
Controllers ==
  [active : BOOLEAN, live : Generations, local : Generations, current : BOOLEAN,
   deliveries : Int, attempts : Nat, closing : BOOLEAN]
LinkStates == [status : Statuses, online : BOOLEAN, recovery : Recoveries]
Sockets == [up : BOOLEAN, next : 1 .. MaxHead + 1, news : BOOLEAN]
Stores == [admitted : SUBSET (1 .. MaxHead), applied : 0 .. MaxHead, pushed : 0 .. MaxLocal]
Feeds == [head : 0 .. MaxHead, local : 0 .. MaxLocal]
Openings == [pc : InitSteps, gen : Generations, from : 0 .. MaxHead + 1, upTo : 0 .. MaxHead]
Histories == [owed : 0 .. MaxHead, gapped : BOOLEAN, cancels : Nat]

\* The shape of every variable.  The counters are bounded by what follows.
LinkShape ==
  /\ feed \in Feeds /\ store \in Stores /\ link \in LinkStates /\ ctl \in Controllers
  /\ exec \in Executors /\ sock \in Sockets \cup {None} /\ init \in Openings /\ hist \in Histories
  /\ held \subseteq Directions /\ timers \subseteq {"reconcile", "repair"}
  /\ waiting \subseteq 1 .. MaxHead /\ fence \in {"none", "go", "stop"}
  /\ planned \in BOOLEAN /\ faults \in Nat

\* The step of the running entry goes with its kind; an event and a page that
\* was read have a position.
RunShape ==
  /\ exec.run.pc = "idle" <=> exec.run.kind = "none"
  /\ exec.run.pc \in EventSteps <=> exec.run.kind = "event"
  /\ exec.run.pc \in RepairSteps => exec.run.kind = "repair"
  /\ exec.run.kind = "event" => exec.run.pos # 0
  /\ exec.run.pc = "commit" => exec.run.from # 0
  /\ init.pc = "commit" => init.from # 0

\* Nothing is known of the remote feed beyond its head.
KnownFeed ==
  /\ hist.owed <= feed.head /\ init.upTo <= feed.head /\ exec.run.upTo <= feed.head
  /\ sock # None => sock.next <= feed.head + 1

-----------------------------------------------------------------------------
(* The inductive invariant. *)

ControlInv ==
  \* A ready executor has a live link and both subscriptions, and no repair is
  \* due, queued or running.
  /\ exec.ready =>
       /\ ctl.active /\ link.status = "live"
       /\ ctl.live = "same" /\ ctl.local = "same" /\ sock # None
       /\ exec.run.kind # "repair" /\ ~Pending(exec.entries, "repair") /\ "repair" \notin timers
  \* A repair whose generation was replaced has lost its mandate.
  /\ exec.run.kind = "repair" /\ exec.run.gen # "same" =>
       ~ctl.active \/ link.status = "paused" \/ Pending(exec.entries, "repair")
  \* What a repair in its own generation has attached is still there.
  /\ exec.run.kind = "repair" /\ exec.run.gen = "same" /\ ctl.active =>
       /\ exec.run.pc \in {"attachPull", "attachPush", "complete", "persist"} => sock # None
       /\ exec.run.pc \in {"attachPush", "complete", "persist"} => ctl.live = "same"
       /\ exec.run.pc \in {"complete", "persist"} => ctl.local = "same"
       /\ exec.run.pc = "persist" => link.status = "live"
       /\ exec.run.pc = "restore" => sock = None
       /\ exec.run.pc \in PassSteps \cup {"attachPull"} => ctl.live # "same"
       /\ exec.run.pc # "close" => ~ctl.current
  \* While the opening has its generation nothing else goes on, and what it has
  \* attached is still there.
  /\ init.gen = "same" =>
       /\ ctl.active /\ link.status \in {"initializing", "live"} /\ ~exec.ready
       /\ exec.run.kind = "none" /\ ~Pending(exec.entries, "repair") /\ timers = {}
       /\ init.pc # "over"
       /\ init.pc # "openPull" => sock # None
       /\ init.pc \in {"openPull", "attachPull"} <=> ctl.live # "same"
       /\ init.pc \notin {"openPull", "attachPull", "attachPush"} => ctl.local = "same"
       /\ init.pc \notin {"setLive", "persist"} => ~ctl.current
  \* A retired controller keeps nothing.
  /\ ~ctl.active =>
       /\ timers = {} /\ waiting = {} /\ ~exec.ready /\ ~ctl.current
       /\ ctl.live = "none" /\ ctl.local = "none" /\ ctl.attempts = 0 /\ exec.run.gen # "same"
       /\ planned => link.status \in {"initializing", "live"}
  \* A paused link keeps its subscriptions until they are closed, and nothing else.
  /\ link.status = "paused" =>
       /\ timers = {} /\ waiting = {} /\ ~exec.ready /\ ~ctl.current /\ sock = None
       /\ exec.run.gen # "same" /\ init.gen # "same"
       /\ ~ctl.closing => ctl.live = "none" /\ ctl.local = "none"
  /\ ctl.closing => ctl.active /\ link.status = "paused"
  \* A subscription that is attached and up is known to be up.
  /\ ctl.active /\ ctl.live = "same" /\ sock # None =>
       (sock.up /\ ~sock.news => link.online)

\* An attempt is left for every repair that starts, a caller awaits the first
\* attempt of its batch, and only what was superseded is rolled back without a
\* failure.
AttemptsInv ==
  /\ ctl.attempts <= MaxAttempts
  /\ exec.run.kind # "repair" /\ link.status # "paused" => ctl.attempts < MaxAttempts
  /\ fence # "none" => ctl.attempts <= (IF exec.run.kind = "repair" THEN 1 ELSE 0)
  /\ exec.run.pc \in {"rollback", "restore"} /\ ~exec.run.threw => IsRepairSuperseded

\* The socket events on their way: those queued, and the one that runs.
EventsOf(entries) == {entries[i].pos : i \in {j \in DOMAIN entries : entries[j].kind = "event"}}
Current(run) == run.kind = "event" /\ run.gen = "same"
InFlight == EventsOf(exec.entries) \cup (IF Current(exec.run) THEN {exec.run.pos} ELSE {})

Ascending(entries) ==
  \A i, j \in DOMAIN entries :
    entries[i].kind = "event" /\ entries[j].kind = "event" /\ i < j => entries[i].pos < entries[j].pos

\* They are counted, the link was told of them, and they run in the order of
\* the feed.
FlightInv ==
  /\ ctl.deliveries = Cardinality(InFlight)
  /\ ~exec.ready => InFlight = {}
  /\ InFlight \subseteq 1 .. hist.owed
  /\ \A pos \in InFlight : sock # None => pos < sock.next
  /\ Ascending(exec.entries)
  /\ Current(exec.run) => \A pos \in EventsOf(exec.entries) : exec.run.pos < pos

\* What is below the checkpoint, or will be when the step in flight commits, is
\* admitted.
SettledInv ==
  /\ exec.run.pc = "cursor" => exec.run.pos \in store.admitted
  /\ init.pc = "adopt" => 1 .. init.upTo \subseteq store.admitted
  /\ ~hist.gapped =>
       /\ 1 .. store.applied \subseteq store.admitted
       /\ exec.run.pc = "commit" => 1 .. exec.run.from - 1 \subseteq store.admitted
       /\ init.pc = "commit" => 1 .. init.from - 1 \subseteq store.admitted
       /\ exec.run.pc = "committed" => exec.run.pos \in store.admitted

\* What the link was told of: by accepted events and skipped positions, and by
\* where its subscription stands.
Told == 1 .. hist.owed \cup (IF sock # None THEN IF sock.up /\ ~sock.news THEN 1 .. sock.next - 1 ELSE {} ELSE {})

\* A current link has all of it admitted or on its way; so has a pass, or an
\* opening, that no trailing wake tells otherwise.
ToldInv ==
  ~hist.gapped =>
    /\ ctl.current \/ ctl.deliveries > 0 => Told \subseteq store.admitted \cup InFlight
    /\ /\ exec.run.kind \in {"pull", "reconcile", "sync"} /\ exec.run.gen = "same"
       /\ exec.run.drained /\ exec.run.pc # "read"
       /\ ~Pending(exec.entries, "pull") /\ ctl.deliveries = 0
       => Told \subseteq store.admitted \cup
                 (IF exec.run.pc = "commit" THEN exec.run.from .. exec.run.upTo ELSE {})
    /\ init.gen = "same" /\ ~Pending(exec.entries, "pull") =>
         /\ init.pc \in {"attachPull", "attachPush"} => Told \subseteq 1 .. init.upTo
         /\ init.pc = "commit" => Told \subseteq store.admitted \cup init.from .. init.upTo
         /\ init.pc \in {"push", "adopt"} => Told \subseteq store.admitted

LinkInv ==
  /\ LinkShape /\ RunShape /\ KnownFeed
  /\ ControlInv /\ AttemptsInv /\ FlightInv /\ SettledInv /\ ToldInv

-----------------------------------------------------------------------------
(* The queue of the executor. *)

\* Consuming removes the kinds it names and touches no other entry.
LEMMA ConsumeQueue ==
  ASSUME NEW e \in Seq(Entries), NEW kinds
  PROVE  /\ Consume(e, kinds) \in Seq(Entries)
         /\ \A kind : Pending(Consume(e, kinds), kind) <=> Pending(e, kind) /\ kind \notin kinds
         /\ EventsOf(Consume(e, kinds)) = IF "event" \in kinds THEN {} ELSE EventsOf(e)
         /\ Ascending(e) => Ascending(Consume(e, kinds))
<1>Ranked.
  ASSUME NEW n \in Nat, NEW kept \in SUBSET (1 .. n)
  PROVE  /\ IsFiniteSet(kept) /\ Cardinality(kept) \in Nat
         /\ \A i \in kept : Cardinality({j \in kept : j <= i}) \in 1 .. Cardinality(kept)
         /\ \A i, k \in kept : i < k => Cardinality({j \in kept : j <= i}) < Cardinality({j \in kept : j <= k})
  <2> USE <1>Ranked
  <2> DEFINE rank(i) == Cardinality({j \in kept : j <= i})
  <2>0. IsFiniteSet(1 .. n)
    BY FS_Interval
  <2>1. IsFiniteSet(kept) /\ Cardinality(kept) \in Nat
    BY <2>0, FS_Subset, FS_CardinalityType, Zenon
  <2>2. ASSUME NEW i \in kept PROVE rank(i) \in 1 .. Cardinality(kept)
    <3> DEFINE below == {j \in kept : j <= i}
    <3>1. below \subseteq kept /\ i \in below /\ i \in Nat
      OBVIOUS
    <3> HIDE DEF below
    <3>2. IsFiniteSet(below) /\ Cardinality(below) <= Cardinality(kept)
      BY <2>1, <3>1, FS_Subset, Zenon
    <3>3. Cardinality(below) \in Nat /\ Cardinality(below) # 0
      BY <3>1, <3>2, FS_CardinalityType, FS_EmptySet, Zenon
    <3>4. Cardinality(below) \in 1 .. Cardinality(kept)
      BY <2>1, <3>2, <3>3
    <3> QED
      BY <3>4, Zenon DEF below
  <2>3. ASSUME NEW i \in kept, NEW k \in kept, i < k PROVE rank(i) < rank(k)
    <3> DEFINE low == {j \in kept : j <= i}
               high == {j \in kept : j <= k}
    <3>0. kept \subseteq Nat
      OBVIOUS
    <3>1. low \subseteq high \ {k} /\ high \subseteq kept /\ k \in high
      <4>1. k \in Nat /\ i \in Nat /\ i < k
        BY <2>3, <3>0, Zenon
      <4>2. ASSUME NEW j \in low PROVE j \in kept /\ j <= k /\ j # k
        BY <3>0, <4>1
      <4>3. k \in high
        BY <4>1
      <4> QED
        BY <4>2, <4>3, Zenon
    <3> HIDE DEF low, high
    <3>2. IsFiniteSet(high)
      BY <2>1, <3>1, FS_Subset, Zenon
    <3>3. IsFiniteSet(high \ {k}) /\ Cardinality(high \ {k}) = Cardinality(high) - 1
      BY <3>1, <3>2, FS_RemoveElement, Zenon
    <3>4. IsFiniteSet(low) /\ Cardinality(low) <= Cardinality(high \ {k})
      BY <3>1, <3>3, FS_Subset, Zenon
    <3>5. Cardinality(low) \in Nat /\ Cardinality(high) \in Nat
      BY <3>2, <3>4, FS_CardinalityType, Zenon
    <3>6. Cardinality(low) < Cardinality(high)
      BY <3>3, <3>4, <3>5
    <3> QED
      BY <3>6, Zenon DEF low, high
  <2> QED
    BY <2>1, <2>2, <2>3, Zenon
\* Every rank is some member's.
<1>RanksTaken.
  ASSUME NEW n \in Nat, NEW kept \in SUBSET (1 .. n), NEW r \in 1 .. Cardinality(kept)
  PROVE  \E i \in kept : Cardinality({j \in kept : j <= i}) = r
  <2> USE <1>RanksTaken
  <2> DEFINE c == Cardinality(kept)
             rank == [i \in kept |-> Cardinality({j \in kept : j <= i})]
  <2> SUFFICES ASSUME \A i \in kept : rank[i] # r
               PROVE  FALSE
    BY Zenon
  <2>1. IsFiniteSet(kept) /\ c \in Nat
    BY <1>Ranked, Zenon
  <2>2. \A i \in kept : rank[i] \in 1 .. c
    BY <1>Ranked, Zenon
  <2>3. \A i, k \in kept : i < k => rank[i] < rank[k]
    BY <1>Ranked, Zenon
  <2>4. rank \in [kept -> (1 .. c) \ {r}]
    BY <2>2, Zenon
  <2> HIDE DEF rank, c
  <2>5. IsFiniteSet(1 .. c) /\ Cardinality(1 .. c) = c
    <3>1. 1 \in Int /\ c \in Int /\ (1 > c => c = 0) /\ c - 1 + 1 = c
      BY <2>1
    <3>2. IsFiniteSet(1 .. c) /\ Cardinality(1 .. c) = (IF 1 > c THEN 0 ELSE c - 1 + 1)
      BY <3>1, FS_Interval, Zenon
    <3> QED
      BY <3>1, <3>2, Zenon
  <2>6. IsFiniteSet((1 .. c) \ {r}) /\ Cardinality((1 .. c) \ {r}) = c - 1
    BY <2>5, FS_RemoveElement, Zenon DEF c
  <2>7. Cardinality((1 .. c) \ {r}) < Cardinality(kept)
    BY <2>1, <2>6 DEF c
  <2>8. PICK x \in kept, y \in kept : x # y /\ rank[x] = rank[y]
    <3> DEFINE others == (1 .. c) \ {r}
    <3> HIDE DEF others
    <3>1. IsFiniteSet(others) /\ Cardinality(others) < Cardinality(kept) /\ rank \in [kept -> others]
      BY <2>4, <2>6, <2>7, Zenon DEF others
    <3> QED
      BY <2>1, <3>1, FS_PigeonHole, Zenon
  <2>9. x \in Nat /\ y \in Nat /\ rank[x] \in Nat /\ rank[y] \in Nat
    BY <2>2
  <2> QED
    BY <2>3, <2>8, <2>9
\* What consuming leaves of the queue, and in which order.
<1>ConsumeKeeps.
         /\ Consume(e, kinds) \in Seq(Entries)
         /\ \E nth \in [DOMAIN Consume(e, kinds) -> DOMAIN e] :
              /\ \A n \in DOMAIN Consume(e, kinds) :
                   Consume(e, kinds)[n] = e[nth[n]] /\ e[nth[n]].kind \notin kinds
              /\ \A n, m \in DOMAIN Consume(e, kinds) : n < m => nth[n] < nth[m]
              /\ \A i \in DOMAIN e : e[i].kind \notin kinds => \E n \in DOMAIN Consume(e, kinds) : nth[n] = i
  <2> DEFINE kept == {i \in DOMAIN e : e[i].kind \notin kinds}
             c == Cardinality(kept)
             Rank(i) == Cardinality({j \in kept : j <= i})
             Nth(n) == CHOOSE i \in kept : Rank(i) = n
             nth == [n \in 1 .. c |-> Nth(n)]
             left == Consume(e, kinds)
  <2>1. Len(e) \in Nat /\ DOMAIN e = 1 .. Len(e) /\ kept \in SUBSET (1 .. Len(e))
    OBVIOUS
  <2>2. left = [n \in 1 .. c |-> e[Nth(n)]]
    BY Zenon DEF Consume
  <2>3. c \in Nat /\ \A i \in kept : Rank(i) \in 1 .. c
    BY <2>1, <1>Ranked, Zenon
  <2>4. \A i, k \in kept : i < k => Rank(i) < Rank(k)
    BY <2>1, <1>Ranked, Zenon
  <2>5. \A n \in 1 .. c : \E i \in kept : Rank(i) = n
    BY <2>1, <1>RanksTaken, Zenon
  <2> HIDE DEF Rank, c, kept
  <2>6. \A n \in 1 .. c : Nth(n) \in kept /\ Rank(Nth(n)) = n
    BY <2>5, Zenon
  <2> HIDE DEF Nth
  <2>7. DOMAIN left = 1 .. c /\ \A n \in 1 .. c : left[n] = e[nth[n]] /\ nth[n] \in kept /\ Rank(nth[n]) = n
    BY <2>2, <2>6, Zenon
  <2> HIDE DEF left
  <2>8. \A i \in kept : i \in DOMAIN e /\ e[i].kind \notin kinds /\ e[i] \in Entries /\ i \in Nat
    BY <2>1 DEF kept
  <2>9. left \in Seq(Entries)
    <3>1. left \in [1 .. c -> Entries]
      BY <2>2, <2>6, <2>8, Zenon DEF left
    <3> QED
      BY <2>3, <3>1
  <2>10. nth \in [DOMAIN left -> DOMAIN e]
    BY <2>6, <2>7, <2>8, Zenon
  <2>11. ASSUME NEW n \in 1 .. c, NEW m \in 1 .. c, n < m PROVE nth[n] < nth[m]
    <3>1. nth[n] \in kept /\ nth[m] \in kept /\ Rank(nth[n]) = n /\ Rank(nth[m]) = m
      BY <2>7, Zenon
    <3>2. nth[n] \in Nat /\ nth[m] \in Nat /\ n \in Nat /\ m \in Nat
      BY <2>8, <3>1
    <3>3. CASE nth[m] < nth[n]
      BY <2>4, <2>11, <3>1, <3>2, <3>3
    <3>4. CASE nth[m] = nth[n]
      BY <2>11, <3>1, <3>2, <3>4
    <3> QED
      BY <3>2, <3>3, <3>4
  <2>12. ASSUME NEW i \in kept PROVE nth[Rank(i)] = i /\ Rank(i) \in 1 .. c
    <3> DEFINE k == nth[Rank(i)]
    <3>1. Rank(i) \in 1 .. c /\ k \in kept /\ Rank(k) = Rank(i)
      BY <2>3, <2>7, Zenon
    <3>2. k \in Nat /\ i \in Nat /\ Rank(i) \in Nat
      BY <2>8, <3>1
    <3> HIDE DEF k
    <3>3. ~(k < i) /\ ~(i < k)
      BY <2>4, <3>1, <3>2
    <3>4. k = i
      BY <3>2, <3>3
    <3> QED
      BY <3>1, <3>4, Zenon DEF k
  <2> HIDE DEF nth
  <2>13. \A i \in DOMAIN e : e[i].kind \notin kinds => \E n \in DOMAIN left : nth[n] = i
    BY <2>7, <2>12, Zenon DEF kept
  <2> QED
    BY <2>7, <2>8, <2>9, <2>10, <2>11, <2>13, Zenon DEF left
<1> DEFINE left == Consume(e, kinds)
<1> HIDE DEF left
<1>1. left \in Seq(Entries)
  BY <1>ConsumeKeeps, Zenon DEF left
<1>2. PICK nth \in [DOMAIN left -> DOMAIN e] :
        /\ \A n \in DOMAIN left : left[n] = e[nth[n]] /\ e[nth[n]].kind \notin kinds
        /\ \A n, m \in DOMAIN left : n < m => nth[n] < nth[m]
        /\ \A i \in DOMAIN e : e[i].kind \notin kinds => \E n \in DOMAIN left : nth[n] = i
  BY <1>ConsumeKeeps, Zenon DEF left
<1>3. ASSUME NEW kind PROVE Pending(left, kind) <=> Pending(e, kind) /\ kind \notin kinds
  <2>1. ASSUME Pending(left, kind) PROVE Pending(e, kind) /\ kind \notin kinds
    BY <1>2, <2>1, ZenonT(30) DEF Pending
  <2>2. ASSUME Pending(e, kind), kind \notin kinds PROVE Pending(left, kind)
    <3>1. PICK i \in DOMAIN e : e[i].kind = kind
      BY <2>2, Zenon DEF Pending
    <3>2. PICK n \in DOMAIN left : nth[n] = i
      BY <1>2, <2>2, <3>1, Zenon
    <3> QED
      BY <1>2, <3>1, <3>2, Zenon DEF Pending
  <2> QED
    BY <2>1, <2>2, Zenon
<1>4. EventsOf(left) = IF "event" \in kinds THEN {} ELSE EventsOf(e)
  <2>1. CASE "event" \in kinds
    BY <1>2, <2>1 DEF EventsOf
  <2>2. CASE "event" \notin kinds
    <3>1. ASSUME NEW pos \in EventsOf(left) PROVE pos \in EventsOf(e)
      <4>1. PICK n \in DOMAIN left : left[n].kind = "event" /\ left[n].pos = pos
        BY Zenon DEF EventsOf
      <4> QED
        BY <1>2, <4>1 DEF EventsOf
    <3>2. ASSUME NEW pos \in EventsOf(e) PROVE pos \in EventsOf(left)
      <4>1. PICK i \in DOMAIN e : e[i].kind = "event" /\ e[i].pos = pos
        BY Zenon DEF EventsOf
      <4>2. PICK n \in DOMAIN left : nth[n] = i
        BY <1>2, <2>2, <4>1, Zenon
      <4>3. left[n].kind = "event" /\ left[n].pos = pos
        BY <1>2, <4>1, <4>2, Zenon
      <4> QED
        BY <4>3, Zenon DEF EventsOf
    <3> QED
      BY <2>2, <3>1, <3>2, Zenon
  <2> QED
    BY <2>1, <2>2, Zenon
<1>5. ASSUME Ascending(e) PROVE Ascending(left)
  BY <1>2, <1>5 DEF Ascending
<1> QED
  BY <1>1, <1>3, <1>4, <1>5, Zenon DEF left

\* A request leaves a mark of its kind and moves nothing.
LEMMA RequestQueue ==
  ASSUME NEW e \in Seq(Entries), NEW kind \in EntryKinds \ {"event"}
  PROVE  /\ Request(e, kind) \in Seq(Entries)
         /\ \A other : Pending(Request(e, kind), other) <=> Pending(e, other) \/ other = kind
         /\ EventsOf(Request(e, kind)) = EventsOf(e)
         /\ Ascending(e) => Ascending(Request(e, kind))
         /\ Request(e, kind) # <<>>
<1>1. CASE Pending(e, kind)
  <2>1. Request(e, kind) = e /\ e # <<>>
    BY <1>1 DEF Request, Pending
  <2> QED
    BY <1>1, <2>1, Zenon
<1>2. CASE ~Pending(e, kind)
  <2> DEFINE longer == Append(e, Entry(kind, 0))
  <2>1. Request(e, kind) = longer
    BY <1>2, Zenon DEF Request, Pending
  <2>2. Entry(kind, 0) \in Entries /\ Entry(kind, 0).kind = kind
    BY LinkAssumption DEF Entry, Entries
  <2> DEFINE last == Entry(kind, 0)
  <2> HIDE DEF last
  <2>3. /\ longer \in Seq(Entries) /\ Len(e) \in Nat
        /\ DOMAIN e = 1 .. Len(e) /\ DOMAIN longer = 1 .. Len(e) + 1
        /\ \A i \in 1 .. Len(e) : longer[i] = e[i]
        /\ longer[Len(e) + 1].kind = kind
    BY <2>2 DEF last
  <2> HIDE DEF longer
  <2>4. \A i \in DOMAIN longer : i \in DOMAIN e \/ i = Len(e) + 1
    BY <2>3
  <2>5. \A other : Pending(longer, other) <=> Pending(e, other) \/ other = kind
    <3>1. ASSUME NEW other, Pending(longer, other) PROVE Pending(e, other) \/ other = kind
      BY <2>3, <2>4, <3>1, Zenon DEF Pending
    <3>2. ASSUME NEW other, Pending(e, other) \/ other = kind PROVE Pending(longer, other)
      BY <2>3, <3>2 DEF Pending
    <3> QED
      BY <3>1, <3>2, Zenon
  <2>6. {j \in DOMAIN longer : longer[j].kind = "event"} = {j \in DOMAIN e : e[j].kind = "event"}
    BY <2>3, <2>4
  <2>7. EventsOf(longer) = EventsOf(e)
    BY <2>3, <2>6, Zenon DEF EventsOf
  <2>8. Ascending(e) => Ascending(longer)
    BY <2>3, <2>4, Zenon DEF Ascending
  <2>9. longer # <<>>
    BY <2>3
  <2> QED
    BY <2>1, <2>3, <2>5, <2>7, <2>8, <2>9, Zenon
<1> QED
  BY <1>1, <1>2, Zenon

-----------------------------------------------------------------------------
(* Helpers of the steps. *)

LEMMA Bounds == MaxHead \in Nat /\ MaxLocal \in Nat /\ MaxAttempts \in Nat /\ MaxAttempts > 1 /\ MaxAttempts > 0
  BY LinkAssumption

\* The fields of the variables have their types.
LEMMA Typed ==
  ASSUME LinkShape
  PROVE  /\ feed.head \in 0 .. MaxHead /\ feed.local \in 0 .. MaxLocal
         /\ store.admitted \in SUBSET (1 .. MaxHead) /\ store.applied \in 0 .. MaxHead
         /\ store.pushed \in 0 .. MaxLocal
         /\ link.status \in Statuses /\ link.online \in BOOLEAN /\ link.recovery \in Recoveries
         /\ ctl.active \in BOOLEAN /\ ctl.live \in Generations /\ ctl.local \in Generations
         /\ ctl.current \in BOOLEAN /\ ctl.deliveries \in Int /\ ctl.attempts \in Nat
         /\ ctl.closing \in BOOLEAN
         /\ exec.ready \in BOOLEAN /\ exec.entries \in Seq(Entries) /\ exec.run \in Runs
         /\ exec.drain \in BOOLEAN /\ exec.watch \in BOOLEAN
         /\ init.pc \in InitSteps /\ init.gen \in Generations
         /\ init.from \in 0 .. MaxHead + 1 /\ init.upTo \in 0 .. MaxHead
         /\ hist.owed \in 0 .. MaxHead /\ hist.gapped \in BOOLEAN /\ hist.cancels \in Nat
<1>1. /\ feed \in Feeds /\ store \in Stores /\ link \in LinkStates /\ ctl \in Controllers
      /\ exec \in Executors /\ init \in Openings /\ hist \in Histories
  BY Zenon DEF LinkShape
<1> QED
  BY <1>1, Zenon DEF Feeds, Stores, LinkStates, Controllers, Executors, Openings, Histories

LEMMA TypedRun ==
  ASSUME NEW r \in Runs
  PROVE  /\ r.kind \in EntryKinds \cup {"none"} /\ r.pos \in 0 .. MaxHead /\ r.gen \in Generations
         /\ r.pc \in RunSteps /\ r.from \in 0 .. MaxHead + 1 /\ r.upTo \in 0 .. MaxHead
         /\ r.drained \in BOOLEAN /\ r.refused \in BOOLEAN /\ r.threw \in BOOLEAN
         /\ r.recovery \in Recoveries
  BY Zenon DEF Runs

LEMMA TypedSocket ==
  ASSUME sock \in Sockets \cup {None}, sock # None
  PROVE  sock \in Sockets /\ sock.up \in BOOLEAN /\ sock.next \in 1 .. MaxHead + 1 /\ sock.news \in BOOLEAN
<1>1. sock \in Sockets
  BY Zenon
<1> QED
  BY <1>1, Zenon DEF Sockets

SameQueue == exec'.ready = exec.ready /\ exec'.entries = exec.entries

SameRun ==
  /\ exec'.run.kind = exec.run.kind /\ exec'.run.pos = exec.run.pos /\ exec'.run.threw = exec.run.threw

\* The running entry goes on to a further step.
RunGoes == exec' \in Executors /\ SameQueue /\ SameRun /\ exec'.run.gen = exec.run.gen

-----------------------------------------------------------------------------
(* What each part of the invariant needs a step to keep. *)

\* The deliveries in flight stay what they are.
LEMMA FlightKept ==
  ASSUME FlightInv,
         EventsOf(exec'.entries) = EventsOf(exec.entries), Ascending(exec.entries) => Ascending(exec'.entries),
         Current(exec'.run) <=> Current(exec.run), Current(exec.run) => exec'.run.pos = exec.run.pos,
         exec.ready => exec'.ready, ctl'.deliveries = ctl.deliveries,
         hist.owed \in Nat, hist'.owed \in Nat, hist.owed <= hist'.owed,
         sock' = None \/ (sock # None /\ sock.next \in Nat /\ sock'.next \in Nat /\ sock.next <= sock'.next)
  PROVE  FlightInv' /\ InFlight' = InFlight
<1>1. InFlight' = InFlight
  BY Zenon DEF InFlight
<1>2. InFlight \subseteq Nat /\ InFlight \subseteq 1 .. hist'.owed
  BY DEF FlightInv
<1>3. \A pos \in InFlight : sock' # None => pos < sock'.next
  BY <1>2 DEF FlightInv
<1>4. Current(exec'.run) => \A pos \in EventsOf(exec'.entries) : exec'.run.pos < pos
  BY Zenon DEF FlightInv
<1>5. /\ ctl'.deliveries = Cardinality(InFlight) /\ (~exec'.ready => InFlight = {})
      /\ Ascending(exec'.entries)
  BY Zenon DEF FlightInv
<1> QED
  BY <1>1, <1>2, <1>3, <1>4, <1>5, Zenon DEF FlightInv

\* A new generation has none.
LEMMA FlightCleared ==
  ASSUME EventsOf(exec'.entries) = {}, ~Current(exec'.run), ctl'.deliveries = 0
  PROVE  FlightInv' /\ InFlight' = {}
<1>1. InFlight' = {}
  BY Zenon DEF InFlight
<1>2. Ascending(exec'.entries)
  BY Zenon DEF Ascending, EventsOf
<1>3. Cardinality({}) = 0
  BY FS_EmptySet, Zenon
<1> QED
  BY <1>1, <1>2, <1>3, Zenon DEF FlightInv

\* The same run, as far as what it will commit goes.
SameCommit ==
  exec'.run.pc = exec.run.pc /\ exec'.run.pos = exec.run.pos /\ exec'.run.from = exec.run.from

SameOpening ==
  init'.pc = init.pc /\ init'.from = init.from /\ init'.upTo = init.upTo

\* Nothing new is claimed below the checkpoint.
LEMMA SettledKept ==
  ASSUME SettledInv, store.admitted \subseteq store'.admitted,
         store.applied \in Nat, store'.applied \in Nat, store'.applied <= store.applied,
         hist.gapped => hist'.gapped,
         SameCommit \/ exec'.run.pc \notin {"cursor", "commit", "committed"},
         SameOpening \/ init'.pc \notin {"adopt", "commit"}
  PROVE  SettledInv'
<1>1. 1 .. store'.applied \subseteq 1 .. store.applied
  OBVIOUS
<1> QED
  BY <1>1, Zenon DEF SettledInv, SameCommit, SameOpening

SamePass ==
  /\ SameCommit /\ exec'.run.kind = exec.run.kind /\ exec'.run.gen = exec.run.gen
  /\ exec'.run.upTo = exec.run.upTo /\ exec'.run.drained = exec.run.drained

\* Nothing more is told, and nobody claims more to have been accounted for.
LEMMA ToldKept ==
  ASSUME ToldInv, store.admitted \subseteq store'.admitted, Told' \subseteq Told,
         InFlight' = InFlight, ctl'.deliveries = ctl.deliveries,
         ctl'.current => ctl.current, hist.gapped => hist'.gapped,
         Pending(exec.entries, "pull") => Pending(exec'.entries, "pull"),
         \/ SamePass
         \/ exec'.run.kind \notin {"pull", "reconcile", "sync"} \/ exec'.run.gen # "same"
         \/ exec'.run.pc = "read" \/ exec'.run.drained = FALSE,
         \/ SameOpening /\ init'.gen = init.gen
         \/ init'.gen # "same" \/ init'.pc \notin {"attachPull", "attachPush", "commit", "push", "adopt"}
  PROVE  ToldInv'
<1> SUFFICES ASSUME ~hist'.gapped PROVE ToldInv'
  BY Zenon DEF ToldInv
<1>0. ~hist.gapped
  BY Zenon
<1>1. ctl'.current \/ ctl'.deliveries > 0 => Told' \subseteq store'.admitted \cup InFlight'
  BY <1>0, Zenon DEF ToldInv
<1>2. /\ exec'.run.kind \in {"pull", "reconcile", "sync"} /\ exec'.run.gen = "same"
      /\ exec'.run.drained /\ exec'.run.pc # "read"
      /\ ~Pending(exec'.entries, "pull") /\ ctl'.deliveries = 0
      => Told' \subseteq store'.admitted \cup
               (IF exec'.run.pc = "commit" THEN exec'.run.from .. exec'.run.upTo ELSE {})
  <2> SUFFICES ASSUME exec'.run.kind \in {"pull", "reconcile", "sync"}, exec'.run.gen = "same",
                      exec'.run.drained, exec'.run.pc # "read",
                      ~Pending(exec'.entries, "pull"), ctl'.deliveries = 0
               PROVE  Told' \subseteq store'.admitted \cup
                        (IF exec'.run.pc = "commit" THEN exec'.run.from .. exec'.run.upTo ELSE {})
    BY Zenon
  <2>1. SamePass
    BY Zenon
  <2>2. Told \subseteq store.admitted \cup
               (IF exec.run.pc = "commit" THEN exec.run.from .. exec.run.upTo ELSE {})
    BY <1>0, <2>1, Zenon DEF ToldInv, SamePass, SameCommit
  <2> QED
    BY <2>1, <2>2, Zenon DEF SamePass, SameCommit
<1>3. init'.gen = "same" /\ ~Pending(exec'.entries, "pull") =>
        /\ init'.pc \in {"attachPull", "attachPush"} => Told' \subseteq 1 .. init'.upTo
        /\ init'.pc = "commit" => Told' \subseteq store'.admitted \cup init'.from .. init'.upTo
        /\ init'.pc \in {"push", "adopt"} => Told' \subseteq store'.admitted
  BY <1>0, Zenon DEF ToldInv, SameOpening
<1> QED
  BY <1>1, <1>2, <1>3, Zenon DEF ToldInv

-----------------------------------------------------------------------------
(* Durable passes. *)

LEMMA NoRunFields ==
  /\ NoRun \in Runs /\ NoRun.kind = "none" /\ NoRun.pos = 0 /\ NoRun.gen = "none" /\ NoRun.pc = "idle"
  /\ NoRun.from = 0 /\ NoRun.upTo = 0 /\ NoRun.drained = TRUE /\ NoRun.threw = FALSE
<1>1. 0 \in 0 .. MaxHead /\ 0 \in 0 .. MaxHead + 1
  BY LinkAssumption
<1> QED
  BY <1>1, Zenon DEF NoRun, Runs, Generations, Recoveries, RunSteps

LEMMA GotoFields ==
  ASSUME exec \in Executors, NEW pc \in RunSteps, Goto(pc)
  PROVE  /\ RunGoes /\ exec'.run.pc = pc /\ exec'.run.from = exec.run.from
         /\ exec'.run.upTo = exec.run.upTo /\ exec'.run.drained = exec.run.drained
  BY Zenon DEF Executors, Runs, Goto, RunGoes, SameQueue, SameRun

LEMMA EndRunFields ==
  ASSUME exec \in Executors, EndRun
  PROVE  exec' \in Executors /\ SameQueue /\ exec'.run = NoRun
  BY NoRunFields, Zenon DEF Executors, EndRun, SameQueue

\* The attempts are not touched.
LEMMA AttemptsKept ==
  ASSUME AttemptsInv, ctl'.attempts = ctl.attempts,
         exec'.run.kind = exec.run.kind \/ (exec.run.kind # "repair" /\ exec'.run.kind # "repair"),
         link.status = "paused" => link'.status = "paused",
         fence' = fence \/ fence' = "none" \/ fence # "none",
         exec'.run.pc \in {"rollback", "restore"} /\ ~exec'.run.threw => IsRepairSuperseded'
  PROVE  AttemptsInv'
  BY Zenon DEF AttemptsInv

\* Nobody is told of more than there is.
LEMMA ToldIsKnown ==
  ASSUME LinkInv
  PROVE  Told \subseteq 1 .. feed.head
<1>1. hist.owed \in Nat /\ hist.owed <= feed.head /\ feed.head \in Nat
  BY Typed DEF LinkInv, KnownFeed
<1>2. sock # None => sock.next \in Nat /\ sock.next <= feed.head + 1
  BY TypedSocket DEF LinkInv, LinkShape, KnownFeed
<1> QED
  BY <1>1, <1>2 DEF Told

\* The page from one position up to another is admitted.
LEMMA PulledFields ==
  ASSUME LinkShape, NEW from \in 1 .. MaxHead + 1, NEW upTo \in 0 .. MaxHead, Pulled(from, upTo)
  PROVE  /\ store' \in Stores /\ store'.admitted = store.admitted \cup from .. upTo
         /\ store'.applied = Max2(store.applied, upTo)
<1>1. store.admitted \subseteq 1 .. MaxHead /\ store.applied \in 0 .. MaxHead /\ store \in Stores
  BY Typed, Zenon DEF LinkShape
<1>2. store.admitted \cup from .. upTo \in SUBSET (1 .. MaxHead) /\ Max2(store.applied, upTo) \in 0 .. MaxHead
  BY <1>1, LinkAssumption DEF Max2
<1> QED
  BY <1>1, <1>2, Zenon DEF Pulled, Stores

\* Everything up to the end of the page is admitted with it, if everything
\* below its start was.
LEMMA PageSettles ==
  ASSUME NEW from \in Nat, NEW upTo \in Nat, NEW applied \in Nat, NEW admitted, NEW wider,
         1 .. applied \subseteq admitted, 1 .. from - 1 \subseteq admitted,
         wider = admitted \cup from .. upTo
  PROVE  1 .. Max2(applied, upTo) \subseteq wider
<1> SUFFICES ASSUME NEW pos \in 1 .. Max2(applied, upTo) PROVE pos \in wider
  BY Zenon
<1>1. pos \in 1 .. applied \/ pos \in 1 .. from - 1 \/ pos \in from .. upTo
  BY DEF Max2
<1> QED
  BY <1>1, Zenon

LEMMA Plain ==
  ASSUME LinkInv
  PROVE  /\ hist.owed \in Nat /\ store.applied \in Nat /\ feed.head \in Nat /\ 0 <= feed.head
         /\ sock # None => sock.next \in Nat
<1>1. hist.owed \in 0 .. MaxHead /\ store.applied \in 0 .. MaxHead /\ feed.head \in 0 .. MaxHead
  BY Typed, Zenon DEF LinkInv
<1>2. sock # None => sock.next \in 1 .. MaxHead + 1
  BY TypedSocket, Zenon DEF LinkInv, LinkShape
<1> QED
  BY <1>1, <1>2

\* The running entry ends, and is no repair.  Only an entry in its generation
\* makes the link current or arms a timer.
LEMMA RunEnds ==
  ASSUME LinkInv, exec' \in Executors, SameQueue, exec'.run = NoRun, exec.run.kind \notin {"none", "repair"},
         ctl' \in Controllers, ctl'.active = ctl.active, ctl'.live = ctl.live, ctl'.local = ctl.local,
         ctl'.attempts = ctl.attempts, ctl'.closing = ctl.closing,
         ctl'.current => ctl.current \/ GenerationCurrent(exec.run.gen),
         timers' = timers \/ (timers' = timers \cup {"reconcile"} /\ GenerationCurrent(exec.run.gen)),
         link' \in LinkStates, link'.status = link.status, link.online => link'.online,
         held' \subseteq Directions, store' \in Stores, faults' \in Nat,
         UNCHANGED <<feed, sock, waiting, fence, init, planned, hist>>
  PROVE  LinkShape' /\ RunShape' /\ KnownFeed' /\ ControlInv' /\ AttemptsInv' /\ Told' = Told
<1>1. LinkShape'
  BY Zenon DEF LinkInv, LinkShape
<1>2. RunShape'
  BY NoRunFields, Zenon DEF LinkInv, RunShape, EventSteps, RepairSteps
<1>3. KnownFeed'
  <2>1. 0 <= feed.head
    BY Typed DEF LinkInv
  <2> QED
    BY <2>1, NoRunFields, Zenon DEF LinkInv, KnownFeed
<1>4. ControlInv'
  BY NoRunFields, Zenon DEF LinkInv, ControlInv, SameQueue, GenerationCurrent
<1>5. AttemptsInv'
  BY NoRunFields, AttemptsKept, Zenon DEF LinkInv
<1> QED
  BY <1>1, <1>2, <1>3, <1>4, <1>5, Zenon DEF Told

\* The steps of a durable pass, and its failures, keep the invariant.
LEMMA PassesKeep ==
  LinkInv /\ (\/ PassRead \/ PassCommit \/ PassDefers \/ PassPush \/ PassPushRefused
               \/ DirectionDone \/ ReconcileDone \/ PassFails \/ PassAborts) => LinkInv'
\* A pass, of whatever entry, goes on.
<1>PassGoes.
  ASSUME LinkInv, RunGoes, exec.run.pc \in PassSteps, exec'.run.pc \in PassSteps,
         exec'.run.pc = "commit" => exec'.run.from # 0,
         store' \in Stores, faults' \in Nat, exec'.run.upTo <= feed.head,
         UNCHANGED <<feed, link, ctl, held, timers, sock, waiting, fence, init, planned, hist>>
  PROVE  /\ LinkShape' /\ RunShape' /\ KnownFeed' /\ ControlInv' /\ AttemptsInv' /\ FlightInv'
         /\ InFlight' = InFlight /\ Told' = Told
  <2> USE <1>PassGoes
  <2>1. LinkShape'
    BY Zenon DEF LinkInv, LinkShape, RunGoes
  <2>2. RunShape'
    BY Zenon DEF LinkInv, RunShape, RunGoes, SameRun, PassSteps, EventSteps, RepairSteps
  <2>3. KnownFeed'
    BY Zenon DEF LinkInv, KnownFeed
  <2>4. ControlInv'
    BY Zenon DEF LinkInv, ControlInv, RunGoes, SameQueue, SameRun, PassSteps
  <2>5. AttemptsInv'
    BY AttemptsKept, Zenon DEF LinkInv, RunGoes, SameRun, PassSteps
  <2>6. hist.owed \in Nat /\ (sock # None => sock.next \in Nat)
    BY Plain, Zenon
  <2>7. FlightInv' /\ InFlight' = InFlight
    BY <2>6, FlightKept DEF LinkInv, RunGoes, SameQueue, SameRun, Current
  <2> QED
    BY <2>1, <2>2, <2>3, <2>4, <2>5, <2>7, Zenon DEF Told
<1>PassReadKeeps.
  ASSUME LinkInv, PassRead
  PROVE  LinkInv'
  <2> USE <1>PassReadKeeps
  <2> DEFINE to == IF exec.run.kind = "push" THEN "push" ELSE "commit"
  <2>1. /\ store.applied \in Nat /\ store.applied + 1 \in 0 .. MaxHead + 1 /\ feed.head \in 0 .. MaxHead
        /\ exec \in Executors /\ store.admitted \subseteq Nat /\ feed.head \in Nat
    BY Typed, LinkAssumption, SMTT(20) DEF LinkInv, LinkShape
  <2>2. /\ RunGoes /\ exec'.run.from = store.applied + 1 /\ exec'.run.upTo = feed.head
        /\ exec'.run.pc = to /\ exec'.run.drained = exec.run.drained
    BY <2>1, Zenon DEF PassRead, SameQueue, SameRun, RunGoes, Executors, Runs, RunSteps, PassSteps
  <2>3. /\ LinkShape' /\ RunShape' /\ KnownFeed' /\ ControlInv' /\ AttemptsInv' /\ FlightInv'
        /\ InFlight' = InFlight /\ Told' = Told
    <3>1. /\ exec.run.pc \in PassSteps /\ exec'.run.pc \in PassSteps /\ exec'.run.upTo <= feed.head
          /\ store' \in Stores /\ faults' \in Nat /\ exec'.run.from # 0
          /\ UNCHANGED <<feed, link, ctl, held, timers, sock, waiting, fence, init, planned, hist>>
      BY <2>1, <2>2 DEF PassRead, PassSteps, LinkInv, LinkShape
    <3> QED
      BY <2>2, <3>1, <1>PassGoes, Zenon
  <2>4. store' = store /\ hist' = hist /\ init' = init /\ ctl' = ctl
    BY Zenon DEF PassRead
  <2>5. SettledInv'
    BY <2>1, <2>2, <2>4 DEF LinkInv, SettledInv
  <2>6. Told \subseteq 1 .. feed.head
    BY ToldIsKnown, Zenon
  <2>7. ToldInv'
    <3> SUFFICES ASSUME ~hist.gapped PROVE ToldInv'
      BY <2>4, Zenon DEF ToldInv
    <3>1. exec'.run.pc = "commit" => Told' \subseteq store'.admitted \cup exec'.run.from .. exec'.run.upTo
      BY <2>1, <2>2, <2>3, <2>4, <2>6 DEF LinkInv, SettledInv
    <3>2. exec'.run.kind \in {"pull", "reconcile", "sync"} => exec'.run.pc = "commit"
      BY <2>2, Zenon DEF RunGoes, SameRun
    <3>3. exec'.entries = exec.entries
      BY <2>2, Zenon DEF RunGoes, SameQueue
    <3> QED
      BY <2>3, <2>4, <3>1, <3>2, <3>3, Zenon DEF LinkInv, ToldInv
  <2> QED
    BY <2>3, <2>5, <2>7, Zenon DEF LinkInv
<1>PassCommitKeeps.
  ASSUME LinkInv, PassCommit
  PROVE  LinkInv'
  <2> USE <1>PassCommitKeeps
  <2>1. /\ exec \in Executors /\ exec.run.from \in 1 .. MaxHead + 1 /\ exec.run.upTo \in 0 .. MaxHead
        /\ store.applied \in Nat /\ exec.run.from \in Nat /\ exec.run.upTo \in Nat /\ feed.head \in Nat
    BY Typed, TypedRun, SMTT(20) DEF LinkInv, LinkShape, RunShape, PassCommit
  <2>2. /\ RunGoes /\ exec'.run.from = 0 /\ exec'.run.upTo = 0 /\ exec'.run.drained = exec.run.drained
        /\ exec'.run.pc = IF exec.run.kind = "pull" THEN "done" ELSE "push"
    <3>1. 0 \in 0 .. MaxHead /\ 0 \in 0 .. MaxHead + 1
      BY LinkAssumption
    <3> QED
      BY <2>1, <3>1, Zenon DEF PassCommit, SameQueue, SameRun, RunGoes, Executors, Runs, RunSteps, PassSteps
  <2>3. /\ store' \in Stores /\ store'.admitted = store.admitted \cup exec.run.from .. exec.run.upTo
        /\ store'.applied = Max2(store.applied, exec.run.upTo)
    BY <2>1, PulledFields, Zenon DEF LinkInv, PassCommit
  <2>4. /\ LinkShape' /\ RunShape' /\ KnownFeed' /\ ControlInv' /\ AttemptsInv' /\ FlightInv'
        /\ InFlight' = InFlight /\ Told' = Told
    <3>1. /\ exec.run.pc \in PassSteps /\ exec'.run.pc \in PassSteps /\ exec'.run.pc # "commit"
          /\ faults' \in Nat /\ exec'.run.upTo <= feed.head
          /\ UNCHANGED <<feed, link, ctl, held, timers, sock, waiting, fence, init, planned, hist>>
      BY <2>1, <2>2 DEF PassCommit, PassSteps, LinkInv, LinkShape
    <3> QED
      BY <2>2, <2>3, <3>1, <1>PassGoes, Zenon
  <2>5. hist' = hist /\ init' = init /\ ctl' = ctl /\ exec.run.pc = "commit" /\ exec'.run.pc \in {"done", "push"}
    BY <2>2, Zenon DEF PassCommit
  <2>6. SettledInv'
    <3>1. ~hist.gapped => 1 .. store'.applied \subseteq store'.admitted
      <4> SUFFICES ASSUME ~hist.gapped PROVE 1 .. store'.applied \subseteq store'.admitted
        BY Zenon
      <4>1. 1 .. store.applied \subseteq store.admitted /\ 1 .. exec.run.from - 1 \subseteq store.admitted
        BY <2>5, Zenon DEF LinkInv, SettledInv
      <4> QED
        BY <2>1, <2>3, <4>1, PageSettles, Zenon
    <3> QED
      BY <2>3, <2>5, <3>1, Zenon DEF LinkInv, SettledInv
  <2>7. ToldInv'
    BY <2>2, <2>3, <2>4, <2>5, Zenon DEF LinkInv, ToldInv, RunGoes, SameQueue, SameRun
  <2> QED
    BY <2>3, <2>4, <2>6, <2>7, Zenon DEF LinkInv
<1>PassDefersKeeps.
  ASSUME LinkInv, PassDefers
  PROVE  LinkInv'
  <2> USE <1>PassDefersKeeps
  <2>1. exec \in Executors /\ feed.head \in Nat /\ store.applied \in Nat /\ store \in Stores /\ faults \in Nat
    BY Typed DEF LinkInv, LinkShape
  <2>2. /\ RunGoes /\ exec'.run.from = 0 /\ exec'.run.upTo = 0 /\ exec'.run.drained = FALSE
        /\ exec'.run.pc = IF exec.run.kind = "pull" THEN "done" ELSE "push"
    <3>1. 0 \in 0 .. MaxHead /\ 0 \in 0 .. MaxHead + 1
      BY LinkAssumption
    <3> QED
      BY <2>1, <3>1, Zenon DEF PassDefers, SameQueue, SameRun, RunGoes, Executors, Runs, RunSteps, PassSteps
  <2>3. /\ LinkShape' /\ RunShape' /\ KnownFeed' /\ ControlInv' /\ AttemptsInv' /\ FlightInv'
        /\ InFlight' = InFlight /\ Told' = Told
    <3>1. /\ exec.run.pc \in PassSteps /\ exec'.run.pc \in PassSteps /\ exec'.run.pc # "commit"
          /\ faults' \in Nat /\ exec'.run.upTo <= feed.head /\ store' \in Stores
          /\ UNCHANGED <<feed, link, ctl, held, timers, sock, waiting, fence, init, planned, hist>>
      BY <2>1, <2>2 DEF PassDefers, PassSteps
    <3> QED
      BY <2>2, <3>1, <1>PassGoes, Zenon
  <2>4. hist' = hist /\ init' = init /\ ctl' = ctl /\ store' = store /\ exec'.run.pc \in {"done", "push"}
        /\ exec'.entries = exec.entries
    BY <2>2, Zenon DEF PassDefers, RunGoes, SameQueue
  <2>5. SettledInv'
    BY <2>1, <2>4, SettledKept DEF LinkInv, SameOpening
  <2>6. ToldInv'
    BY <2>2, <2>3, <2>4, ToldKept, Zenon DEF LinkInv, SameOpening
  <2> QED
    BY <2>3, <2>5, <2>6, Zenon DEF LinkInv
\* The push half of a pass, whatever it could push.
<1>PushedKeeps.
  ASSUME LinkInv, RunGoes, exec.run.pc = "push", exec'.run.pc = "done", exec'.run.upTo = exec.run.upTo,
         exec'.run.drained = exec.run.drained, store' \in Stores, faults' \in Nat,
         store'.admitted = store.admitted, store'.applied = store.applied,
         UNCHANGED <<feed, link, ctl, held, timers, sock, waiting, fence, init, planned, hist>>
  PROVE  LinkInv'
  <2> USE <1>PushedKeeps
  <2>1. store.applied \in Nat /\ exec.run.upTo <= feed.head
    BY Typed DEF LinkInv, KnownFeed
  <2>2. /\ LinkShape' /\ RunShape' /\ KnownFeed' /\ ControlInv' /\ AttemptsInv' /\ FlightInv'
        /\ InFlight' = InFlight /\ Told' = Told
    BY <2>1, <1>PassGoes, Zenon DEF PassSteps
  <2>3. SettledInv'
    BY <2>1, SettledKept DEF LinkInv, SameOpening
  <2>4. ToldInv'
    BY <2>2, Zenon DEF LinkInv, ToldInv, RunGoes, SameQueue, SameRun
  <2> QED
    BY <2>2, <2>3, <2>4, Zenon DEF LinkInv
<1>PassPushKeeps.
  ASSUME LinkInv, PassPush \/ PassPushRefused
  PROVE  LinkInv'
  <2> USE <1>PassPushKeeps
  <2>1. exec \in Executors /\ store \in Stores /\ faults \in Nat /\ feed.local \in 0 .. MaxLocal
    BY Typed, Zenon DEF LinkInv, LinkShape
  <2>2. CASE PassPush
    <3>1. RunGoes /\ exec'.run.pc = "done" /\ exec'.run.upTo = exec.run.upTo /\ exec'.run.drained = exec.run.drained
      BY <2>1, <2>2, GotoFields, Zenon DEF PassPush, RunSteps, PassSteps
    <3>2. store' \in Stores /\ store'.admitted = store.admitted /\ store'.applied = store.applied
      BY <2>1, <2>2, Zenon DEF PassPush, Stores
    <3> QED
      BY <2>1, <2>2, <3>1, <3>2, <1>PushedKeeps, Zenon DEF PassPush
  <2>3. CASE PassPushRefused
    <3>1. RunGoes /\ exec'.run.pc = "done" /\ exec'.run.upTo = exec.run.upTo /\ exec'.run.drained = exec.run.drained
      BY <2>1, <2>3, Zenon DEF PassPushRefused, RunGoes, SameQueue, SameRun, Executors, Runs, RunSteps, PassSteps
    <3> QED
      BY <2>1, <2>3, <3>1, <1>PushedKeeps DEF PassPushRefused
  <2> QED
    BY <2>2, <2>3, Zenon
\* A pass ends.
<1>PassEnds.
  ASSUME LinkInv, exec' \in Executors, SameQueue, exec'.run = NoRun, exec.run.kind \in Passes \cup {"sync"},
         ctl' \in Controllers, ctl'.active = ctl.active, ctl'.live = ctl.live, ctl'.local = ctl.local,
         ctl'.attempts = ctl.attempts, ctl'.closing = ctl.closing, ctl'.deliveries = ctl.deliveries,
         \/ ctl'.current => ctl.current
         \/ /\ exec.run.kind # "push" /\ exec.run.drained /\ exec.run.pc = "done"
            /\ Settled(exec.run.gen, ctl.deliveries),
         timers' = timers \/ (timers' = timers \cup {"reconcile"} /\ GenerationCurrent(exec.run.gen)),
         link' \in LinkStates, link'.status = link.status, link.online => link'.online,
         held' \subseteq Directions, store' \in Stores, faults' \in Nat,
         store'.admitted = store.admitted, store'.applied \in {0, store.applied},
         UNCHANGED <<feed, sock, waiting, fence, init, planned, hist>>
  PROVE  LinkInv'
  <2> USE <1>PassEnds
  <2>1. LinkShape' /\ RunShape' /\ KnownFeed' /\ ControlInv' /\ AttemptsInv' /\ Told' = Told
    BY RunEnds, Zenon DEF Passes, Settled
  <2>2. FlightInv' /\ InFlight' = InFlight
    <3>1. hist.owed \in Nat /\ (sock # None => sock.next \in Nat)
      BY Plain, Zenon
    <3>2. ~Current(exec.run) /\ ~Current(exec'.run)
      BY NoRunFields, Zenon DEF Current, Passes
    <3> QED
      BY <3>1, <3>2, FlightKept DEF LinkInv, SameQueue
  <2>3. SettledInv'
    <3>1. store.applied \in Nat /\ store'.applied \in Nat /\ store'.applied <= store.applied
      BY Typed DEF LinkInv
    <3> QED
      BY <3>1, NoRunFields, SettledKept, Zenon DEF LinkInv, SameOpening
  <2>4. ToldInv'
    <3>1. CASE ctl'.current => ctl.current
      BY <2>1, <2>2, <3>1, NoRunFields, ToldKept, Zenon DEF LinkInv, SameQueue, SameOpening
    <3>2. CASE /\ exec.run.kind # "push" /\ exec.run.drained /\ exec.run.pc = "done"
               /\ Settled(exec.run.gen, ctl.deliveries)
      <4>1. ~hist.gapped => Told \subseteq store.admitted
        BY <3>2, Zenon DEF LinkInv, ToldInv, Settled, GenerationCurrent, HasPending, Passes
      <4>2. init.gen # "same"
        BY Zenon DEF LinkInv, ControlInv, Passes
      <4> QED
        BY <2>1, <2>2, <4>1, <4>2, NoRunFields, Zenon DEF ToldInv
    <3> QED
      BY <3>1, <3>2, Zenon
  <2> QED
    BY <2>1, <2>2, <2>3, <2>4, Zenon DEF LinkInv
\* reconcileOwnedTarget makes the link current only after a drained pull.
<1>CurrentAfterPassFields.
  ASSUME ctl \in Controllers, CurrentAfterPass
  PROVE  /\ ctl' \in Controllers /\ ctl'.active = ctl.active /\ ctl'.live = ctl.live /\ ctl'.local = ctl.local
         /\ ctl'.attempts = ctl.attempts /\ ctl'.closing = ctl.closing /\ ctl'.deliveries = ctl.deliveries
         /\ \/ ctl'.current => ctl.current
            \/ exec.run.kind # "push" /\ exec.run.drained /\ Settled(exec.run.gen, ctl.deliveries)
  <2> USE <1>CurrentAfterPassFields
  <2> DEFINE settles == /\ exec.run.kind # "push" /\ exec.run.drained
                        /\ link.status = "live" /\ Settled(exec.run.gen, ctl.deliveries)
  <2> HIDE DEF settles
  <2>1. ctl' = [ctl EXCEPT !.current = @ \/ settles]
    BY Zenon DEF CurrentAfterPass, settles
  <2>2. (ctl.current \/ settles) \in BOOLEAN
    BY Zenon
  <2>3. /\ ctl' \in Controllers /\ ctl'.active = ctl.active /\ ctl'.live = ctl.live /\ ctl'.local = ctl.local
        /\ ctl'.attempts = ctl.attempts /\ ctl'.closing = ctl.closing /\ ctl'.deliveries = ctl.deliveries
        /\ ctl'.current = (ctl.current \/ settles)
    BY <2>1, <2>2, Zenon DEF Controllers
  <2> QED
    BY <2>3, Zenon DEF settles
<1>DirectionDoneKeeps.
  ASSUME LinkInv, DirectionDone
  PROVE  LinkInv'
  <2> USE <1>DirectionDoneKeeps
  <2>1. /\ ctl \in Controllers /\ exec \in Executors /\ link \in LinkStates /\ store \in Stores
        /\ faults \in Nat /\ held \subseteq Directions
    BY Zenon DEF LinkInv, LinkShape
  <2>2. exec' \in Executors /\ SameQueue /\ exec'.run = NoRun
    BY <2>1, EndRunFields, Zenon DEF DirectionDone
  <2>3. /\ ctl' \in Controllers /\ ctl'.active = ctl.active /\ ctl'.live = ctl.live /\ ctl'.local = ctl.local
        /\ ctl'.attempts = ctl.attempts /\ ctl'.closing = ctl.closing /\ ctl'.deliveries = ctl.deliveries
        /\ \/ ctl'.current => ctl.current
           \/ exec.run.kind # "push" /\ exec.run.drained /\ Settled(exec.run.gen, ctl.deliveries)
    BY <2>1, <1>CurrentAfterPassFields, Zenon DEF DirectionDone
  <2>4. /\ exec.run.kind \in Passes \cup {"sync"} /\ exec.run.pc = "done" /\ GenerationCurrent(exec.run.gen)
        /\ held' \subseteq Directions /\ (timers' = timers \/ timers' = timers \cup {"reconcile"})
        /\ UNCHANGED <<feed, store, link, sock, waiting, fence, init, planned, hist, faults>>
    BY <2>1, Zenon DEF DirectionDone, Directions, Passes, Continues, HoldOnRefusal, RetryOnRefusal
  <2> QED
    BY <2>1, <2>2, <2>3, <2>4, <1>PassEnds, Zenon
<1>ReconcileDoneKeeps.
  ASSUME LinkInv, ReconcileDone
  PROVE  LinkInv'
  <2> USE <1>ReconcileDoneKeeps
  <2>1. /\ ctl \in Controllers /\ exec \in Executors /\ link \in LinkStates /\ store \in Stores
        /\ faults \in Nat /\ held \subseteq Directions
    BY Zenon DEF LinkInv, LinkShape
  <2>2. exec' \in Executors /\ SameQueue /\ exec'.run = NoRun
    BY <2>1, EndRunFields, Zenon DEF ReconcileDone
  <2>3. /\ ctl' \in Controllers /\ ctl'.active = ctl.active /\ ctl'.live = ctl.live /\ ctl'.local = ctl.local
        /\ ctl'.attempts = ctl.attempts /\ ctl'.closing = ctl.closing /\ ctl'.deliveries = ctl.deliveries
        /\ \/ ctl'.current => ctl.current
           \/ exec.run.kind # "push" /\ exec.run.drained /\ Settled(exec.run.gen, ctl.deliveries)
    BY <2>1, <1>CurrentAfterPassFields, Zenon DEF ReconcileDone
  <2>4. /\ exec.run.kind \in Passes \cup {"sync"} /\ exec.run.pc = "done" /\ GenerationCurrent(exec.run.gen)
        /\ held' \subseteq Directions /\ (timers' = timers \/ timers' = timers \cup {"reconcile"})
        /\ UNCHANGED <<feed, sock, waiting, fence, init, planned, hist, faults>>
    BY <2>1, Zenon DEF ReconcileDone, Directions, Passes, Continues, HoldOnRefusal
  <2>5. store' \in Stores /\ store'.admitted = store.admitted /\ store'.applied \in {0, store.applied}
    <3>1. store' = store \/ store' = [store EXCEPT !.applied = 0]
      BY Zenon DEF ReconcileDone
    <3>2. 0 \in 0 .. MaxHead
      BY LinkAssumption
    <3> QED
      BY <2>1, <3>1, <3>2, Zenon DEF Stores
  <2>6. link' \in LinkStates /\ link'.status = link.status /\ (link.online => link'.online)
    <3>1. link' = link \/ link' = [link EXCEPT !.online = TRUE, !.recovery = "none"]
      BY Zenon DEF ReconcileDone
    <3> QED
      BY <2>1, <3>1, Zenon DEF LinkStates, Recoveries
  <2> QED
    BY <2>1, <2>2, <2>3, <2>4, <2>5, <2>6, <1>PassEnds, Zenon
<1>PassFailsKeeps.
  ASSUME LinkInv, PassFails \/ PassAborts
  PROVE  LinkInv'
  <2> USE <1>PassFailsKeeps
  <2>1. /\ ctl \in Controllers /\ exec \in Executors /\ link \in LinkStates /\ store \in Stores
        /\ faults \in Nat /\ held \subseteq Directions
    BY Zenon DEF LinkInv, LinkShape
  <2>2. exec' \in Executors /\ SameQueue /\ exec'.run = NoRun
    BY <2>1, EndRunFields, Zenon DEF PassFails, PassAborts
  <2>3. link' = link \/ link' = [link EXCEPT !.recovery = "retryable"]
    BY Zenon DEF PassFails, PassAborts
  <2>4. link' \in LinkStates /\ link'.status = link.status /\ (link.online => link'.online)
    BY <2>1, <2>3, Zenon DEF LinkStates, Recoveries
  <2>5. /\ exec.run.kind \in Passes \cup {"sync"} /\ faults' \in Nat /\ held' \subseteq Directions
        /\ timers' = timers \/ (timers' = timers \cup {"reconcile"} /\ GenerationCurrent(exec.run.gen))
        /\ UNCHANGED <<feed, store, ctl, sock, waiting, fence, init, planned, hist>>
    BY <2>1 DEF PassFails, PassAborts, Directions, Passes, Continues
  <2> QED
    BY <2>1, <2>2, <2>4, <2>5, <1>PassEnds, Zenon
<1> QED
  BY <1>PassReadKeeps, <1>PassCommitKeeps, <1>PassDefersKeeps, <1>PassPushKeeps, <1>DirectionDoneKeeps,
     <1>ReconcileDoneKeeps, <1>PassFailsKeeps, Zenon

-----------------------------------------------------------------------------
(* Socket events. *)

\* The deliveries in flight are finitely many positions.
LEMMA FlightFinite ==
  ASSUME LinkInv
  PROVE  IsFiniteSet(InFlight) /\ Cardinality(InFlight) \in Nat /\ InFlight \subseteq Nat
<1>1. 1 \in Int /\ hist.owed \in Int
  BY Plain
<1>2. IsFiniteSet(1 .. hist.owed)
  BY <1>1, FS_Interval, Zenon
<1>3. InFlight \subseteq 1 .. hist.owed
  BY Zenon DEF LinkInv, FlightInv
<1>4. IsFiniteSet(InFlight)
  BY <1>2, <1>3, FS_Subset, Zenon
<1>5. 1 .. hist.owed \subseteq Nat
  BY <1>1
<1> QED
  BY <1>3, <1>4, <1>5, FS_CardinalityType, Zenon

\* The steps of a socket event that runs.
LEMMA DeliveriesKeep ==
  LinkInv /\ (EventAdmitted \/ CommitCursor \/ EventDone) => LinkInv'
\* A delivery that runs in its generation is in flight.
<1>RunningEvent.
  ASSUME LinkInv, Current(exec.run)
  PROVE  /\ ctl.active /\ exec.ready /\ ctl.deliveries > 0 /\ IsFiniteSet(InFlight)
         /\ exec.run.pos \in InFlight /\ exec.run.pos \notin EventsOf(exec.entries)
         /\ exec.run.pos \in 1 .. hist.owed /\ init.gen # "same"
  <2> USE <1>RunningEvent
  <2>1. /\ exec.run.pos \in InFlight /\ InFlight \subseteq 1 .. hist.owed
        /\ Current(exec.run) => \A pos \in EventsOf(exec.entries) : exec.run.pos < pos
    BY Zenon DEF LinkInv, FlightInv, InFlight
  <2>2. IsFiniteSet(InFlight) /\ Cardinality(InFlight) \in Nat /\ exec.run.pos \in Nat
    BY <2>1, FlightFinite, Zenon
  <2>3. ctl.deliveries > 0
    <3>1. Cardinality(InFlight) # 0
      BY <2>1, <2>2, FS_EmptySet, Zenon
    <3> QED
      BY <2>2, <3>1 DEF LinkInv, FlightInv
  <2>4. exec.run.pos \notin EventsOf(exec.entries)
    <3>1. exec.run.pos \in EventsOf(exec.entries) => exec.run.pos < exec.run.pos
      BY <2>1, Zenon
    <3> QED
      BY <2>2, <3>1
  <2> QED
    BY <2>1, <2>2, <2>3, <2>4, Zenon DEF LinkInv, FlightInv, ControlInv, Current
\* An event goes on to its next step.
<1>EventGoes.
  ASSUME LinkInv, RunGoes, exec.run.kind = "event", exec.run.pc \in EventSteps, exec'.run.pc \in EventSteps,
         exec'.run.upTo = exec.run.upTo, store' \in Stores, store.admitted \subseteq store'.admitted,
         UNCHANGED <<feed, link, ctl, held, timers, sock, waiting, fence, init, planned, hist, faults>>
  PROVE  /\ LinkShape' /\ RunShape' /\ KnownFeed' /\ ControlInv' /\ AttemptsInv' /\ FlightInv' /\ ToldInv'
  <2> USE <1>EventGoes
  <2>1. LinkShape'
    BY Zenon DEF LinkInv, LinkShape, RunGoes
  <2>2. RunShape'
    BY Zenon DEF LinkInv, RunShape, RunGoes, SameRun, EventSteps, RepairSteps
  <2>3. KnownFeed'
    BY Zenon DEF LinkInv, KnownFeed
  <2>4. ControlInv'
    BY Zenon DEF LinkInv, ControlInv, RunGoes, SameQueue, SameRun
  <2>5. AttemptsInv'
    BY AttemptsKept, Zenon DEF LinkInv, RunGoes, SameRun, EventSteps
  <2>6. hist.owed \in Nat /\ (sock # None => sock.next \in Nat)
    BY Plain, Zenon
  <2>7. FlightInv' /\ InFlight' = InFlight
    BY <2>6, FlightKept DEF LinkInv, RunGoes, SameQueue, SameRun, Current
  <2>8. Told' = Told
    BY Zenon DEF Told
  <2>9. ToldInv'
    BY <2>7, <2>8, ToldKept, Zenon DEF LinkInv, RunGoes, SameQueue, SameRun, SameOpening
  <2> QED
    BY <2>1, <2>2, <2>3, <2>4, <2>5, <2>7, <2>9, Zenon
<1>EventAdmittedKeeps.
  ASSUME LinkInv, EventAdmitted
  PROVE  LinkInv'
  <2> USE <1>EventAdmittedKeeps
  <2>1. /\ exec \in Executors /\ store \in Stores /\ store.admitted \subseteq 1 .. MaxHead
        /\ store.applied \in Nat
    BY Typed DEF LinkInv, LinkShape
  <2>2. RunGoes /\ exec'.run.pc = "cursor" /\ exec'.run.upTo = exec.run.upTo
    BY <2>1, GotoFields, Zenon DEF EventAdmitted, RunSteps, EventSteps
  <2>3. exec.run.pos \in 1 .. MaxHead
    <3>1. exec.run.pos \in 0 .. MaxHead /\ exec.run.pos # 0
      BY Typed, TypedRun, Zenon DEF LinkInv, RunShape, EventAdmitted
    <3> QED
      BY <3>1
  <2>4. store' \in Stores /\ store'.admitted = store.admitted \cup {exec.run.pos} /\ store'.applied = store.applied
    <3>1. store.admitted \cup {exec.run.pos} \in SUBSET (1 .. MaxHead)
      BY <2>1, <2>3, Zenon
    <3> QED
      BY <2>1, <3>1, Zenon DEF EventAdmitted, Stores
  <2>5. LinkShape' /\ RunShape' /\ KnownFeed' /\ ControlInv' /\ AttemptsInv' /\ FlightInv' /\ ToldInv'
    <3>1. exec.run.kind = "event" /\ exec.run.pc \in EventSteps /\ exec'.run.pc \in EventSteps
      BY <2>2, Zenon DEF EventAdmitted, EventSteps
    <3>2. store.admitted \subseteq store'.admitted
      BY <2>4, Zenon
    <3> QED
      BY <2>2, <2>4, <3>1, <3>2, <1>EventGoes, Zenon DEF EventAdmitted
  <2>6. SettledInv'
    BY <2>2, <2>4, Zenon DEF LinkInv, SettledInv, EventAdmitted, RunGoes, SameRun
  <2> QED
    BY <2>5, <2>6, Zenon DEF LinkInv
\* The checkpoint moves over a delivery once everything below it is admitted:
\* what else is in flight comes later in the feed.
<1>CommitCursorKeeps.
  ASSUME LinkInv, CommitCursor
  PROVE  LinkInv'
  <2> USE <1>CommitCursorKeeps
  <2> DEFINE pos == exec.run.pos
  <2> HIDE DEF pos
  <2>1. /\ exec \in Executors /\ store \in Stores /\ store.applied \in 0 .. MaxHead /\ store.applied \in Nat
        /\ pos \in 0 .. MaxHead /\ pos \in Nat
    BY Typed, TypedRun DEF LinkInv, LinkShape, pos
  <2>2. RunGoes /\ exec'.run.pc = "committed" /\ exec'.run.upTo = exec.run.upTo /\ exec'.run.pos = pos
    BY <2>1, GotoFields, Zenon DEF CommitCursor, RunSteps, EventSteps, RunGoes, SameRun, pos
  <2>3. /\ store' \in Stores /\ store'.admitted = store.admitted
        /\ store'.applied = IF GenerationCurrent(exec.run.gen) THEN Max2(store.applied, pos) ELSE store.applied
    <3>1. store' = IF GenerationCurrent(exec.run.gen) THEN [store EXCEPT !.applied = Max2(store.applied, pos)] ELSE store
      BY Zenon DEF CommitCursor, pos
    <3>2. Max2(store.applied, pos) \in 0 .. MaxHead
      BY <2>1, Zenon DEF Max2
    <3> QED
      BY <2>1, <3>1, <3>2, Zenon DEF Stores
  <2>4. LinkShape' /\ RunShape' /\ KnownFeed' /\ ControlInv' /\ AttemptsInv' /\ FlightInv' /\ ToldInv'
    <3>1. exec.run.kind = "event" /\ exec.run.pc \in EventSteps /\ exec'.run.pc \in EventSteps
      BY <2>2, Zenon DEF CommitCursor, EventSteps
    <3> QED
      BY <2>2, <2>3, <3>1, <1>EventGoes, Zenon DEF CommitCursor
  <2>5. pos \in store.admitted
    BY Zenon DEF CommitCursor, LinkInv, SettledInv, pos
  <2>6. ASSUME ~hist.gapped, GenerationCurrent(exec.run.gen), NEW k \in 1 .. pos PROVE k \in store.admitted
    <3>1. Current(exec.run)
      BY <2>6, Zenon DEF Current, GenerationCurrent, CommitCursor
    <3>2. ctl.deliveries > 0 /\ pos \in 1 .. hist.owed /\ hist.owed \in Nat
      BY <3>1, <1>RunningEvent, Typed DEF pos, LinkInv
    <3>3. k \in Told
      BY <2>1, <3>2 DEF Told
    <3>4. k \in store.admitted \cup InFlight
      BY <2>6, <3>2, <3>3, Zenon DEF LinkInv, ToldInv
    <3>5. \A other \in EventsOf(exec.entries) : pos < other
      BY <3>1, Zenon DEF LinkInv, FlightInv, pos
    <3>6. EventsOf(exec.entries) \subseteq Nat
      BY <3>2 DEF LinkInv, FlightInv, InFlight
    <3>7. k \notin EventsOf(exec.entries)
      BY <2>1, <3>5, <3>6
    <3> QED
      BY <2>5, <3>1, <3>4, <3>7, Zenon DEF InFlight, pos
  <2>7. SettledInv'
    <3>1. ~hist.gapped => 1 .. store'.applied \subseteq store'.admitted
      BY <2>1, <2>3, <2>6, Zenon DEF LinkInv, SettledInv, Max2
    <3>2. hist' = hist /\ init' = init
      BY Zenon DEF CommitCursor
    <3> QED
      BY <2>2, <2>3, <2>5, <3>1, <3>2, Zenon DEF LinkInv, SettledInv
  <2> QED
    BY <2>4, <2>7, Zenon DEF LinkInv
<1>EventDoneKeeps.
  ASSUME LinkInv, EventDone
  PROVE  LinkInv'
  <2> USE <1>EventDoneKeeps
  <2> DEFINE left == ctl.deliveries - 1
             settles == Settled(exec.run.gen, left)
  <2> HIDE DEF left, settles
  <2>1. /\ ctl \in Controllers /\ exec \in Executors /\ link \in LinkStates /\ store \in Stores
        /\ faults \in Nat /\ held \subseteq Directions /\ left \in Int /\ ctl.deliveries \in Int
        /\ store.applied \in Nat
    BY Typed DEF LinkInv, LinkShape, left
  <2>2. exec' \in Executors /\ SameQueue /\ exec'.run = NoRun
    BY <2>1, EndRunFields, Zenon DEF EventDone
  <2>3. /\ ctl' \in Controllers /\ ctl'.active = ctl.active /\ ctl'.live = ctl.live /\ ctl'.local = ctl.local
        /\ ctl'.attempts = ctl.attempts /\ ctl'.closing = ctl.closing
        /\ ctl'.deliveries = IF GenerationCurrent(exec.run.gen) THEN left ELSE ctl.deliveries
        /\ ctl'.current = IF GenerationCurrent(exec.run.gen) THEN ctl.current \/ settles ELSE ctl.current
    <3>1. ctl' = IF GenerationCurrent(exec.run.gen)
                 THEN [ctl EXCEPT !.deliveries = left, !.current = @ \/ settles] ELSE ctl
      BY Zenon DEF EventDone, left, settles
    <3>2. (ctl.current \/ settles) \in BOOLEAN
      BY Zenon
    <3> QED
      BY <2>1, <3>1, <3>2, Zenon DEF Controllers
  <2>4. /\ exec.run.kind = "event" /\ exec.run.pc = "committed"
        /\ UNCHANGED <<feed, store, link, held, timers, sock, waiting, fence, init, planned, hist, faults>>
    BY Zenon DEF EventDone
  <2>5. LinkShape' /\ RunShape' /\ KnownFeed' /\ ControlInv' /\ AttemptsInv' /\ Told' = Told
    BY <2>1, <2>2, <2>3, <2>4, RunEnds, Zenon
  <2>6. SettledInv'
    BY <2>1, <2>2, <2>4, NoRunFields, SettledKept DEF LinkInv, SameOpening
  <2>7. CASE ~GenerationCurrent(exec.run.gen)
    <3>1. ~Current(exec.run) /\ ~Current(exec'.run)
      BY <2>2, <2>7, NoRunFields, Zenon DEF Current, GenerationCurrent, LinkInv, ControlInv
    <3>2. hist.owed \in Nat /\ (sock # None => sock.next \in Nat)
      BY Plain, Zenon
    <3>3. FlightInv' /\ InFlight' = InFlight
      BY <2>2, <2>3, <2>4, <2>7, <3>1, <3>2, FlightKept DEF LinkInv, SameQueue
    <3>4. ToldInv'
      BY <2>2, <2>3, <2>4, <2>5, <2>7, <3>3, NoRunFields, ToldKept, Zenon
         DEF LinkInv, SameQueue, SameOpening
    <3> QED
      BY <2>5, <2>6, <3>3, <3>4, Zenon DEF LinkInv
  <2>8. CASE GenerationCurrent(exec.run.gen)
    <3>1. Current(exec.run) /\ ~Current(exec'.run)
      BY <2>2, <2>4, <2>8, NoRunFields, Zenon DEF Current, GenerationCurrent
    <3>2. /\ ctl.deliveries > 0 /\ IsFiniteSet(InFlight) /\ exec.run.pos \in InFlight
          /\ exec.run.pos \notin EventsOf(exec.entries) /\ init.gen # "same" /\ exec.ready
      BY <3>1, <1>RunningEvent, Zenon
    <3>3. InFlight' = InFlight \ {exec.run.pos} /\ InFlight' = EventsOf(exec.entries)
      BY <2>2, <3>1, <3>2, Zenon DEF InFlight, SameQueue
    <3>4. Cardinality(InFlight') = left
      BY <3>2, <3>3, FS_RemoveElement, Zenon DEF LinkInv, FlightInv, left
    <3>5. FlightInv'
      BY <2>2, <2>3, <2>4, <2>8, <3>1, <3>2, <3>3, <3>4, Zenon DEF LinkInv, FlightInv, SameQueue
    <3>6. ToldInv'
      <4>1. ~hist.gapped => Told \subseteq store.admitted \cup InFlight /\ exec.run.pos \in store.admitted
        BY <2>4, <3>2, Zenon DEF LinkInv, ToldInv, SettledInv
      <4> QED
        BY <2>2, <2>4, <2>5, <3>2, <3>3, <4>1, NoRunFields, Zenon DEF ToldInv
    <3> QED
      BY <2>5, <2>6, <3>5, <3>6, Zenon DEF LinkInv
  <2> QED
    BY <2>7, <2>8, Zenon
<1> QED
  BY <1>EventAdmittedKeeps, <1>CommitCursorKeeps, <1>EventDoneKeeps, Zenon

-----------------------------------------------------------------------------
(* The executor takes an entry. *)

\* A subscription that ends, or stays, tells nothing.
LEMMA NothingTold ==
  ASSUME sock' = None \/ sock' = sock, hist'.owed = hist.owed
  PROVE  Told' \subseteq Told
  BY Zenon DEF Told

\* An executor that is not ready has no delivery in flight.
LEMMA NotReady ==
  ASSUME LinkInv, ~exec.ready
  PROVE  InFlight = {} /\ EventsOf(exec.entries) = {} /\ ctl.deliveries = 0 /\ ~Current(exec.run)
<1>1. InFlight = {} /\ ctl.deliveries = Cardinality(InFlight)
  BY Zenon DEF LinkInv, FlightInv
<1>2. EventsOf(exec.entries) = {} /\ ~Current(exec.run)
  BY <1>1, Zenon DEF InFlight
<1> QED
  BY <1>1, <1>2, FS_EmptySet, Zenon

\* The executor takes an entry from its queue.
LEMMA StartsKeep ==
  LinkInv /\ (StartPass \/ StartEvent \/ SkipRepair \/ StartRepair) => LinkInv'
\* Taking an entry out leaves the others in their order.
<1>RemoveQueue.
  ASSUME NEW e \in Seq(Entries), NEW k \in DOMAIN e
  PROVE  /\ Without(e, k) \in Seq(Entries)
         /\ \A other : Pending(Without(e, k), other) => Pending(e, other)
         /\ \A other : Pending(e, other) /\ other # e[k].kind => Pending(Without(e, k), other)
         /\ e[k].kind # "event" => EventsOf(Without(e, k)) = EventsOf(e)
         /\ e[k].kind = "event" => EventsOf(e) = EventsOf(Without(e, k)) \cup {e[k].pos}
         /\ Ascending(e) => Ascending(Without(e, k))
         /\ (/\ Ascending(e) /\ e[k].kind = "event"
             /\ \A j \in DOMAIN e : e[j].kind = "event" => k <= j) =>
              \A pos \in EventsOf(Without(e, k)) : e[k].pos < pos
  <2> USE <1>RemoveQueue
  <2> DEFINE rest == Without(e, k)
             At(i) == IF i < k THEN i ELSE i + 1
  <2>1. Len(e) \in Nat /\ DOMAIN e = 1 .. Len(e) /\ k \in 1 .. Len(e)
    OBVIOUS
  <2>2. /\ rest \in Seq(Entries) /\ DOMAIN rest = 1 .. Len(e) - 1
        /\ \A i \in 1 .. Len(e) - 1 : rest[i] = e[At(i)]
    <3>1. rest = [i \in 1 .. Len(e) - 1 |-> e[At(i)]]
      BY Zenon DEF Without
    <3>2. Len(e) - 1 \in Nat /\ \A i \in 1 .. Len(e) - 1 : e[At(i)] \in Entries
      BY <2>1
    <3> HIDE DEF rest, At
    <3>3. rest \in [1 .. Len(e) - 1 -> Entries]
      BY <3>1, <3>2, Zenon
    <3> QED
      BY <3>1, <3>2, <3>3
  <2> HIDE DEF rest
  <2>3. \A i \in DOMAIN rest : At(i) \in DOMAIN e /\ At(i) # k /\ rest[i] = e[At(i)]
    BY <2>1, <2>2
  <2>4. ASSUME NEW j \in DOMAIN e, j # k PROVE \E i \in DOMAIN rest : At(i) = j
    <3>1. CASE j < k
      BY <2>1, <2>2, <3>1
    <3>2. CASE ~(j < k)
      <4>1. j - 1 \in 1 .. Len(e) - 1 /\ ~(j - 1 < k) /\ j - 1 + 1 = j
        BY <2>1, <2>4, <3>2
      <4> QED
        BY <2>2, <4>1, Zenon
    <3> QED
      BY <3>1, <3>2, Zenon
  <2>5. \A i, j \in DOMAIN rest : i < j => At(i) < At(j)
    BY <2>1, <2>2
  <2> HIDE DEF At
  <2>6. ASSUME NEW other PROVE Pending(rest, other) => Pending(e, other)
    BY <2>3, Zenon DEF Pending
  <2>7. ASSUME NEW other, Pending(e, other), other # e[k].kind PROVE Pending(rest, other)
    <3>1. PICK j \in DOMAIN e : e[j].kind = other
      BY <2>7, Zenon DEF Pending
    <3>2. PICK i \in DOMAIN rest : At(i) = j
      BY <2>4, <2>7, <3>1, Zenon
    <3> QED
      BY <2>3, <3>1, <3>2, Zenon DEF Pending
  <2>8. ASSUME NEW pos \in EventsOf(rest)
        PROVE  pos \in EventsOf(e) /\ \E j \in DOMAIN e : j # k /\ e[j].kind = "event" /\ e[j].pos = pos
    <3>1. PICK i \in DOMAIN rest : rest[i].kind = "event" /\ rest[i].pos = pos
      BY Zenon DEF EventsOf
    <3> QED
      BY <2>3, <3>1, Zenon DEF EventsOf
  <2>9. ASSUME NEW j \in DOMAIN e, j # k, e[j].kind = "event" PROVE e[j].pos \in EventsOf(rest)
    <3>1. PICK i \in DOMAIN rest : At(i) = j
      BY <2>4, <2>9, Zenon
    <3>2. rest[i].kind = "event" /\ rest[i].pos = e[j].pos
      BY <2>3, <2>9, <3>1, Zenon
    <3> QED
      BY <3>2, Zenon DEF EventsOf
  <2>10. ASSUME NEW pos \in EventsOf(e)
         PROVE  pos \in EventsOf(rest) \/ (e[k].kind = "event" /\ pos = e[k].pos)
    <3>1. PICK j \in DOMAIN e : e[j].kind = "event" /\ e[j].pos = pos
      BY Zenon DEF EventsOf
    <3> QED
      BY <2>9, <3>1, Zenon
  <2>11. e[k].kind = "event" => e[k].pos \in EventsOf(e)
    BY Zenon DEF EventsOf
  <2>12. Ascending(e) => Ascending(rest)
    BY <2>3, <2>5, Zenon DEF Ascending
  <2>13. ASSUME Ascending(e), e[k].kind = "event", \A j \in DOMAIN e : e[j].kind = "event" => k <= j,
                NEW pos \in EventsOf(rest)
         PROVE  e[k].pos < pos
    <3>1. PICK j \in DOMAIN e : j # k /\ e[j].kind = "event" /\ e[j].pos = pos
      BY <2>8, Zenon
    <3>2. k < j
      BY <2>1, <2>13, <3>1
    <3> QED
      BY <2>13, <3>1, <3>2, Zenon DEF Ascending
  <2> QED
    BY <2>2, <2>6, <2>7, <2>8, <2>10, <2>11, <2>12, <2>13, Zenon DEF rest
\* The entry that is taken: a repair if there is one, otherwise work of a
\* ready executor, and the first of the calls.
<1>TakeStep.
  ASSUME LinkShape, NEW kinds, NEW r, NEW i, Take(kinds, i, r)
  PROVE  /\ ctl.active /\ exec.run = NoRun
         /\ i \in DOMAIN exec.entries /\ exec.entries[i] \in Entries /\ exec.entries[i].kind \in kinds
         /\ exec' = [exec EXCEPT !.entries = Without(@, i), !.run = r]
         /\ exec.entries[i].kind # "repair" => exec.ready /\ ~Pending(exec.entries, "repair")
         /\ exec.entries[i].kind = "repair" => Pending(exec.entries, "repair")
         /\ exec.entries[i].kind = "event" =>
              \A j \in DOMAIN exec.entries : exec.entries[j].kind = "event" => i <= j
  <2> USE <1>TakeStep
  <2> DEFINE repairs == {j \in DOMAIN exec.entries : exec.entries[j].kind = "repair"}
             others == {j \in DOMAIN exec.entries : Eligible(exec.entries[j].kind)}
  <2>1. Takeable = IF repairs # {} THEN repairs ELSE IF exec.ready THEN others ELSE {}
    BY Zenon DEF Takeable
  <2>2. i \in Takeable /\ (\A j \in Takeable : i <= j) /\ ctl.active /\ exec.run = NoRun
        /\ exec.entries[i].kind \in kinds /\ exec' = [exec EXCEPT !.entries = Without(@, i), !.run = r]
    BY Zenon DEF Take
  <2>3. i \in DOMAIN exec.entries
    BY <2>1, <2>2, Zenon
  <2>4. exec.entries \in Seq(Entries)
    BY Zenon DEF LinkShape, Executors
  <2>5. exec.entries[i] \in Entries
    BY <2>3, <2>4
  <2>6. Pending(exec.entries, "repair") <=> repairs # {}
    BY Zenon DEF Pending
  <2>7. exec.entries[i].kind # "repair" => exec.ready /\ repairs = {} /\ Takeable = others
    BY <2>1, <2>2, Zenon
  <2>8. ASSUME exec.entries[i].kind = "event", NEW j \in DOMAIN exec.entries, exec.entries[j].kind = "event"
        PROVE  i <= j
    <3>1. j \in others
      BY <2>8, Zenon DEF Eligible, Calls
    <3> QED
      BY <2>2, <2>7, <2>8, <3>1, Zenon
  <2> QED
    BY <2>2, <2>3, <2>5, <2>6, <2>7, <2>8, Zenon
\* An entry that starts to run.
<1>RunningFields.
  ASSUME NEW entry \in Entries, NEW pc \in RunSteps
  PROVE  /\ Running(entry, pc) \in Runs
         /\ Running(entry, pc).kind = entry.kind /\ Running(entry, pc).pos = entry.pos
         /\ Running(entry, pc).gen = "same" /\ Running(entry, pc).pc = pc
         /\ Running(entry, pc).from = 0 /\ Running(entry, pc).upTo = 0
         /\ Running(entry, pc).drained = TRUE /\ Running(entry, pc).threw = FALSE
  <2> USE <1>RunningFields
  <2>1. entry.kind \in EntryKinds \cup {"none"} /\ entry.pos \in 0 .. MaxHead
    BY Zenon DEF Entries
  <2> QED
    BY <2>1, NoRunFields, Zenon DEF NoRun, Running, Runs, Generations
\* The taken entry leaves the queue.
<1>TakeFields.
  ASSUME LinkShape, NEW kinds, NEW r \in Runs, NEW i, Take(kinds, i, r)
  PROVE  /\ exec' \in Executors /\ exec'.ready = exec.ready /\ exec'.entries = Without(exec.entries, i)
         /\ exec'.run = r
  <2> USE <1>TakeFields
  <2>1. exec \in Executors /\ exec.entries \in Seq(Entries) /\ i \in DOMAIN exec.entries
    BY Typed, <1>TakeStep, Zenon DEF LinkShape
  <2>2. Without(exec.entries, i) \in Seq(Entries)
    BY <2>1, <1>RemoveQueue, Zenon
  <2>3. exec' = [exec EXCEPT !.entries = Without(@, i), !.run = r]
    BY Zenon DEF Take
  <2> QED
    BY <2>1, <2>2, <2>3, Zenon DEF Executors
<1>StartPassKeeps.
  ASSUME LinkInv, StartPass
  PROVE  LinkInv'
  <2> USE <1>StartPassKeeps
  <2>1. /\ LinkShape /\ ctl \in Controllers /\ exec.entries \in Seq(Entries)
        /\ store.applied \in Nat /\ 0 <= feed.head /\ hist.owed \in Nat /\ (sock # None => sock.next \in Nat)
    BY Typed, Plain, Zenon DEF LinkInv, LinkShape
  <2>2. PICK i \in Takeable, runs \in BOOLEAN :
          /\ Take(Passes \cup {"sync"}, i, IF runs THEN Running(exec.entries[i], "read") ELSE NoRun)
          /\ ctl' = ctl \/ ctl' = [ctl EXCEPT !.current = FALSE]
          /\ timers' \subseteq timers \cup {"reconcile"}
          /\ UNCHANGED <<feed, store, link, held, sock, waiting, fence, init, planned, hist, faults>>
    BY Zenon DEF StartPass, Passed
  <2> DEFINE r == IF runs THEN Running(exec.entries[i], "read") ELSE NoRun
  <2> HIDE DEF r
  <2>3. /\ ctl.active /\ exec.run = NoRun /\ i \in DOMAIN exec.entries /\ exec.entries[i] \in Entries
        /\ exec.entries[i].kind \in Passes \cup {"sync"} /\ exec.ready /\ ~Pending(exec.entries, "repair")
    <3>1. Take(Passes \cup {"sync"}, i, r) /\ "repair" \notin Passes \cup {"sync"}
      BY <2>2, Zenon DEF r, Passes
    <3>2. /\ ctl.active /\ exec.run = NoRun /\ i \in DOMAIN exec.entries /\ exec.entries[i] \in Entries
          /\ exec.entries[i].kind \in Passes \cup {"sync"}
          /\ exec.entries[i].kind # "repair" => exec.ready /\ ~Pending(exec.entries, "repair")
      BY <2>1, <3>1, <1>TakeStep, Zenon
    <3> QED
      BY <3>1, <3>2, Zenon
  <2>4. /\ r \in Runs /\ r.kind \in Passes \cup {"sync", "none"} /\ r.upTo = 0
        /\ (r.pc = "read" /\ r.kind # "none") \/ (r.pc = "idle" /\ r.kind = "none")
    <3>1. CASE runs
      <4>1. "read" \in RunSteps
        BY Zenon DEF RunSteps, PassSteps
      <4>2. r \in Runs /\ r.kind = exec.entries[i].kind /\ r.upTo = 0 /\ r.pc = "read"
        BY <2>3, <3>1, <4>1, <1>RunningFields, Zenon DEF r
      <4> QED
        BY <2>3, <4>2, Zenon DEF Passes
    <3>2. CASE ~runs
      BY <3>2, NoRunFields, Zenon DEF r
    <3> QED
      BY <3>1, <3>2, Zenon
  <2>5. exec' \in Executors /\ exec'.ready = exec.ready /\ exec'.entries = Without(exec.entries, i) /\ exec'.run = r
    BY <2>1, <2>2, <2>4, <1>TakeFields, Zenon DEF r
  <2>6. /\ \A other : Pending(exec'.entries, other) => Pending(exec.entries, other)
        /\ EventsOf(exec'.entries) = EventsOf(exec.entries)
        /\ Ascending(exec.entries) => Ascending(exec'.entries)
    BY <2>1, <2>3, <2>5, <1>RemoveQueue DEF Passes
  <2>7. /\ ctl' \in Controllers /\ ctl'.active = ctl.active /\ ctl'.live = ctl.live /\ ctl'.local = ctl.local
        /\ ctl'.attempts = ctl.attempts /\ ctl'.closing = ctl.closing /\ ctl'.deliveries = ctl.deliveries
        /\ ctl'.current => ctl.current
    BY <2>1, <2>2, Zenon DEF Controllers
  <2>8. LinkShape'
    BY <2>1, <2>2, <2>5, <2>7, Zenon DEF LinkShape
  <2>9. RunShape'
    BY <2>2, <2>4, <2>5, Zenon DEF LinkInv, RunShape, EventSteps, RepairSteps, Passes
  <2>10. KnownFeed'
    BY <2>1, <2>2, <2>4, <2>5, Zenon DEF LinkInv, KnownFeed
  <2>11. init.gen # "same"
    BY <2>3, Zenon DEF LinkInv, ControlInv
  <2>12. ControlInv'
    BY <2>2, <2>3, <2>4, <2>5, <2>6, <2>7, <2>11, Zenon DEF LinkInv, ControlInv, Passes
  <2>13. AttemptsInv'
    BY <2>2, <2>3, <2>4, <2>5, <2>7, NoRunFields, AttemptsKept, Zenon DEF LinkInv, Passes
  <2>14. FlightInv' /\ InFlight' = InFlight
    <3>1. ~Current(exec.run) /\ ~Current(exec'.run)
      BY <2>3, <2>4, <2>5, NoRunFields, Zenon DEF Current, Passes
    <3> QED
      BY <2>1, <2>2, <2>5, <2>6, <2>7, <3>1, FlightKept DEF LinkInv
  <2>15. SettledInv'
    BY <2>1, <2>2, <2>4, <2>5, SettledKept DEF LinkInv, SameOpening
  <2>16. ToldInv'
    BY <2>2, <2>3, <2>4, <2>5, <2>7, <2>11, <2>14, Zenon DEF LinkInv, ToldInv, Told
  <2> QED
    BY <2>8, <2>9, <2>10, <2>12, <2>13, <2>14, <2>15, <2>16, Zenon DEF LinkInv
<1>StartEventKeeps.
  ASSUME LinkInv, StartEvent
  PROVE  LinkInv'
  <2> USE <1>StartEventKeeps
  <2>1. /\ LinkShape /\ ctl \in Controllers /\ exec.entries \in Seq(Entries)
        /\ store.applied \in Nat /\ 0 <= feed.head /\ hist.owed \in Nat /\ (sock # None => sock.next \in Nat)
    BY Typed, Plain, Zenon DEF LinkInv, LinkShape
  <2>2. PICK i \in Takeable :
          /\ Take({"event"}, i, Running(exec.entries[i], IF exec.entries[i].pos <= store.applied THEN "committed" ELSE "admit"))
          /\ ctl' = IF exec.entries[i].pos <= store.applied THEN ctl ELSE [ctl EXCEPT !.current = FALSE]
          /\ timers' = timers \cup Passed(i)
          /\ UNCHANGED <<feed, store, link, held, sock, waiting, fence, init, planned, hist, faults>>
    BY Zenon DEF StartEvent
  <2> DEFINE entry == exec.entries[i]
             covered == entry.pos <= store.applied
             r == Running(entry, IF covered THEN "committed" ELSE "admit")
  <2>3. /\ ctl.active /\ exec.run = NoRun /\ i \in DOMAIN exec.entries /\ entry \in Entries
        /\ entry.kind = "event" /\ exec.ready /\ ~Pending(exec.entries, "repair")
        /\ \A j \in DOMAIN exec.entries : exec.entries[j].kind = "event" => i <= j
    <3>1. Take({"event"}, i, r)
      BY <2>2, Zenon
    <3> HIDE DEF r
    <3>2. /\ ctl.active /\ exec.run = NoRun /\ i \in DOMAIN exec.entries /\ exec.entries[i] \in Entries
          /\ exec.entries[i].kind \in {"event"}
          /\ exec.entries[i].kind # "repair" => exec.ready /\ ~Pending(exec.entries, "repair")
          /\ exec.entries[i].kind = "event" =>
               \A j \in DOMAIN exec.entries : exec.entries[j].kind = "event" => i <= j
      BY <2>1, <3>1, <1>TakeStep, Zenon
    <3> QED
      BY <3>2, Zenon
  <2>4. /\ r \in Runs /\ r.kind = "event" /\ r.gen = "same" /\ r.upTo = 0 /\ r.pos = entry.pos
        /\ r.pc = IF covered THEN "committed" ELSE "admit"
    <3>1. (IF covered THEN "committed" ELSE "admit") \in RunSteps
      BY Zenon DEF RunSteps, EventSteps
    <3> QED
      BY <2>3, <3>1, <1>RunningFields, Zenon
  <2>5. /\ Take({"event"}, i, r) /\ timers' \subseteq timers \cup {"reconcile"}
        /\ ctl' = IF covered THEN ctl ELSE [ctl EXCEPT !.current = FALSE]
    BY <2>2, Zenon DEF Passed
  <2> HIDE DEF r, covered, entry
  <2>6. exec' \in Executors /\ exec'.ready = exec.ready /\ exec'.entries = Without(exec.entries, i) /\ exec'.run = r
    BY <2>1, <2>4, <2>5, <1>TakeFields, Zenon
  <2>7. /\ \A other : Pending(exec'.entries, other) => Pending(exec.entries, other)
        /\ EventsOf(exec.entries) = EventsOf(exec'.entries) \cup {entry.pos}
        /\ Ascending(exec.entries) => Ascending(exec'.entries)
        /\ Ascending(exec.entries) => \A pos \in EventsOf(exec'.entries) : entry.pos < pos
    <3>1. /\ \A other : Pending(exec'.entries, other) => Pending(exec.entries, other)
          /\ Ascending(exec.entries) => Ascending(exec'.entries)
      BY <2>1, <2>3, <2>6, <1>RemoveQueue
    <3>2. EventsOf(exec.entries) = EventsOf(exec'.entries) \cup {entry.pos}
      BY <2>1, <2>3, <2>6, <1>RemoveQueue, Zenon DEF entry
    <3>3. Ascending(exec.entries) => \A pos \in EventsOf(exec'.entries) : entry.pos < pos
      BY <2>1, <2>3, <2>6, <1>RemoveQueue, Zenon DEF entry
    <3> QED
      BY <3>1, <3>2, <3>3, Zenon
  <2>8. /\ ctl' \in Controllers /\ ctl'.active = ctl.active /\ ctl'.live = ctl.live /\ ctl'.local = ctl.local
        /\ ctl'.attempts = ctl.attempts /\ ctl'.closing = ctl.closing /\ ctl'.deliveries = ctl.deliveries
        /\ ctl'.current => ctl.current
    BY <2>1, <2>5, Zenon DEF Controllers
  <2>9. InFlight' = InFlight /\ InFlight \subseteq 1 .. hist.owed /\ entry.pos \in InFlight
    BY <2>3, <2>4, <2>6, <2>7, NoRunFields, Zenon DEF InFlight, Current, LinkInv, FlightInv
  <2>10. LinkShape'
    BY <2>1, <2>2, <2>5, <2>6, <2>8, Zenon DEF LinkShape
  <2>11. RunShape'
    BY <2>1, <2>2, <2>4, <2>6, <2>9 DEF LinkInv, RunShape, EventSteps, RepairSteps
  <2>12. KnownFeed'
    BY <2>1, <2>2, <2>4, <2>6, Zenon DEF LinkInv, KnownFeed
  <2>13. init.gen # "same"
    BY <2>3, Zenon DEF LinkInv, ControlInv
  <2>14. ControlInv'
    BY <2>2, <2>3, <2>4, <2>5, <2>6, <2>7, <2>8, <2>13, Zenon DEF LinkInv, ControlInv
  <2>15. AttemptsInv'
    BY <2>2, <2>3, <2>4, <2>6, <2>8, NoRunFields, AttemptsKept, Zenon DEF LinkInv
  <2>16. FlightInv'
    BY <2>2, <2>3, <2>4, <2>6, <2>7, <2>8, <2>9, Zenon DEF LinkInv, FlightInv
  <2>17. SettledInv'
    <3>1. entry.pos \in 1 .. hist.owed /\ hist.owed \in Nat
      BY <2>1, <2>9, Zenon
    <3>2. ~hist.gapped /\ covered => entry.pos \in store.admitted
      BY <2>1, <3>1 DEF LinkInv, SettledInv, covered
    <3> QED
      BY <2>2, <2>4, <2>6, <3>2, Zenon DEF LinkInv, SettledInv
  <2>18. ToldInv'
    BY <2>2, <2>4, <2>6, <2>8, <2>9, <2>13, Zenon DEF LinkInv, ToldInv, Told
  <2> QED
    BY <2>10, <2>11, <2>12, <2>14, <2>15, <2>16, <2>17, <2>18, Zenon DEF LinkInv
\* Taking a repair, to run it or not.
<1>TakeRepair.
  ASSUME LinkInv, NEW i, NEW r \in Runs, Take({"repair"}, i, r)
  PROVE  /\ ctl.active /\ exec.run = NoRun /\ exec.ready = FALSE /\ Pending(exec.entries, "repair")
         /\ init.gen # "same" /\ exec' \in Executors /\ exec'.ready = FALSE /\ exec'.run = r
         /\ \A other : Pending(exec'.entries, other) => Pending(exec.entries, other)
         /\ Pending(exec.entries, "pull") => Pending(exec'.entries, "pull")
         /\ EventsOf(exec'.entries) = EventsOf(exec.entries) /\ EventsOf(exec.entries) = {}
         /\ ctl.deliveries = 0 /\ InFlight = {}
  <2> USE <1>TakeRepair
  <2>1. LinkShape /\ exec.entries \in Seq(Entries) /\ exec.ready \in BOOLEAN
    BY Typed, Zenon DEF LinkInv
  <2>2. /\ ctl.active /\ exec.run = NoRun /\ i \in DOMAIN exec.entries
        /\ exec.entries[i].kind \in {"repair"}
        /\ exec.entries[i].kind = "repair" => Pending(exec.entries, "repair")
    BY <2>1, <1>TakeStep, Zenon
  <2>3. exec' \in Executors /\ exec'.ready = exec.ready /\ exec'.entries = Without(exec.entries, i) /\ exec'.run = r
    BY <2>1, <1>TakeFields, Zenon
  <2>4. /\ \A other : Pending(exec'.entries, other) => Pending(exec.entries, other)
        /\ Pending(exec.entries, "pull") => Pending(exec'.entries, "pull")
        /\ EventsOf(exec'.entries) = EventsOf(exec.entries)
    BY <2>1, <2>2, <2>3, <1>RemoveQueue
  <2>5. exec.ready = FALSE /\ init.gen # "same"
    BY <2>1, <2>2, Zenon DEF LinkInv, ControlInv
  <2>6. InFlight = {} /\ EventsOf(exec.entries) = {} /\ ctl.deliveries = 0
    BY <2>5, NotReady, Zenon
  <2> QED
    BY <2>2, <2>3, <2>4, <2>5, <2>6, Zenon
<1>SkipRepairKeeps.
  ASSUME LinkInv, SkipRepair
  PROVE  LinkInv'
  <2> USE <1>SkipRepairKeeps
  <2>1. PICK i \in Takeable : Take({"repair"}, i, NoRun)
    BY Zenon DEF SkipRepair
  <2>2. /\ fence' = "none" /\ UNCHANGED <<feed, store, link, ctl, held, timers, sock, waiting, init, planned, hist, faults>>
    BY Zenon DEF SkipRepair
  <2>3. /\ ctl.active /\ exec.run = NoRun /\ exec.ready = FALSE /\ init.gen # "same"
        /\ exec' \in Executors /\ exec'.ready = FALSE /\ exec'.run = NoRun
        /\ \A other : Pending(exec'.entries, other) => Pending(exec.entries, other)
        /\ Pending(exec.entries, "pull") => Pending(exec'.entries, "pull")
        /\ EventsOf(exec'.entries) = {} /\ ctl.deliveries = 0 /\ InFlight = {}
    BY <2>1, <1>TakeRepair, NoRunFields, Zenon
  <2>4. LinkShape'
    BY <2>2, <2>3, Zenon DEF LinkInv, LinkShape
  <2>5. RunShape' /\ KnownFeed'
    BY <2>2, <2>3, Zenon DEF LinkInv, RunShape, KnownFeed
  <2>6. ControlInv'
    BY <2>2, <2>3, NoRunFields, Zenon DEF LinkInv, ControlInv
  <2>7. AttemptsInv'
    BY <2>2, <2>3, NoRunFields, AttemptsKept, Zenon DEF LinkInv
  <2>8. FlightInv' /\ InFlight' = {}
    BY <2>2, <2>3, NoRunFields, FlightCleared, Zenon DEF Current
  <2>9. SettledInv'
    BY <2>2, <2>3, Zenon DEF LinkInv, SettledInv
  <2>10. ToldInv'
    BY <2>2, <2>3, <2>8, NoRunFields, Zenon DEF LinkInv, ToldInv, Told
  <2> QED
    BY <2>4, <2>5, <2>6, <2>7, <2>8, <2>9, <2>10, Zenon DEF LinkInv
<1>StartRepairKeeps.
  ASSUME LinkInv, StartRepair
  PROVE  LinkInv'
  <2> USE <1>StartRepairKeeps
  <2> DEFINE r == Running(Entry("repair", 0), "close")
  <2>1. /\ r \in Runs /\ r.kind = "repair" /\ r.gen = "same" /\ r.pc = "close" /\ r.upTo = 0
    <3>1. Entry("repair", 0) \in Entries /\ Entry("repair", 0).kind = "repair" /\ "close" \in RunSteps
      BY LinkAssumption DEF Entry, Entries, EntryKinds, RunSteps, RepairSteps
    <3> QED
      BY <3>1, <1>RunningFields, Zenon
  <2>2. PICK i \in Takeable : Take({"repair"}, i, r)
    BY Zenon DEF StartRepair
  <2> HIDE DEF r
  <2>3. /\ ~IsRepairCancelled /\ timers' = timers \ {"repair"} /\ ctl' = [Closed(ctl) EXCEPT !.attempts = @ + 1]
        /\ sock' = None
        /\ UNCHANGED <<feed, store, link, held, waiting, fence, init, planned, hist, faults>>
    BY Zenon DEF StartRepair
  <2>4. /\ ctl.active /\ exec.run = NoRun /\ exec.ready = FALSE /\ init.gen # "same"
        /\ exec' \in Executors /\ exec'.ready = FALSE /\ exec'.run = r
        /\ EventsOf(exec'.entries) = {} /\ ctl.deliveries = 0 /\ InFlight = {}
    BY <2>1, <2>2, <1>TakeRepair, Zenon
  <2>5. /\ ctl' \in Controllers /\ ctl'.active = ctl.active /\ ctl'.live = "none" /\ ctl'.local = "none"
        /\ ctl'.current = ctl.current /\ ctl'.deliveries = ctl.deliveries /\ ctl'.attempts = ctl.attempts + 1
        /\ ctl'.closing = ctl.closing
    <3>1. ctl \in Controllers /\ ctl.attempts + 1 \in Nat
      BY Typed DEF LinkInv, LinkShape
    <3> QED
      BY <2>3, <3>1, Zenon DEF Closed, Controllers, Generations
  <2>6. LinkShape'
    BY <2>3, <2>4, <2>5, Zenon DEF LinkInv, LinkShape
  <2>7. RunShape'
    BY <2>1, <2>3, <2>4, Zenon DEF LinkInv, RunShape, EventSteps, RepairSteps
  <2>8. KnownFeed'
    BY <2>1, <2>3, <2>4, NoRunFields, Zenon DEF LinkInv, KnownFeed
  <2>9. ControlInv'
    BY <2>1, <2>3, <2>4, <2>5, NoRunFields, Zenon DEF LinkInv, ControlInv, IsRepairCancelled, PassSteps
  <2>10. AttemptsInv'
    <3>1. ctl.attempts \in Nat /\ MaxAttempts \in Nat
      BY Typed, LinkAssumption, Zenon DEF LinkInv
    <3>2. ctl.attempts < MaxAttempts /\ (fence # "none" => ctl.attempts <= 0)
      BY <2>3, <2>4, NoRunFields, Zenon DEF LinkInv, AttemptsInv, IsRepairCancelled
    <3> QED
      BY <2>1, <2>3, <2>4, <2>5, <3>1, <3>2 DEF AttemptsInv
  <2>11. FlightInv' /\ InFlight' = {}
    BY <2>1, <2>4, <2>5, FlightCleared, Zenon DEF Current
  <2>12. SettledInv'
    BY <2>1, <2>3, <2>4, Zenon DEF LinkInv, SettledInv
  <2>13. ToldInv'
    <3>1. Told' \subseteq Told
      BY <2>3, NothingTold, Zenon
    <3> QED
      BY <2>1, <2>3, <2>4, <2>5, <2>11, <3>1, Zenon DEF LinkInv, ToldInv
  <2> QED
    BY <2>6, <2>7, <2>8, <2>9, <2>10, <2>11, <2>12, <2>13, Zenon DEF LinkInv
<1> QED
  BY <1>StartPassKeeps, <1>StartEventKeeps, <1>SkipRepairKeeps, <1>StartRepairKeeps, Zenon

-----------------------------------------------------------------------------
(* The transport: messages and connections. *)

\* A call is queued behind everything else.
LEMMA AppendQueue ==
  ASSUME NEW e \in Seq(Entries), NEW entry \in Entries,
         entry.kind = "event" => \A pos \in EventsOf(e) : pos < entry.pos
  PROVE  /\ Append(e, entry) \in Seq(Entries)
         /\ \A other : Pending(Append(e, entry), other) <=> Pending(e, other) \/ other = entry.kind
         /\ EventsOf(Append(e, entry)) = EventsOf(e) \cup (IF entry.kind = "event" THEN {entry.pos} ELSE {})
         /\ Ascending(e) => Ascending(Append(e, entry))
<1> DEFINE longer == Append(e, entry)
<1>1. /\ longer \in Seq(Entries) /\ Len(e) \in Nat
      /\ DOMAIN e = 1 .. Len(e) /\ DOMAIN longer = 1 .. Len(e) + 1
      /\ \A i \in 1 .. Len(e) : longer[i] = e[i]
      /\ longer[Len(e) + 1] = entry
  OBVIOUS
<1> HIDE DEF longer
<1>2. \A i \in DOMAIN longer : i \in DOMAIN e \/ i = Len(e) + 1
  BY <1>1
<1>3. ASSUME NEW other PROVE Pending(longer, other) <=> Pending(e, other) \/ other = entry.kind
  BY <1>1, <1>2 DEF Pending
<1>4. EventsOf(longer) = EventsOf(e) \cup (IF entry.kind = "event" THEN {entry.pos} ELSE {})
  <2>1. ASSUME NEW pos \in EventsOf(longer)
        PROVE  pos \in EventsOf(e) \cup (IF entry.kind = "event" THEN {entry.pos} ELSE {})
    <3>1. PICK i \in DOMAIN longer : longer[i].kind = "event" /\ longer[i].pos = pos
      BY Zenon DEF EventsOf
    <3> QED
      BY <1>1, <1>2, <3>1, Zenon DEF EventsOf
  <2>2. ASSUME NEW pos \in EventsOf(e) PROVE pos \in EventsOf(longer)
    <3>1. PICK i \in DOMAIN e : e[i].kind = "event" /\ e[i].pos = pos
      BY Zenon DEF EventsOf
    <3>2. i \in DOMAIN longer /\ longer[i] = e[i]
      BY <1>1
    <3> QED
      BY <3>1, <3>2, Zenon DEF EventsOf
  <2>3. ASSUME entry.kind = "event" PROVE entry.pos \in EventsOf(longer)
    <3>1. Len(e) + 1 \in DOMAIN longer
      BY <1>1
    <3> QED
      BY <1>1, <2>3, <3>1, Zenon DEF EventsOf
  <2> QED
    BY <2>1, <2>2, <2>3, Zenon
<1>5. ASSUME Ascending(e) PROVE Ascending(longer)
  <2> SUFFICES ASSUME NEW i \in DOMAIN longer, NEW j \in DOMAIN longer,
                      longer[i].kind = "event", longer[j].kind = "event", i < j
               PROVE  longer[i].pos < longer[j].pos
    BY Zenon DEF Ascending
  <2>1. i \in DOMAIN e /\ longer[i] = e[i]
    BY <1>1
  <2>2. CASE j = Len(e) + 1
    BY <1>1, <2>1, <2>2, Zenon DEF EventsOf
  <2>3. CASE j \in DOMAIN e
    BY <1>1, <1>5, <2>1, <2>3, Zenon DEF Ascending
  <2> QED
    BY <1>2, <2>2, <2>3, Zenon
<1> QED
  BY <1>1, <1>3, <1>4, <1>5, Zenon DEF longer

\* The executor's queue becomes q.
LEMMA QueueFields ==
  ASSUME exec \in Executors, NEW q \in Seq(Entries), NEW drain \in BOOLEAN,
         exec' = [exec EXCEPT !.entries = q, !.drain = drain] \/ exec' = [exec EXCEPT !.entries = q]
  PROVE  exec' \in Executors /\ exec'.ready = exec.ready /\ exec'.run = exec.run /\ exec'.entries = q
  BY Zenon DEF Executors

\* Messages of the socket, its loss and its return.
LEMMA TransportKeeps ==
  LinkInv /\ (EventMarks \/ EventEnqueues \/ EventWaits \/ HandleReconnected \/ Disconnect \/ Resubscribe)
    => LinkInv'
\* A message marks the pull: the link is not current, and whatever the message
\* told of is left to the durable pull.
<1>PullMarked.
  ASSUME LinkInv, Attentive, exec' \in Executors, exec'.ready = exec.ready, exec'.run = exec.run,
         EventsOf(exec'.entries) = EventsOf(exec.entries), Ascending(exec.entries) => Ascending(exec'.entries),
         Pending(exec'.entries, "pull"), Pending(exec'.entries, "repair") <=> Pending(exec.entries, "repair"),
         ctl' = [ctl EXCEPT !.current = FALSE],
         sock' \in Sockets, sock.next <= sock'.next, sock'.next <= feed.head + 1,
         sock'.up /\ ~sock'.news => link'.online \/ (sock.up /\ ~sock.news),
         hist' \in Histories, hist.owed <= hist'.owed, hist'.owed <= feed.head,
         hist.gapped => hist'.gapped, ctl.deliveries > 0 => hist'.gapped,
         link' \in LinkStates, link'.status = link.status, link.online => link'.online,
         waiting' \subseteq 1 .. MaxHead,
         UNCHANGED <<feed, store, held, timers, fence, init, planned, faults>>
  PROVE  LinkInv'
  <2> USE <1>PullMarked
  <2>1. /\ ctl' \in Controllers /\ ctl'.active = ctl.active /\ ctl'.live = ctl.live /\ ctl'.local = ctl.local
        /\ ctl'.attempts = ctl.attempts /\ ctl'.closing = ctl.closing /\ ctl'.deliveries = ctl.deliveries
        /\ ctl'.current = FALSE
    <3>1. ctl \in Controllers
      BY Zenon DEF LinkInv, LinkShape
    <3> QED
      BY <3>1, Zenon DEF Controllers
  <2>2. /\ ctl.active /\ sock # None /\ sock' # None /\ sock.next \in Nat /\ sock'.next \in Nat
        /\ hist.owed \in Nat /\ hist'.owed \in Nat /\ store.applied \in Nat /\ link.status # "paused"
    <3>1. ctl.active /\ sock # None /\ sock' # None
      BY LinkAssumption, Zenon DEF Attentive, Sockets
    <3>2. sock.next \in Nat /\ sock'.next \in Nat
      BY <3>1, TypedSocket DEF LinkInv, LinkShape, Sockets
    <3>3. hist.owed \in Nat /\ store.applied \in Nat /\ hist'.owed \in Nat
      BY Typed DEF LinkInv, Histories
    <3> QED
      BY <3>1, <3>2, <3>3, Zenon DEF LinkInv, ControlInv
  <2>3. LinkShape'
    BY <2>1, Zenon DEF LinkInv, LinkShape
  <2>4. RunShape'
    BY Zenon DEF LinkInv, RunShape
  <2>5. KnownFeed'
    BY Zenon DEF LinkInv, KnownFeed
  <2>6. ControlInv'
    BY <2>1, <2>2, Zenon DEF LinkInv, ControlInv
  <2>7. AttemptsInv'
    BY <2>1, Zenon DEF LinkInv, AttemptsInv, IsRepairSuperseded, IsRepairCancelled, HasPending
  <2>8. FlightInv'
    BY <2>1, <2>2, FlightKept, Zenon DEF LinkInv
  <2>9. SettledInv'
    BY <2>2, SettledKept DEF LinkInv, SameOpening, SameCommit
  <2>10. ToldInv'
    BY <2>1, Zenon DEF ToldInv
  <2> QED
    BY <2>3, <2>4, <2>5, <2>6, <2>7, <2>8, <2>9, <2>10, Zenon DEF LinkInv
\* The fields that an event which arrives touches.
<1>ArrivesFields.
  ASSUME LinkInv, Arrives
  PROVE  /\ Attentive /\ sock.up /\ ~sock.news /\ sock.next \in 1 .. MaxHead /\ sock.next <= feed.head
         /\ sock' \in Sockets /\ sock' # None /\ sock'.next = sock.next + 1 /\ sock'.up = sock.up /\ sock'.news = sock.news
         /\ hist' \in Histories /\ hist'.owed = Max2(hist.owed, sock.next) /\ hist'.gapped = hist.gapped
  <2> USE <1>ArrivesFields
  <2>1. Attentive /\ sock.up /\ ~sock.news /\ sock.next <= feed.head /\ sock # None
    BY Zenon DEF Arrives, Attentive
  <2>2. /\ sock \in Sockets /\ sock.next \in 1 .. MaxHead + 1 /\ feed.head \in 0 .. MaxHead
        /\ hist \in Histories /\ hist.owed \in 0 .. MaxHead
    BY <2>1, TypedSocket, Typed, Zenon DEF LinkInv, LinkShape
  <2>3. /\ sock.next \in 1 .. MaxHead /\ sock.next + 1 \in 1 .. MaxHead + 1
        /\ Max2(hist.owed, sock.next) \in 0 .. MaxHead
    BY <2>1, <2>2, LinkAssumption DEF Max2
  <2>4. sock' \in Sockets /\ sock'.next = sock.next + 1 /\ sock'.up = sock.up /\ sock'.news = sock.news
    BY <2>2, <2>3, Zenon DEF Arrives, Sockets
  <2>5. hist' \in Histories /\ hist'.owed = Max2(hist.owed, sock.next) /\ hist'.gapped = hist.gapped
    BY <2>2, <2>3, Zenon DEF Arrives, Histories
  <2>6. sock' # None
    BY <2>4, LinkAssumption, Zenon DEF Sockets
  <2> QED
    BY <2>1, <2>3, <2>4, <2>5, <2>6, Zenon
<1>EventMarksKeeps.
  ASSUME LinkInv, EventMarks \/ EventWaits
  PROVE  LinkInv'
  <2> USE <1>EventMarksKeeps
  <2> DEFINE q == Request(exec.entries, "pull")
  <2>1. /\ Attentive /\ sock.up /\ ~sock.news /\ sock.next \in 1 .. MaxHead /\ sock.next <= feed.head
        /\ sock' \in Sockets /\ sock'.next = sock.next + 1 /\ sock'.up = sock.up /\ sock'.news = sock.news
        /\ hist' \in Histories /\ hist'.owed = Max2(hist.owed, sock.next) /\ hist'.gapped = hist.gapped
    BY <1>ArrivesFields, Zenon DEF EventMarks, EventWaits
  <2>2. /\ exec \in Executors /\ exec.entries \in Seq(Entries) /\ link \in LinkStates /\ waiting \subseteq 1 .. MaxHead
        /\ hist.owed \in Nat /\ feed.head \in Nat /\ sock.next \in Nat /\ hist.owed <= feed.head
    BY <2>1, Typed DEF LinkInv, LinkShape, KnownFeed
  <2>3. /\ q \in Seq(Entries) /\ EventsOf(q) = EventsOf(exec.entries)
        /\ Ascending(exec.entries) => Ascending(q)
        /\ Pending(q, "pull") /\ (Pending(q, "repair") <=> Pending(exec.entries, "repair"))
    <3>1. "pull" \in EntryKinds \ {"event"}
      BY Zenon DEF EntryKinds, Passes
    <3> QED
      BY <2>2, <3>1, RequestQueue, Zenon
  <2> HIDE DEF q
  <2>4. exec' = [exec EXCEPT !.entries = q, !.drain = TRUE] \/ exec' = [exec EXCEPT !.entries = q]
    BY Zenon DEF EventMarks, EventWaits, q
  <2>5. exec' \in Executors /\ exec'.ready = exec.ready /\ exec'.run = exec.run /\ exec'.entries = q
    BY <2>2, <2>3, <2>4, QueueFields, Zenon
  <2>6. ~(ctl.deliveries > 0)
    <3>1. CASE EventMarks
      <4>1. ~exec.ready
        BY <2>1, <3>1, Zenon DEF EventMarks, LinkInv, ControlInv, Attentive
      <4> QED
        BY <4>1, NotReady
    <3>2. CASE EventWaits
      BY <3>2, Zenon DEF EventWaits, DeliversLive
    <3> QED
      BY <3>1, <3>2, Zenon
  <2>7. /\ ctl' = [ctl EXCEPT !.current = FALSE] /\ waiting' \subseteq 1 .. MaxHead
        /\ UNCHANGED <<feed, store, link, held, timers, fence, init, planned, faults>>
    BY <2>1, <2>2, Zenon DEF EventMarks, EventWaits
  <2>8. /\ sock.next <= sock'.next /\ sock'.next <= feed.head + 1
        /\ hist.owed <= hist'.owed /\ hist'.owed <= feed.head
    BY <2>1, <2>2 DEF Max2
  <2> QED
    BY <2>1, <2>2, <2>3, <2>5, <2>6, <2>7, <2>8, <1>PullMarked, Zenon
<1>HandleReconnectedKeeps.
  ASSUME LinkInv, HandleReconnected
  PROVE  LinkInv'
  <2> USE <1>HandleReconnectedKeeps
  <2> DEFINE q == Request(Request(exec.entries, "pull"), "push")
  <2>1. Attentive /\ sock # None /\ sock.news
    BY Zenon DEF HandleReconnected, Attentive
  <2>2. /\ exec \in Executors /\ exec.entries \in Seq(Entries) /\ link \in LinkStates /\ waiting \subseteq 1 .. MaxHead
        /\ hist \in Histories /\ sock \in Sockets
        /\ hist.owed \in 0 .. MaxHead /\ feed.head \in Nat /\ sock.next \in 1 .. MaxHead + 1 /\ exec.drain \in BOOLEAN
        /\ exec.ready \in BOOLEAN
    BY <2>1, Typed, TypedSocket DEF LinkInv, LinkShape
  <2>3. /\ q \in Seq(Entries) /\ EventsOf(q) = EventsOf(exec.entries)
        /\ Ascending(exec.entries) => Ascending(q)
        /\ Pending(q, "pull") /\ (Pending(q, "repair") <=> Pending(exec.entries, "repair"))
    <3> DEFINE p == Request(exec.entries, "pull")
    <3>1. "pull" \in EntryKinds \ {"event"} /\ "push" \in EntryKinds \ {"event"}
      BY Zenon DEF EntryKinds, Passes
    <3>2. /\ p \in Seq(Entries) /\ EventsOf(p) = EventsOf(exec.entries)
          /\ Ascending(exec.entries) => Ascending(p)
          /\ Pending(p, "pull") /\ (Pending(p, "repair") <=> Pending(exec.entries, "repair"))
      BY <2>2, <3>1, RequestQueue, Zenon
    <3> HIDE DEF p
    <3>3. /\ Request(p, "push") \in Seq(Entries) /\ EventsOf(Request(p, "push")) = EventsOf(p)
          /\ Ascending(p) => Ascending(Request(p, "push"))
          /\ Pending(p, "pull") => Pending(Request(p, "push"), "pull")
          /\ Pending(Request(p, "push"), "repair") <=> Pending(p, "repair")
      BY <3>1, <3>2, RequestQueue, Zenon
    <3> QED
      BY <3>2, <3>3, Zenon DEF p
  <2> HIDE DEF q
  <2>4. exec' \in Executors /\ exec'.ready = exec.ready /\ exec'.run = exec.run /\ exec'.entries = q
    <3>1. exec' = [exec EXCEPT !.entries = q, !.drain = exec.drain \/ exec.ready]
      BY Zenon DEF HandleReconnected, q
    <3>2. (exec.drain \/ exec.ready) \in BOOLEAN
      BY <2>2, Zenon
    <3> QED
      BY <2>2, <2>3, <3>1, <3>2, QueueFields, Zenon
  <2>5. sock' \in Sockets /\ sock'.next = sock.next
    BY <2>2, Zenon DEF HandleReconnected, Sockets
  <2>6. link' \in LinkStates /\ link'.status = link.status /\ link'.online = TRUE
    BY <2>2, Zenon DEF HandleReconnected, LinkStates
  <2>7. /\ hist' \in Histories /\ hist'.owed = Max2(hist.owed, sock.next - 1)
        /\ hist.gapped => hist'.gapped
        /\ ctl.deliveries > 0 => hist'.gapped
    <3>1. Max2(hist.owed, sock.next - 1) \in 0 .. MaxHead
      BY <2>2, LinkAssumption DEF Max2
    <3>2. (hist.gapped \/ ctl.deliveries > 0) \in BOOLEAN
      BY Zenon
    <3>3. /\ hist' \in Histories /\ hist'.owed = Max2(hist.owed, sock.next - 1)
          /\ hist'.gapped = (hist.gapped \/ ctl.deliveries > 0)
      BY <2>2, <3>1, <3>2, Zenon DEF HandleReconnected, Histories
    <3> QED
      BY <3>3, Zenon
  <2>8. /\ ctl' = [ctl EXCEPT !.current = FALSE]
        /\ UNCHANGED <<feed, store, held, timers, waiting, fence, init, planned, faults>>
    BY Zenon DEF HandleReconnected
  <2>9. /\ sock.next <= sock'.next /\ sock'.next <= feed.head + 1
        /\ hist.owed <= hist'.owed /\ hist'.owed <= feed.head
    BY <2>1, <2>2, <2>5, <2>7 DEF Max2, LinkInv, KnownFeed
  <2> QED
    BY <2>1, <2>2, <2>3, <2>4, <2>5, <2>6, <2>7, <2>8, <2>9, <1>PullMarked, Zenon
\* A current link, or one with a delivery before it, queues the event.
<1>EventEnqueuesKeeps.
  ASSUME LinkInv, EventEnqueues
  PROVE  LinkInv'
  <2> USE <1>EventEnqueuesKeeps
  <2> DEFINE next == sock.next
             entry == Entry("event", next)
             q == Append(exec.entries, entry)
  <2>1. /\ Attentive /\ sock.up /\ ~sock.news /\ next \in 1 .. MaxHead /\ next <= feed.head
        /\ sock' \in Sockets /\ sock' # None /\ sock'.next = next + 1 /\ sock'.up = sock.up /\ sock'.news = sock.news
        /\ hist' \in Histories /\ hist'.owed = Max2(hist.owed, next) /\ hist'.gapped = hist.gapped
    BY <1>ArrivesFields, Zenon DEF EventEnqueues
  <2>2. /\ exec \in Executors /\ exec.entries \in Seq(Entries) /\ ctl \in Controllers /\ store.applied \in Nat
        /\ hist.owed \in Nat /\ feed.head \in Nat /\ next \in Nat /\ ctl.deliveries \in Int /\ ctl.deliveries + 1 \in Int
    BY <2>1, Typed, SMTT(20) DEF LinkInv, LinkShape
  <2>3. /\ exec.ready /\ link.online /\ DeliversLive /\ sock # None
        /\ ctl' = [ctl EXCEPT !.deliveries = @ + 1] /\ exec' = [exec EXCEPT !.entries = q, !.drain = TRUE]
        /\ UNCHANGED <<feed, store, link, held, timers, waiting, fence, init, planned, faults>>
    BY <2>1, Zenon DEF EventEnqueues, Attentive
  <2>4. init.gen # "same" /\ exec.run.kind # "repair" /\ ctl.active /\ link.status = "live"
    BY <2>3, Zenon DEF LinkInv, ControlInv
  <2>5. InFlight \subseteq 1 .. hist.owed /\ \A pos \in InFlight : pos < next
    BY <2>3, Zenon DEF LinkInv, FlightInv
  <2>6. entry \in Entries /\ entry.kind = "event" /\ entry.pos = next
    <3>1. next \in 0 .. MaxHead /\ "event" \in EntryKinds
      BY <2>1 DEF EntryKinds, Calls
    <3> QED
      BY <3>1, Zenon DEF Entry, Entries
  <2> HIDE DEF next, entry
  <2>7. /\ q \in Seq(Entries) /\ EventsOf(q) = EventsOf(exec.entries) \cup {next}
        /\ Ascending(exec.entries) => Ascending(q)
        /\ \A other : Pending(q, other) <=> Pending(exec.entries, other) \/ other = "event"
    <3>1. \A pos \in EventsOf(exec.entries) : pos < entry.pos
      BY <2>5, <2>6, Zenon DEF InFlight
    <3>2. /\ q \in Seq(Entries) /\ (Ascending(exec.entries) => Ascending(q))
          /\ EventsOf(q) = EventsOf(exec.entries) \cup (IF entry.kind = "event" THEN {entry.pos} ELSE {})
          /\ \A other : Pending(q, other) <=> Pending(exec.entries, other) \/ other = entry.kind
      BY <2>2, <2>6, <3>1, AppendQueue, Zenon
    <3> QED
      BY <2>6, <3>2, Zenon
  <2> HIDE DEF q
  <2>8. exec' \in Executors /\ exec'.ready = exec.ready /\ exec'.run = exec.run /\ exec'.entries = q
    BY <2>2, <2>3, <2>7, QueueFields, Zenon
  <2>9. /\ ctl' \in Controllers /\ ctl'.active = ctl.active /\ ctl'.live = ctl.live /\ ctl'.local = ctl.local
        /\ ctl'.attempts = ctl.attempts /\ ctl'.closing = ctl.closing /\ ctl'.deliveries = ctl.deliveries + 1
        /\ ctl'.current = ctl.current
    BY <2>2, <2>3, Zenon DEF Controllers
  <2>10. /\ InFlight' = InFlight \cup {next} /\ next \notin InFlight /\ IsFiniteSet(InFlight)
         /\ Cardinality(InFlight') = ctl'.deliveries /\ ctl.deliveries \in Nat
    <3>1. InFlight' = InFlight \cup {next}
      BY <2>7, <2>8, Zenon DEF InFlight
    <3>2. next \notin InFlight
      <4>1. next \in InFlight => next < next
        BY <2>5, Zenon
      <4> QED
        BY <2>2, <4>1
    <3>3. IsFiniteSet(InFlight)
      BY FlightFinite, Zenon
    <3>4. Cardinality(InFlight \cup {next}) = Cardinality(InFlight) + 1 /\ Cardinality(InFlight) \in Nat
      BY <3>2, <3>3, FS_AddElement, FS_CardinalityType, Zenon
    <3> QED
      BY <2>9, <3>1, <3>2, <3>3, <3>4, Zenon DEF LinkInv, FlightInv
  <2>11. LinkShape'
    BY <2>1, <2>3, <2>8, <2>9, Zenon DEF LinkInv, LinkShape
  <2>12. RunShape'
    BY <2>3, <2>8, Zenon DEF LinkInv, RunShape
  <2>13. KnownFeed'
    BY <2>1, <2>2, <2>3, <2>8 DEF LinkInv, KnownFeed, Max2
  <2>14. ControlInv'
    BY <2>1, <2>3, <2>4, <2>7, <2>8, <2>9, Zenon DEF LinkInv, ControlInv
  <2>15. AttemptsInv'
    BY <2>3, <2>7, <2>8, <2>9, Zenon
       DEF LinkInv, AttemptsInv, IsRepairSuperseded, IsRepairCancelled, HasPending
  <2>16. FlightInv'
    <3>1. InFlight' \subseteq 1 .. hist'.owed /\ \A pos \in InFlight' : pos < sock'.next
      BY <2>1, <2>2, <2>5, <2>10 DEF Max2
    <3>2. Current(exec'.run) => \A pos \in EventsOf(exec'.entries) : exec'.run.pos < pos
      <4>1. Current(exec.run) => exec.run.pos < next
        BY <2>5, Zenon DEF InFlight
      <4> QED
        BY <2>7, <2>8, <4>1, Zenon DEF LinkInv, FlightInv
    <3> QED
      BY <2>3, <2>7, <2>8, <2>9, <2>10, <3>1, <3>2, Zenon DEF LinkInv, FlightInv
  <2>17. SettledInv'
    BY <2>1, <2>2, <2>3, <2>8, SettledKept DEF LinkInv, SameCommit, SameOpening
  <2>18. ToldInv'
    <3>1. Told' \subseteq Told \cup {next}
      <4>1. 1 .. hist.owed \subseteq Told /\ 1 .. next - 1 \subseteq Told
        BY <2>1, <2>3, Zenon DEF Told, next
      <4>2. Told' = 1 .. Max2(hist.owed, next) \cup 1 .. next + 1 - 1
        BY <2>1 DEF Told
      <4> QED
        BY <2>2, <4>1, <4>2 DEF Max2
    <3>2. ~hist.gapped => Told \subseteq store.admitted \cup InFlight
      BY <2>3, Zenon DEF LinkInv, ToldInv, DeliversLive
    <3>3. ctl'.deliveries # 0
      BY <2>9, <2>10
    <3> QED
      BY <2>1, <2>3, <2>4, <2>10, <3>1, <3>2, <3>3, Zenon DEF ToldInv
  <2> QED
    BY <2>11, <2>12, <2>13, <2>14, <2>15, <2>16, <2>17, <2>18, Zenon DEF LinkInv
\* The connection is lost, or found again: the subscription tells less.
<1>ConnectionKeeps.
  ASSUME LinkInv, Disconnect \/ Resubscribe
  PROVE  LinkInv'
  <2> USE <1>ConnectionKeeps
  <2>1. ctl.active /\ sock # None /\ (Disconnect \/ ~sock.up)
    BY Zenon DEF Disconnect, Resubscribe, Attentive
  <2>2. /\ sock \in Sockets /\ sock.next \in Nat /\ feed.head \in 0 .. MaxHead /\ hist.owed \in Nat
        /\ store.applied \in Nat /\ link \in LinkStates /\ faults \in Nat /\ feed.head + 1 \in 1 .. MaxHead + 1
    BY <2>1, Typed, TypedSocket, LinkAssumption, SMTT(30) DEF LinkInv, LinkShape
  <2>3. /\ sock' \in Sockets /\ (sock'.next = sock.next \/ sock'.next = feed.head + 1)
        /\ ~(sock'.up /\ ~sock'.news)
    BY <2>2, Zenon DEF Disconnect, Resubscribe, Sockets
  <2>4. link' \in LinkStates /\ link'.status = link.status
    BY <2>2, Zenon DEF Disconnect, Resubscribe, LinkStates
  <2>5. faults' \in Nat /\ UNCHANGED <<feed, store, ctl, exec, held, timers, waiting, fence, init, planned, hist>>
    BY <2>2 DEF Disconnect, Resubscribe
  <2>6. sock' # None /\ sock.next <= sock'.next /\ sock'.next \in Nat /\ sock'.next <= feed.head + 1
    BY <2>1, <2>2, <2>3, LinkAssumption DEF LinkInv, KnownFeed, Sockets
  <2>7. LinkShape'
    BY <2>3, <2>4, <2>5, Zenon DEF LinkInv, LinkShape
  <2>8. RunShape' /\ KnownFeed'
    BY <2>5, <2>6, Zenon DEF LinkInv, RunShape, KnownFeed
  <2>9. ControlInv'
    BY <2>1, <2>3, <2>4, <2>5, <2>6, Zenon DEF LinkInv, ControlInv
  <2>10. AttemptsInv'
    BY <2>4, <2>5, Zenon
       DEF LinkInv, AttemptsInv, IsRepairSuperseded, IsRepairCancelled, HasPending
  <2>11. FlightInv' /\ InFlight' = InFlight
    BY <2>1, <2>2, <2>5, <2>6, FlightKept DEF LinkInv
  <2>12. SettledInv'
    BY <2>5, Zenon DEF LinkInv, SettledInv
  <2>13. ToldInv'
    <3>1. Told' \subseteq Told
      BY <2>3, <2>5, Zenon DEF Told
    <3> QED
      BY <2>5, <2>11, <3>1, ToldKept, Zenon DEF LinkInv, SamePass, SameCommit, SameOpening
  <2> QED
    BY <2>7, <2>8, <2>9, <2>10, <2>11, <2>12, <2>13, Zenon DEF LinkInv
<1> QED
  BY <1>EventMarksKeeps, <1>HandleReconnectedKeeps, <1>EventEnqueuesKeeps, <1>ConnectionKeeps, Zenon

-----------------------------------------------------------------------------
(* Feeds, timers, settle checks and the executor at rest. *)

\* Changes of the feeds, timers, settle checks and the executor at rest.
LEMMA SchedulesKeep ==
  LinkInv /\ (\/ RemoteChange \/ LocalChange \/ SettleReconciles \/ DrainEnds \/ Supervise \/ DeadlineOver
               \/ CancelCaller \/ ReconcileTimer \/ RepairTimer) => LinkInv'
\* A step that leaves the run, the link and the controller alone, and takes
\* nothing out of the queue.
<1>QueueGrows.
  ASSUME LinkInv, exec' \in Executors, exec'.ready = exec.ready, exec'.run = exec.run,
         EventsOf(exec'.entries) = EventsOf(exec.entries), Ascending(exec.entries) => Ascending(exec'.entries),
         Pending(exec.entries, "pull") => Pending(exec'.entries, "pull"),
         Pending(exec'.entries, "repair") <=> Pending(exec.entries, "repair"),
         feed' \in Feeds, feed.head <= feed'.head, held' \subseteq Directions,
         timers' = timers \/ (timers' = timers \cup {"reconcile"} /\ exec.ready),
         fence' \in {"none", "go", "stop"}, fence' # "none" => fence # "none",
         fence = "stop" => fence' = "stop" \/ exec.run = NoRun,
         hist' \in Histories, hist'.owed = hist.owed, hist'.gapped = hist.gapped,
         UNCHANGED <<store, link, ctl, sock, waiting, init, planned, faults>>
  PROVE  LinkInv'
  <2> USE <1>QueueGrows
  <2>1. /\ hist.owed \in Nat /\ store.applied \in Nat /\ feed.head \in Nat /\ feed'.head \in Nat
        /\ (sock # None => sock.next \in Nat) /\ init.upTo \in Nat /\ exec.run.upTo \in Nat
    BY Plain, Typed, TypedRun DEF LinkInv, Feeds
  <2>2. LinkShape'
    BY Zenon DEF LinkInv, LinkShape
  <2>3. RunShape'
    BY Zenon DEF LinkInv, RunShape
  <2>4. KnownFeed'
    BY <2>1 DEF LinkInv, KnownFeed
  <2>5. ControlInv'
    BY Zenon DEF LinkInv, ControlInv
  <2>6. AttemptsInv'
    BY NoRunFields, Zenon
       DEF LinkInv, AttemptsInv, IsRepairSuperseded, IsRepairCancelled, HasPending
  <2>7. FlightInv' /\ InFlight' = InFlight
    BY <2>1, FlightKept DEF LinkInv
  <2>8. SettledInv'
    BY Zenon DEF LinkInv, SettledInv
  <2>9. ToldInv'
    <3>1. Told' \subseteq Told
      BY NothingTold, Zenon
    <3> QED
      BY <2>7, <3>1, ToldKept, Zenon DEF LinkInv, SamePass, SameCommit, SameOpening
  <2> QED
    BY <2>2, <2>3, <2>4, <2>5, <2>6, <2>7, <2>8, <2>9, Zenon DEF LinkInv
<1>FeedsKeep.
  ASSUME LinkInv, RemoteChange \/ LocalChange \/ SettleReconciles
  PROVE  LinkInv'
  <2> USE <1>FeedsKeep
  <2>1. /\ feed \in Feeds /\ exec \in Executors /\ exec.entries \in Seq(Entries) /\ hist \in Histories
        /\ held \subseteq Directions /\ fence \in {"none", "go", "stop"}
        /\ exec.drain \in BOOLEAN /\ exec.ready \in BOOLEAN
    BY Typed, Zenon DEF LinkInv, LinkShape
  <2>2. feed' \in Feeds /\ feed.head <= feed'.head
    <3>1. /\ feed.head \in Nat /\ feed.local \in Nat
          /\ feed.head < MaxHead => feed.head + 1 \in 0 .. MaxHead
          /\ feed.local < MaxLocal => feed.local + 1 \in 0 .. MaxLocal
      <4>1. feed.head \in 0 .. MaxHead /\ feed.local \in 0 .. MaxLocal
        BY Typed, Zenon DEF LinkInv
      <4> QED
        BY <4>1, Bounds
    <3>2. CASE RemoteChange
      <4>1. feed' \in Feeds /\ feed'.head = feed.head + 1
        BY <2>1, <3>1, <3>2, Zenon DEF RemoteChange, Feeds
      <4> QED
        BY <3>1, <4>1
    <3>3. CASE LocalChange
      <4>1. feed' \in Feeds /\ feed'.head = feed.head
        BY <2>1, <3>1, <3>3, Zenon DEF LocalChange, Feeds
      <4> QED
        BY <3>1, <4>1
    <3> QED
      BY <2>1, <3>1, <3>2, <3>3 DEF SettleReconciles
  <2>3. /\ exec' \in Executors /\ exec'.ready = exec.ready /\ exec'.run = exec.run
        /\ EventsOf(exec'.entries) = EventsOf(exec.entries) /\ (Ascending(exec.entries) => Ascending(exec'.entries))
        /\ Pending(exec.entries, "pull") => Pending(exec'.entries, "pull")
        /\ Pending(exec'.entries, "repair") <=> Pending(exec.entries, "repair")
    <3>1. CASE exec' = exec
      BY <2>1, <3>1, Zenon
    <3>2. CASE LocalChange /\ exec' # exec
      <4> DEFINE q == Request(exec.entries, "push")
      <4>1. "push" \in EntryKinds \ {"event"}
        BY Zenon DEF EntryKinds, Passes
      <4>2. /\ q \in Seq(Entries) /\ EventsOf(q) = EventsOf(exec.entries) /\ (Ascending(exec.entries) => Ascending(q))
            /\ Pending(exec.entries, "pull") => Pending(q, "pull")
            /\ Pending(q, "repair") <=> Pending(exec.entries, "repair")
        BY <2>1, <4>1, RequestQueue, Zenon
      <4> HIDE DEF q
      <4>3. exec' = [exec EXCEPT !.entries = q, !.drain = exec.drain \/ exec.ready]
        BY <3>2, Zenon DEF LocalChange, q
      <4>4. (exec.drain \/ exec.ready) \in BOOLEAN
        BY <2>1, Zenon
      <4>5. exec' \in Executors /\ exec'.ready = exec.ready /\ exec'.run = exec.run /\ exec'.entries = q
        BY <2>1, <4>2, <4>3, <4>4, QueueFields, Zenon
      <4> QED
        BY <4>2, <4>5, Zenon
    <3>3. CASE SettleReconciles
      <4> DEFINE entry == Entry("sync", 0)
                 q == Append(exec.entries, entry)
      <4>1. entry \in Entries /\ entry.kind = "sync"
        BY LinkAssumption DEF Entry, Entries, EntryKinds, Calls
      <4> HIDE DEF entry
      <4>2. /\ q \in Seq(Entries) /\ (Ascending(exec.entries) => Ascending(q))
            /\ EventsOf(q) = EventsOf(exec.entries) \cup (IF entry.kind = "event" THEN {entry.pos} ELSE {})
            /\ \A other : Pending(q, other) <=> Pending(exec.entries, other) \/ other = entry.kind
        BY <2>1, <4>1, AppendQueue, Zenon
      <4> HIDE DEF q
      <4>3. exec' = [exec EXCEPT !.entries = q, !.drain = TRUE]
        BY <3>3, Zenon DEF SettleReconciles, q, entry
      <4>4. exec' \in Executors /\ exec'.ready = exec.ready /\ exec'.run = exec.run /\ exec'.entries = q
        BY <2>1, <4>2, <4>3, QueueFields, Zenon
      <4> QED
        BY <4>1, <4>2, <4>4, Zenon
    <3> QED
      BY <3>1, <3>2, <3>3, Zenon DEF RemoteChange
  <2>4. UNCHANGED <<store, link, ctl, held, timers, sock, waiting, fence, init, planned, hist, faults>>
    BY Zenon DEF RemoteChange, LocalChange, SettleReconciles
  <2> QED
    BY <2>1, <2>2, <2>3, <2>4, <1>QueueGrows, Zenon
\* The executor comes to rest or is drained again, a deadline is over, the
\* caller of a repair is cancelled.
<1>RestKeeps.
  ASSUME LinkInv, DrainEnds \/ Supervise \/ DeadlineOver \/ CancelCaller
  PROVE  LinkInv'
  <2> USE <1>RestKeeps
  <2>1. /\ feed \in Feeds /\ exec \in Executors /\ hist \in Histories
        /\ held \subseteq Directions /\ fence \in {"none", "go", "stop"} /\ ctl.active \in BOOLEAN
    BY Typed, Zenon DEF LinkInv, LinkShape
  <2>2. feed.head \in Nat /\ feed' = feed /\ UNCHANGED <<store, link, ctl, sock, waiting, init, planned, faults>>
    BY Plain, Zenon DEF DrainEnds, Supervise, DeadlineOver, CancelCaller
  <2>3. exec' \in Executors /\ exec'.ready = exec.ready /\ exec'.run = exec.run /\ exec'.entries = exec.entries
    <3>1. \/ exec' = exec \/ exec' = [exec EXCEPT !.drain = FALSE]
          \/ exec' = [exec EXCEPT !.watch = FALSE, !.drain = ctl.active]
      BY Zenon DEF DrainEnds, Supervise, DeadlineOver, CancelCaller
    <3> QED
      BY <2>1, <3>1, Zenon DEF Executors
  <2>4. hist' \in Histories /\ hist'.owed = hist.owed /\ hist'.gapped = hist.gapped
    <3>1. hist.cancels + 1 \in Nat
      BY Typed DEF LinkInv
    <3>2. hist' = hist \/ hist' = [hist EXCEPT !.cancels = hist.cancels + 1]
      BY Zenon DEF DrainEnds, Supervise, DeadlineOver, CancelCaller
    <3> QED
      BY <2>1, <3>1, <3>2, Zenon DEF Histories
  <2>5. /\ held' \subseteq Directions
        /\ timers' = timers \/ (timers' = timers \cup {"reconcile"} /\ exec.ready)
    BY <2>1, Zenon DEF DrainEnds, Supervise, DeadlineOver, CancelCaller
  <2>6. /\ fence' \in {"none", "go", "stop"} /\ (fence' # "none" => fence # "none")
        /\ fence = "stop" => fence' = "stop" \/ exec.run = NoRun
    BY <2>1, Zenon DEF DrainEnds, Supervise, DeadlineOver, CancelCaller
  <2> QED
    BY <2>1, <2>2, <2>3, <2>4, <2>5, <2>6, <1>QueueGrows, SMTT(20)
\* The reconcile timer replaces the marks of one direction by one of both.
<1>ReconcileTimerKeeps.
  ASSUME LinkInv, ReconcileTimer
  PROVE  LinkInv'
  <2> USE <1>ReconcileTimerKeeps
  <2> DEFINE p == IF Eligible("reconcile") THEN Consume(exec.entries, Passes) ELSE exec.entries
             q == Request(p, "reconcile")
             opens == exec.run # NoRun /\ Eligible("reconcile") /\ HasPending("pull")
  <2>1. /\ exec \in Executors /\ exec.entries \in Seq(Entries) /\ hist \in Histories /\ hist.gapped \in BOOLEAN
        /\ hist.owed \in Nat /\ store.applied \in Nat /\ (sock # None => sock.next \in Nat)
    BY Typed, Plain, Zenon DEF LinkInv, LinkShape
  <2>2. /\ "reconcile" \in timers /\ timers' = timers \ {"reconcile"}
        /\ exec' = [exec EXCEPT !.entries = q, !.drain = TRUE] /\ hist' = [hist EXCEPT !.gapped = @ \/ opens]
        /\ UNCHANGED <<feed, store, link, ctl, held, sock, waiting, fence, init, planned, faults>>
    BY Zenon DEF ReconcileTimer
  <2>3. /\ p \in Seq(Entries) /\ EventsOf(p) = EventsOf(exec.entries) /\ (Ascending(exec.entries) => Ascending(p))
        /\ Pending(p, "repair") <=> Pending(exec.entries, "repair")
        /\ Pending(exec.entries, "pull") => Pending(p, "pull") \/ Eligible("reconcile")
    <3>1. CASE Eligible("reconcile")
      <4>1. "event" \notin Passes /\ "repair" \notin Passes
        BY Zenon DEF Passes
      <4>2. p = Consume(exec.entries, Passes)
        BY <3>1, Zenon
      <4> QED
        BY <2>1, <3>1, <4>1, <4>2, ConsumeQueue, Zenon
    <3>2. CASE ~Eligible("reconcile")
      BY <2>1, <3>2, Zenon
    <3> QED
      BY <3>1, <3>2, Zenon
  <2> HIDE DEF p
  <2>4. /\ q \in Seq(Entries) /\ EventsOf(q) = EventsOf(p) /\ (Ascending(p) => Ascending(q))
        /\ Pending(q, "repair") <=> Pending(p, "repair")
        /\ Pending(p, "pull") => Pending(q, "pull")
    <3>1. "reconcile" \in EntryKinds \ {"event"}
      BY Zenon DEF EntryKinds, Passes
    <3> QED
      BY <2>3, <3>1, RequestQueue, Zenon
  <2> HIDE DEF q
  <2>5. exec' \in Executors /\ exec'.ready = exec.ready /\ exec'.run = exec.run /\ exec'.entries = q
    BY <2>1, <2>2, <2>4, QueueFields, Zenon
  <2> HIDE DEF opens
  <2>6. hist' \in Histories /\ hist'.owed = hist.owed /\ hist'.gapped = (hist.gapped \/ opens)
    <3>1. (hist.gapped \/ opens) \in BOOLEAN
      BY Zenon
    <3> QED
      BY <2>1, <2>2, <3>1, Zenon DEF Histories
  <2>7. LinkShape'
    BY <2>2, <2>5, <2>6, Zenon DEF LinkInv, LinkShape
  <2>8. RunShape' /\ KnownFeed'
    BY <2>2, <2>5, <2>6, Zenon DEF LinkInv, RunShape, KnownFeed
  <2>9. ctl.active /\ link.status # "paused" /\ init.gen # "same"
    BY <2>2, Zenon DEF LinkInv, ControlInv
  <2>10. ControlInv'
    BY <2>2, <2>3, <2>4, <2>5, <2>9, Zenon DEF LinkInv, ControlInv
  <2>11. AttemptsInv'
    BY <2>2, <2>3, <2>4, <2>5, Zenon
       DEF LinkInv, AttemptsInv, IsRepairSuperseded, IsRepairCancelled, HasPending
  <2>12. FlightInv' /\ InFlight' = InFlight
    BY <2>1, <2>2, <2>3, <2>4, <2>5, <2>6, FlightKept DEF LinkInv
  <2>13. SettledInv'
    BY <2>2, <2>5, <2>6, Zenon DEF LinkInv, SettledInv
  <2>14. ToldInv'
    <3>1. Told' \subseteq Told
      BY <2>2, <2>6, NothingTold, Zenon
    <3>2. CASE opens
      BY <2>6, <3>2, Zenon DEF ToldInv
    <3>3. CASE exec.run = NoRun
      BY <2>2, <2>5, <2>6, <2>9, <2>12, <3>1, <3>3, NoRunFields, Zenon DEF LinkInv, ToldInv
    <3>4. CASE Pending(exec.entries, "pull") => Pending(q, "pull")
      BY <2>2, <2>5, <2>6, <2>12, <3>1, <3>4, ToldKept, Zenon DEF LinkInv, SamePass, SameCommit, SameOpening
    <3> QED
      BY <2>3, <2>4, <3>2, <3>3, <3>4, Zenon DEF opens, HasPending
  <2> QED
    BY <2>7, <2>8, <2>10, <2>11, <2>12, <2>13, <2>14, Zenon DEF LinkInv
<1>RepairTimerKeeps.
  ASSUME LinkInv, RepairTimer
  PROVE  LinkInv'
  <2> USE <1>RepairTimerKeeps
  <2> DEFINE q == Request(exec.entries, "repair")
  <2>1. /\ exec \in Executors /\ exec.entries \in Seq(Entries)
        /\ hist.owed \in Nat /\ store.applied \in Nat /\ (sock # None => sock.next \in Nat)
    BY Typed, Plain, Zenon DEF LinkInv, LinkShape
  <2>2. /\ "repair" \in timers /\ timers' = timers \ {"repair"}
        /\ exec' = IF link.status = "repairing" THEN [exec EXCEPT !.entries = q, !.drain = TRUE] ELSE exec
        /\ UNCHANGED <<feed, store, link, ctl, held, sock, waiting, fence, init, planned, hist, faults>>
    BY Zenon DEF RepairTimer
  <2>3. /\ q \in Seq(Entries) /\ EventsOf(q) = EventsOf(exec.entries) /\ (Ascending(exec.entries) => Ascending(q))
        /\ \A kind : Pending(exec.entries, kind) => Pending(q, kind)
    <3>1. "repair" \in EntryKinds \ {"event"}
      BY Zenon DEF EntryKinds
    <3> QED
      BY <2>1, <3>1, RequestQueue, Zenon
  <2> HIDE DEF q
  <2>4. /\ exec' \in Executors /\ exec'.ready = exec.ready /\ exec'.run = exec.run
        /\ EventsOf(exec'.entries) = EventsOf(exec.entries) /\ (Ascending(exec.entries) => Ascending(exec'.entries))
        /\ \A kind : Pending(exec.entries, kind) => Pending(exec'.entries, kind)
    <3>1. CASE link.status = "repairing"
      <4>1. exec' \in Executors /\ exec'.ready = exec.ready /\ exec'.run = exec.run /\ exec'.entries = q
        BY <2>1, <2>2, <2>3, <3>1, QueueFields, Zenon
      <4> QED
        BY <2>3, <4>1, Zenon
    <3> QED
      BY <2>1, <2>2, <3>1, Zenon
  <2>5. ctl.active /\ link.status # "paused" /\ init.gen # "same" /\ ~exec.ready
    BY <2>2, Zenon DEF LinkInv, ControlInv
  <2>6. LinkShape'
    BY <2>2, <2>4, Zenon DEF LinkInv, LinkShape
  <2>7. RunShape' /\ KnownFeed'
    BY <2>2, <2>4, Zenon DEF LinkInv, RunShape, KnownFeed
  <2>8. ControlInv'
    BY <2>2, <2>4, <2>5, Zenon DEF LinkInv, ControlInv
  <2>9. AttemptsInv'
    BY <2>2, <2>4, Zenon
       DEF LinkInv, AttemptsInv, IsRepairSuperseded, IsRepairCancelled, HasPending
  <2>10. FlightInv' /\ InFlight' = InFlight
    BY <2>1, <2>2, <2>4, FlightKept DEF LinkInv
  <2>11. SettledInv'
    BY <2>2, <2>4, Zenon DEF LinkInv, SettledInv
  <2>12. ToldInv'
    <3>1. Told' \subseteq Told
      BY <2>2, NothingTold, Zenon
    <3> QED
      BY <2>2, <2>4, <2>10, <3>1, ToldKept, Zenon DEF LinkInv, SamePass, SameCommit, SameOpening
  <2> QED
    BY <2>6, <2>7, <2>8, <2>9, <2>10, <2>11, <2>12, Zenon DEF LinkInv
<1> QED
  BY <1>FeedsKeep, <1>RestKeeps, <1>ReconcileTimerKeeps, <1>RepairTimerKeeps, Zenon
=============================================================================
