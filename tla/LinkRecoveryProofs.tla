------------------------- MODULE LinkRecoveryProofs -------------------------
(***************************************************************************)
(* Machine-checked theorems about LinkRecovery, for every bound on the     *)
(* feeds, the failures and the attempts: the steps that open, end and      *)
(* repair a link keep LinkInv, so that it holds throughout, and what       *)
(* follows from it.                                                        *)
(***************************************************************************)
EXTENDS LinkRecoverySteps

-----------------------------------------------------------------------------
(* The opening of a link. *)

\* While an opening has its generation it is alone.
LEMMA OpeningAlone ==
  ASSUME LinkInv, GenerationCurrent(init.gen)
  PROVE  /\ ctl.active /\ init.gen = "same" /\ ~exec.ready /\ exec.run.kind = "none" /\ exec.run.pc = "idle"
         /\ InFlight = {} /\ EventsOf(exec.entries) = {} /\ ctl.deliveries = 0 /\ ~Current(exec.run)
         /\ link.status \in {"initializing", "live"} /\ timers = {} /\ ~Pending(exec.entries, "repair")
         /\ ~ctl.closing
<1>1. /\ ctl.active /\ init.gen = "same" /\ ~exec.ready /\ exec.run.kind = "none"
      /\ link.status \in {"initializing", "live"} /\ timers = {} /\ ~Pending(exec.entries, "repair")
  BY Zenon DEF LinkInv, ControlInv, GenerationCurrent
<1>2. exec.run.pc = "idle" /\ ~ctl.closing
  BY <1>1, Zenon DEF LinkInv, RunShape, ControlInv
<1> QED
  BY <1>1, <1>2, NotReady, Zenon

LEMMA SubscriptionFields ==
  ASSUME LinkInv
  PROVE  /\ Subscription \in Sockets /\ Subscription.next = feed.head + 1 /\ Subscription # None
         /\ Subscription.up /\ ~Subscription.news
<1>1. feed.head + 1 \in 1 .. MaxHead + 1
  <2>1. feed.head \in 0 .. MaxHead
    BY Typed, Zenon DEF LinkInv
  <2> QED
    BY <2>1, Bounds
<1>2. /\ Subscription \in Sockets /\ Subscription.next = feed.head + 1
      /\ Subscription.up = TRUE /\ Subscription.news = FALSE
  BY <1>1, Zenon DEF Subscription, Sockets
<1> QED
  BY <1>2, LinkAssumption, Zenon DEF Sockets

LEMMA OpenedFields ==
  Opened \in Openings /\ Opened.pc = "over" /\ Opened.gen = "none" /\ Opened.upTo = 0
<1>1. 0 \in 0 .. MaxHead /\ 0 \in 0 .. MaxHead + 1
  BY Bounds
<1> QED
  BY <1>1, Zenon DEF Opened, Opening, Openings, InitSteps, Generations

\* The steps that open a link.
LEMMA InitializationKeeps ==
  LinkInv /\ Initialization => LinkInv'
\* The opening goes on: what a step of it leaves alone.
<1>OpeningGoes.
  ASSUME LinkInv, GenerationCurrent(init.gen), init' \in Openings, init'.upTo <= feed.head,
         init'.pc = "commit" => init'.from # 0,
         exec' \in Executors, exec'.run = exec.run, EventsOf(exec'.entries) = {},
         ctl' \in Controllers, ctl'.attempts = ctl.attempts, ctl'.deliveries = ctl.deliveries,
         link' \in LinkStates, store' \in Stores, faults' \in Nat,
         sock' = sock \/ (sock' \in Sockets /\ sock'.next <= feed.head + 1),
         UNCHANGED <<feed, held, timers, waiting, fence, planned, hist>>
  PROVE  /\ LinkShape' /\ RunShape' /\ KnownFeed' /\ AttemptsInv'
         /\ FlightInv' /\ InFlight' = {}
  <2> USE <1>OpeningGoes
  <2>1. /\ exec.run.kind = "none" /\ exec.run.pc = "idle" /\ ~Current(exec.run) /\ ctl.deliveries = 0
        /\ link.status # "paused"
    BY OpeningAlone, Zenon
  <2>2. LinkShape'
    BY Zenon DEF LinkInv, LinkShape
  <2>3. RunShape'
    BY Zenon DEF LinkInv, RunShape
  <2>4. KnownFeed'
    BY Zenon DEF LinkInv, KnownFeed
  <2>5. AttemptsInv'
    BY <2>1, Zenon DEF LinkInv, AttemptsInv
  <2>6. FlightInv' /\ InFlight' = {}
    BY <2>1, FlightCleared, Zenon
  <2> QED
    BY <2>2, <2>3, <2>4, <2>5, <2>6, Zenon
<1>InitOpenPullKeeps.
  ASSUME LinkInv, InitOpenPull
  PROVE  LinkInv'
  <2> USE <1>InitOpenPullKeeps
  <2>1. /\ GenerationCurrent(init.gen) /\ init.pc = "openPull" /\ sock' = Subscription
        /\ UNCHANGED <<feed, store, link, ctl, exec, held, timers, waiting, fence, planned, hist, faults>>
    BY Zenon DEF InitOpenPull, Initializing
  <2>2. /\ exec \in Executors /\ ctl \in Controllers /\ link \in LinkStates /\ store \in Stores /\ faults \in Nat
        /\ init \in Openings /\ feed.head \in 0 .. MaxHead /\ feed.head \in Nat /\ hist.owed \in Nat
        /\ store.applied \in Nat
    BY Typed, Plain, Zenon DEF LinkInv, LinkShape
  <2>3. init' \in Openings /\ init'.pc = "attachPull" /\ init'.gen = init.gen /\ init'.upTo = feed.head
    BY <2>2, Zenon DEF InitOpenPull, Openings, InitSteps
  <2>4. sock' \in Sockets /\ sock'.next = feed.head + 1 /\ sock' # None /\ sock'.up /\ ~sock'.news
    BY <2>1, SubscriptionFields, Zenon
  <2>5. /\ ctl.active /\ init.gen = "same" /\ exec.run.kind = "none" /\ exec.run.pc = "idle"
        /\ EventsOf(exec.entries) = {} /\ ctl.deliveries = 0 /\ ctl.live # "same" /\ ~ctl.current
    BY <2>1, OpeningAlone, Zenon DEF LinkInv, ControlInv
  <2>6. LinkShape' /\ RunShape' /\ KnownFeed' /\ AttemptsInv' /\ FlightInv' /\ InFlight' = {}
    <3>1. init'.upTo <= feed.head /\ sock'.next <= feed.head + 1 /\ init'.pc # "commit"
      BY <2>2, <2>3, <2>4
    <3> QED
      BY <2>1, <2>2, <2>3, <2>4, <2>5, <3>1, <1>OpeningGoes, Zenon
  <2>7. ControlInv'
    BY <2>1, <2>3, <2>4, <2>5, Zenon DEF LinkInv, ControlInv
  <2>8. SettledInv'
    BY <2>1, <2>3, Zenon DEF LinkInv, SettledInv
  <2>9. ToldInv'
    <3>1. Told' \subseteq 1 .. init'.upTo
      BY <2>1, <2>2, <2>3, <2>4 DEF Told, LinkInv, KnownFeed
    <3> QED
      BY <2>1, <2>3, <2>5, <3>1 DEF ToldInv
  <2> QED
    BY <2>6, <2>7, <2>8, <2>9, Zenon DEF LinkInv
<1>InitAttachPullKeeps.
  ASSUME LinkInv, InitAttachPull
  PROVE  LinkInv'
  <2> USE <1>InitAttachPullKeeps
  <2>1. /\ GenerationCurrent(init.gen) /\ init.pc = "attachPull"
        /\ UNCHANGED <<feed, store, exec, held, timers, sock, waiting, fence, planned, hist, faults>>
    BY Zenon DEF InitAttachPull, Initializing
  <2>2. /\ exec \in Executors /\ ctl \in Controllers /\ link \in LinkStates /\ store \in Stores /\ faults \in Nat
        /\ init \in Openings /\ init.gen \in Generations /\ init.upTo <= feed.head
    BY Typed, Zenon DEF LinkInv, LinkShape, KnownFeed
  <2>3. init' \in Openings /\ init'.pc = "attachPush" /\ init'.gen = init.gen /\ init'.upTo = init.upTo
    BY <2>2, Zenon DEF InitAttachPull, InitGoto, Openings, InitSteps
  <2>4. link' \in LinkStates /\ link'.status = link.status /\ link'.online = TRUE
    BY <2>2, Zenon DEF InitAttachPull, LinkStates
  <2>5. /\ ctl' \in Controllers /\ ctl'.active = ctl.active /\ ctl'.live = init.gen /\ ctl'.local = ctl.local
        /\ ctl'.current = ctl.current /\ ctl'.deliveries = ctl.deliveries /\ ctl'.attempts = ctl.attempts
        /\ ctl'.closing = ctl.closing
    BY <2>2, Zenon DEF InitAttachPull, Controllers
  <2>6. /\ ctl.active /\ init.gen = "same" /\ ~exec.ready /\ exec.run.kind = "none" /\ exec.run.pc = "idle"
        /\ InFlight = {} /\ EventsOf(exec.entries) = {} /\ ctl.deliveries = 0
        /\ link.status \in {"initializing", "live"} /\ ~ctl.closing
    BY <2>1, OpeningAlone, Zenon
  <2>7. LinkShape' /\ RunShape' /\ KnownFeed' /\ AttemptsInv' /\ FlightInv' /\ InFlight' = {}
    BY <2>1, <2>2, <2>3, <2>4, <2>5, <2>6, <1>OpeningGoes, Zenon
  <2>8. ControlInv'
    BY <2>1, <2>3, <2>4, <2>5, <2>6, Zenon DEF LinkInv, ControlInv
  <2>9. SettledInv'
    BY <2>1, <2>3, Zenon DEF LinkInv, SettledInv
  <2>10. ToldInv'
    BY <2>1, <2>3, <2>5, <2>6, <2>7, Zenon DEF LinkInv, ToldInv, Told
  <2> QED
    BY <2>7, <2>8, <2>9, <2>10, Zenon DEF LinkInv
<1>InitAttachPushKeeps.
  ASSUME LinkInv, InitAttachPush
  PROVE  LinkInv'
  <2> USE <1>InitAttachPushKeeps
  <2> DEFINE equal == store.admitted = 1 .. init.upTo /\ store.pushed = feed.local
             to == IF equal THEN "adopt" ELSE "read"
  <2>1. /\ GenerationCurrent(init.gen) /\ init.pc = "attachPush"
        /\ UNCHANGED <<feed, store, link, exec, held, timers, sock, waiting, fence, planned, hist, faults>>
    BY Zenon DEF InitAttachPush, Initializing
  <2>2. /\ exec \in Executors /\ ctl \in Controllers /\ link \in LinkStates /\ store \in Stores /\ faults \in Nat
        /\ init \in Openings /\ init.gen \in Generations /\ init.upTo <= feed.head
    BY Typed, Zenon DEF LinkInv, LinkShape, KnownFeed
  <2>3. init' \in Openings /\ init'.pc = to /\ init'.gen = init.gen /\ init'.upTo = init.upTo
    BY <2>2, Zenon DEF InitAttachPush, InitGoto, Openings, InitSteps
  <2>4. /\ ctl' \in Controllers /\ ctl'.active = ctl.active /\ ctl'.live = ctl.live /\ ctl'.local = init.gen
        /\ ctl'.current = ctl.current /\ ctl'.deliveries = ctl.deliveries /\ ctl'.attempts = ctl.attempts
        /\ ctl'.closing = ctl.closing
    BY <2>2, Zenon DEF InitAttachPush, Controllers
  <2>5. /\ ctl.active /\ init.gen = "same" /\ ~exec.ready /\ exec.run.kind = "none" /\ exec.run.pc = "idle"
        /\ InFlight = {} /\ EventsOf(exec.entries) = {} /\ ctl.deliveries = 0
        /\ link.status \in {"initializing", "live"} /\ ~ctl.closing
    BY <2>1, OpeningAlone, Zenon
  <2>6. LinkShape' /\ RunShape' /\ KnownFeed' /\ AttemptsInv' /\ FlightInv' /\ InFlight' = {}
    <3>1. init'.pc # "commit"
      BY <2>3, Zenon
    <3> QED
      BY <2>1, <2>2, <2>3, <2>4, <2>5, <3>1, <1>OpeningGoes, Zenon
  <2>7. ControlInv'
    BY <2>1, <2>3, <2>4, <2>5, Zenon DEF LinkInv, ControlInv
  <2>8. SettledInv'
    BY <2>1, <2>3, Zenon DEF LinkInv, SettledInv
  <2>9. ToldInv'
    <3>1. ~hist.gapped /\ ~Pending(exec.entries, "pull") => Told \subseteq 1 .. init.upTo
      BY <2>1, <2>5, Zenon DEF LinkInv, ToldInv
    <3>2. Told' = Told
      BY <2>1, Zenon DEF Told
    <3> QED
      BY <2>1, <2>3, <2>4, <2>5, <2>6, <3>1, <3>2, Zenon DEF LinkInv, ToldInv
  <2> QED
    BY <2>6, <2>7, <2>8, <2>9, Zenon DEF LinkInv
<1>InitReadKeeps.
  ASSUME LinkInv, InitRead
  PROVE  LinkInv'
  <2> USE <1>InitReadKeeps
  <2>1. /\ GenerationCurrent(init.gen) /\ init.pc = "read"
        /\ UNCHANGED <<feed, store, link, ctl, exec, held, timers, sock, waiting, fence, planned, hist, faults>>
    BY Zenon DEF InitRead, Initializing
  <2>2. /\ exec \in Executors /\ ctl \in Controllers /\ link \in LinkStates /\ store \in Stores /\ faults \in Nat
        /\ init \in Openings /\ feed.head \in 0 .. MaxHead /\ feed.head \in Nat /\ store.applied \in 0 .. MaxHead
        /\ store.applied \in Nat
    BY Typed, Plain, Zenon DEF LinkInv, LinkShape
  <2>3. store.applied + 1 \in 0 .. MaxHead + 1 /\ store.applied + 1 # 0
    BY <2>2, Bounds
  <2>4. /\ init' \in Openings /\ init'.pc = "commit" /\ init'.gen = init.gen
        /\ init'.from = store.applied + 1 /\ init'.upTo = feed.head
    BY <2>2, <2>3, Zenon DEF InitRead, Openings, InitSteps
  <2>5. /\ ctl.active /\ init.gen = "same" /\ ~exec.ready /\ exec.run.kind = "none" /\ exec.run.pc = "idle"
        /\ InFlight = {} /\ EventsOf(exec.entries) = {} /\ ctl.deliveries = 0
    BY <2>1, OpeningAlone, Zenon
  <2>6. LinkShape' /\ RunShape' /\ KnownFeed' /\ AttemptsInv' /\ FlightInv' /\ InFlight' = {}
    <3>1. init'.upTo <= feed.head /\ init'.from # 0
      BY <2>2, <2>3, <2>4
    <3> QED
      BY <2>1, <2>2, <2>4, <2>5, <3>1, <1>OpeningGoes, Zenon
  <2>7. ControlInv'
    BY <2>1, <2>4, <2>5, Zenon DEF LinkInv, ControlInv
  <2>8. SettledInv'
    <3>1. init'.from - 1 = store.applied
      BY <2>2, <2>4
    <3> QED
      BY <2>1, <2>4, <3>1, Zenon DEF LinkInv, SettledInv
  <2>9. ToldInv'
    <3>1. Told' = Told /\ Told \subseteq 1 .. feed.head
      BY <2>1, ToldIsKnown, Zenon DEF Told
    <3>2. ~hist.gapped => 1 .. store.applied \subseteq store.admitted
      BY Zenon DEF LinkInv, SettledInv
    <3>3. ~hist.gapped => Told' \subseteq store.admitted \cup init'.from .. init'.upTo
      BY <2>2, <2>4, <3>1, <3>2
    <3> QED
      BY <2>1, <2>4, <2>5, <2>6, <3>1, <3>3, Zenon DEF LinkInv, ToldInv
  <2> QED
    BY <2>6, <2>7, <2>8, <2>9, Zenon DEF LinkInv
<1>InitPullKeeps.
  ASSUME LinkInv, InitPull
  PROVE  LinkInv'
  <2> USE <1>InitPullKeeps
  <2>1. /\ init.pc = "commit" /\ Pulled(init.from, init.upTo)
        /\ UNCHANGED <<feed, link, ctl, exec, held, timers, sock, waiting, fence, planned, hist, faults>>
    BY Zenon DEF InitPull
  <2>2. /\ init \in Openings /\ init.from \in 0 .. MaxHead + 1 /\ init.from # 0 /\ init.upTo \in 0 .. MaxHead
        /\ hist.owed \in Nat /\ store.applied \in Nat /\ 0 <= feed.head /\ (sock # None => sock.next \in Nat)
    BY <2>1, Typed, Plain, Zenon DEF LinkInv, LinkShape, RunShape
  <2>3. init.from \in 1 .. MaxHead + 1 /\ init.from \in Nat /\ init.upTo \in Nat
    BY <2>2, Bounds
  <2>4. init' \in Openings /\ init'.pc = "push" /\ init'.gen = init.gen /\ init'.upTo = 0
    <3>1. 0 \in 0 .. MaxHead /\ 0 \in 0 .. MaxHead + 1
      BY Bounds
    <3> QED
      BY <2>2, <3>1, Zenon DEF InitPull, Openings, InitSteps
  <2>5. /\ store' \in Stores /\ store'.admitted = store.admitted \cup init.from .. init.upTo
        /\ store'.applied = Max2(store.applied, init.upTo)
    BY <2>1, <2>2, <2>3, PulledFields, Zenon DEF LinkInv
  <2>6. LinkShape'
    BY <2>1, <2>4, <2>5, Zenon DEF LinkInv, LinkShape
  <2>7. RunShape' /\ KnownFeed'
    BY <2>1, <2>2, <2>4, Zenon DEF LinkInv, RunShape, KnownFeed
  <2>8. ControlInv'
    BY <2>1, <2>4, Zenon DEF LinkInv, ControlInv
  <2>9. AttemptsInv'
    BY <2>1, Zenon DEF LinkInv, AttemptsInv, IsRepairSuperseded, IsRepairCancelled, HasPending
  <2>10. FlightInv' /\ InFlight' = InFlight
    BY <2>1, <2>2, FlightKept DEF LinkInv
  <2>11. SettledInv'
    <3>1. ~hist.gapped => 1 .. store.applied \subseteq store.admitted /\ 1 .. init.from - 1 \subseteq store.admitted
      BY <2>1, Zenon DEF LinkInv, SettledInv
    <3>2. ~hist.gapped => 1 .. store'.applied \subseteq store'.admitted
      BY <2>2, <2>3, <2>5, <3>1, PageSettles, Zenon
    <3> QED
      BY <2>1, <2>4, <2>5, <3>2, Zenon DEF LinkInv, SettledInv
  <2>12. ToldInv'
    <3>1. Told' = Told /\ store.admitted \subseteq store'.admitted
      BY <2>1, <2>5, Zenon DEF Told
    <3> QED
      BY <2>1, <2>4, <2>5, <2>10, <3>1, Zenon DEF LinkInv, ToldInv
  <2> QED
    BY <2>6, <2>7, <2>8, <2>9, <2>10, <2>11, <2>12, Zenon DEF LinkInv
<1>InitBaselineKeeps.
  ASSUME LinkInv, InitBaseline
  PROVE  LinkInv'
  <2> USE <1>InitBaselineKeeps
  <2> DEFINE settles == Settled(init.gen, ctl.deliveries)
             q == Request(exec.entries, "push")
             far == IF init.pc = "adopt" THEN Max2(store.applied, init.upTo) ELSE store.applied
  <2>1. /\ GenerationCurrent(init.gen) /\ init.pc \in {"push", "adopt"}
        /\ ctl' = [ctl EXCEPT !.current = @ \/ settles] /\ init' = [init EXCEPT !.pc = "setLive"]
        /\ UNCHANGED <<feed, link, held, timers, sock, waiting, fence, planned, hist>>
    BY Zenon DEF InitBaseline, Initializing, InitGoto
  <2>2. PICK refused \in BOOLEAN :
          /\ faults' = IF refused THEN faults + 1 ELSE faults
          /\ exec' = IF refused THEN [exec EXCEPT !.entries = q] ELSE exec
          /\ store' = [store EXCEPT !.applied = far, !.pushed = IF refused \/ init.pc = "adopt" THEN @ ELSE feed.local]
    BY Zenon DEF InitBaseline
  <2>3. /\ exec \in Executors /\ ctl \in Controllers /\ link \in LinkStates /\ store \in Stores /\ faults \in Nat
        /\ init \in Openings /\ init.upTo \in 0 .. MaxHead /\ store.applied \in 0 .. MaxHead /\ feed.local \in 0 .. MaxLocal
        /\ store.pushed \in 0 .. MaxLocal /\ exec.entries \in Seq(Entries) /\ init.upTo <= feed.head
        /\ store.applied \in Nat
    BY Typed, Plain, Zenon DEF LinkInv, LinkShape, KnownFeed
  <2>4. /\ store' \in Stores /\ store'.admitted = store.admitted /\ store'.applied = far /\ faults' \in Nat
    <3>1. far \in 0 .. MaxHead
      BY <2>3, Zenon DEF Max2
    <3>2. faults' \in Nat
      BY <2>2, <2>3
    <3> HIDE DEF far
    <3>3. (IF refused \/ init.pc = "adopt" THEN store.pushed ELSE feed.local) \in 0 .. MaxLocal
      BY <2>3, Zenon
    <3> QED
      BY <2>2, <2>3, <3>1, <3>2, <3>3, Zenon DEF Stores
  <2>5. init' \in Openings /\ init'.pc = "setLive" /\ init'.gen = init.gen /\ init'.upTo = init.upTo
    BY <2>1, <2>3, Zenon DEF Openings, InitSteps
  <2>6. /\ ctl.active /\ init.gen = "same" /\ ~exec.ready /\ exec.run.kind = "none" /\ exec.run.pc = "idle"
        /\ InFlight = {} /\ EventsOf(exec.entries) = {} /\ ctl.deliveries = 0
        /\ link.status \in {"initializing", "live"} /\ ~ctl.closing /\ ~Pending(exec.entries, "repair")
    BY <2>1, OpeningAlone, Zenon
  <2>7. /\ exec' \in Executors /\ exec'.ready = exec.ready /\ exec'.run = exec.run /\ EventsOf(exec'.entries) = {}
        /\ ~Pending(exec'.entries, "repair")
    <3>1. CASE ~refused
      BY <2>2, <2>3, <2>6, <3>1, Zenon
    <3>2. CASE refused
      <4>1. "push" \in EntryKinds \ {"event"}
        BY Zenon DEF EntryKinds, Passes
      <4>2. /\ q \in Seq(Entries) /\ EventsOf(q) = EventsOf(exec.entries)
            /\ Pending(q, "repair") <=> Pending(exec.entries, "repair")
        BY <2>3, <4>1, RequestQueue, Zenon
      <4> HIDE DEF q
      <4>3. exec' \in Executors /\ exec'.ready = exec.ready /\ exec'.run = exec.run /\ exec'.entries = q
        BY <2>2, <2>3, <3>2, <4>2, QueueFields, Zenon
      <4> QED
        BY <2>6, <4>2, <4>3, Zenon
    <3> QED
      BY <3>1, <3>2, Zenon
  <2> HIDE DEF settles
  <2>8. /\ ctl' \in Controllers /\ ctl'.active = ctl.active /\ ctl'.live = ctl.live /\ ctl'.local = ctl.local
        /\ ctl'.current = (ctl.current \/ settles) /\ ctl'.deliveries = ctl.deliveries /\ ctl'.attempts = ctl.attempts
        /\ ctl'.closing = ctl.closing
    <3>1. (ctl.current \/ settles) \in BOOLEAN
      BY Zenon
    <3> QED
      BY <2>1, <2>3, <3>1, Zenon DEF Controllers
  <2> HIDE DEF far
  <2>9. LinkShape' /\ RunShape' /\ KnownFeed' /\ AttemptsInv' /\ FlightInv' /\ InFlight' = {}
    <3>1. init'.pc # "commit" /\ init'.upTo <= feed.head
      BY <2>3, <2>5, Zenon
    <3> QED
      BY <2>1, <2>3, <2>4, <2>5, <2>7, <2>8, <3>1, <1>OpeningGoes, Zenon
  <2>10. ControlInv'
    BY <2>1, <2>5, <2>6, <2>7, <2>8, Zenon DEF LinkInv, ControlInv
  <2>11. SettledInv'
    <3>1. ~hist.gapped => 1 .. far \subseteq store.admitted
      BY <2>3, Zenon DEF LinkInv, SettledInv, far, Max2
    <3> QED
      BY <2>1, <2>4, <2>5, <2>6, <2>7, <3>1, Zenon DEF SettledInv
  <2>12. ToldInv'
    <3>1. Told' = Told
      BY <2>1, Zenon DEF Told
    <3>2. settles => ~Pending(exec.entries, "pull")
      BY Zenon DEF settles, Settled, HasPending
    <3>3. ~hist.gapped /\ (ctl.current \/ settles) => Told \subseteq store.admitted \cup InFlight
      BY <2>1, <2>6, <3>2, Zenon DEF LinkInv, ToldInv
    <3>4. exec'.run.kind = "none" /\ ctl'.deliveries = 0 /\ hist' = hist /\ store'.admitted = store.admitted
      BY <2>1, <2>4, <2>6, <2>7, <2>8, Zenon
    <3>5. InFlight' = InFlight
      BY <2>6, <2>9, Zenon
    <3>6. ctl'.current <=> ctl.current \/ settles
      BY <2>8, Zenon
    <3> QED
      BY <2>5, <3>1, <3>3, <3>4, <3>5, <3>6 DEF ToldInv
  <2> QED
    BY <2>9, <2>10, <2>11, <2>12, Zenon DEF LinkInv
<1>InitSetLiveKeeps.
  ASSUME LinkInv, InitSetLive
  PROVE  LinkInv'
  <2> USE <1>InitSetLiveKeeps
  <2>1. /\ GenerationCurrent(init.gen) /\ init.pc = "setLive"
        /\ link' = [link EXCEPT !.status = "live", !.recovery = "none"] /\ init' = [init EXCEPT !.pc = "persist"]
        /\ UNCHANGED <<feed, store, ctl, exec, held, timers, sock, waiting, fence, planned, hist, faults>>
    BY Zenon DEF InitSetLive, Initializing, InitGoto
  <2>2. /\ exec \in Executors /\ ctl \in Controllers /\ link \in LinkStates /\ store \in Stores /\ faults \in Nat
        /\ init \in Openings /\ hist.owed \in Nat /\ store.applied \in Nat /\ (sock # None => sock.next \in Nat)
        /\ init.upTo <= feed.head
    BY Typed, Plain, Zenon DEF LinkInv, LinkShape, KnownFeed
  <2>3. /\ link' \in LinkStates /\ link'.status = "live" /\ link'.online = link.online
        /\ init' \in Openings /\ init'.pc = "persist" /\ init'.gen = init.gen /\ init'.upTo = init.upTo
    BY <2>1, <2>2, Zenon DEF LinkStates, Statuses, Recoveries, Openings, InitSteps
  <2>4. /\ ctl.active /\ init.gen = "same" /\ ~exec.ready /\ exec.run.kind = "none" /\ exec.run.pc = "idle"
        /\ InFlight = {} /\ EventsOf(exec.entries) = {} /\ ctl.deliveries = 0
        /\ link.status \in {"initializing", "live"} /\ ~ctl.closing
    BY <2>1, OpeningAlone, Zenon
  <2>5. LinkShape' /\ RunShape' /\ KnownFeed' /\ AttemptsInv' /\ FlightInv' /\ InFlight' = {}
    <3>1. init'.pc # "commit" /\ init'.upTo <= feed.head
      BY <2>2, <2>3, Zenon
    <3> QED
      BY <2>1, <2>2, <2>3, <2>4, <3>1, <1>OpeningGoes, Zenon
  <2>6. ControlInv'
    BY <2>1, <2>3, <2>4, Zenon DEF LinkInv, ControlInv
  <2>7. SettledInv'
    BY <2>1, <2>2, <2>3, SettledKept DEF LinkInv, SameCommit
  <2>8. ToldInv'
    <3>1. Told' \subseteq Told
      BY <2>1, NothingTold, Zenon
    <3> QED
      BY <2>1, <2>3, <2>4, <2>5, <3>1, ToldKept, Zenon DEF LinkInv, SamePass, SameCommit
  <2> QED
    BY <2>5, <2>6, <2>7, <2>8, Zenon DEF LinkInv
<1>InitReadyKeeps.
  ASSUME LinkInv, InitReady
  PROVE  LinkInv'
  <2> USE <1>InitReadyKeeps
  <2>1. /\ GenerationCurrent(init.gen) /\ init.pc = "persist" /\ init' = Opened /\ link.status = "live"
        /\ exec' = [exec EXCEPT !.ready = TRUE, !.drain = @ \/ exec.entries # <<>>]
        /\ UNCHANGED <<feed, store, link, ctl, held, timers, sock, waiting, fence, planned, hist, faults>>
    BY Zenon DEF InitReady, Initializing
  <2>2. /\ exec \in Executors /\ ctl \in Controllers /\ link \in LinkStates /\ store \in Stores /\ faults \in Nat
        /\ hist.owed \in Nat /\ store.applied \in Nat /\ (sock # None => sock.next \in Nat) /\ 0 <= feed.head
    BY Typed, Plain, Zenon DEF LinkInv, LinkShape
  <2>3. init' \in Openings /\ init'.pc = "over" /\ init'.gen = "none" /\ init'.upTo <= feed.head
    BY <2>1, <2>2, OpenedFields, Zenon
  <2>4. exec' \in Executors /\ exec'.ready = TRUE /\ exec'.entries = exec.entries /\ exec'.run = exec.run
    <3>1. (exec.drain \/ exec.entries # <<>>) \in BOOLEAN
      BY Zenon
    <3> QED
      BY <2>1, <2>2, <3>1, Zenon DEF Executors
  <2>5. /\ ctl.active /\ init.gen = "same" /\ ~exec.ready /\ exec.run.kind = "none" /\ exec.run.pc = "idle"
        /\ InFlight = {} /\ EventsOf(exec.entries) = {} /\ ctl.deliveries = 0
        /\ link.status \in {"initializing", "live"} /\ ~ctl.closing /\ ~Pending(exec.entries, "repair")
    BY <2>1, OpeningAlone, Zenon
  <2>6. LinkShape' /\ RunShape' /\ KnownFeed' /\ AttemptsInv' /\ FlightInv' /\ InFlight' = {}
    <3>1. init'.pc # "commit"
      BY <2>3, Zenon
    <3> QED
      BY <2>1, <2>2, <2>3, <2>4, <2>5, <3>1, <1>OpeningGoes, Zenon
  <2>7. ControlInv'
    BY <2>1, <2>3, <2>4, <2>5, Zenon DEF LinkInv, ControlInv
  <2>8. SettledInv'
    BY <2>1, <2>2, <2>3, <2>4, SettledKept DEF LinkInv, SameCommit
  <2>9. ToldInv'
    <3>1. Told' \subseteq Told
      BY <2>1, NothingTold, Zenon
    <3> QED
      BY <2>1, <2>3, <2>4, <2>5, <2>6, <3>1, ToldKept, Zenon DEF LinkInv, SamePass, SameCommit
  <2> QED
    BY <2>6, <2>7, <2>8, <2>9, Zenon DEF LinkInv
<1>InitInterruptedKeeps.
  ASSUME LinkInv, InitInterrupted
  PROVE  LinkInv'
  <2> USE <1>InitInterruptedKeeps
  <2>1. /\ ~GenerationCurrent(init.gen) /\ init' = Opened
        /\ UNCHANGED <<feed, store, link, ctl, exec, held, timers, sock, waiting, fence, planned, hist, faults>>
    BY Zenon DEF InitInterrupted
  <2>2. /\ hist.owed \in Nat /\ store.applied \in Nat /\ (sock # None => sock.next \in Nat) /\ 0 <= feed.head
    BY Plain, Zenon
  <2>3. init' \in Openings /\ init'.pc = "over" /\ init'.gen = "none" /\ init'.upTo = 0
    BY <2>1, OpenedFields, Zenon
  <2>4. LinkShape'
    BY <2>1, <2>3, Zenon DEF LinkInv, LinkShape
  <2>5. RunShape' /\ KnownFeed'
    BY <2>1, <2>2, <2>3, Zenon DEF LinkInv, RunShape, KnownFeed
  <2>6. ControlInv'
    BY <2>1, <2>3, Zenon DEF LinkInv, ControlInv
  <2>7. AttemptsInv'
    BY <2>1, Zenon DEF LinkInv, AttemptsInv, IsRepairSuperseded, IsRepairCancelled, HasPending
  <2>8. FlightInv' /\ InFlight' = InFlight
    BY <2>1, <2>2, FlightKept DEF LinkInv
  <2>9. SettledInv'
    BY <2>1, <2>2, <2>3, SettledKept DEF LinkInv, SameCommit
  <2>10. ToldInv'
    <3>1. Told' \subseteq Told
      BY <2>1, NothingTold, Zenon
    <3> QED
      BY <2>1, <2>3, <2>8, <3>1, ToldKept, Zenon DEF LinkInv, SamePass, SameCommit
  <2> QED
    BY <2>4, <2>5, <2>6, <2>7, <2>8, <2>9, <2>10, Zenon DEF LinkInv
<1> QED
  BY <1>InitOpenPullKeeps, <1>InitAttachPullKeeps, <1>InitAttachPushKeeps, <1>InitReadKeeps,
     <1>InitPullKeeps, <1>InitBaselineKeeps, <1>InitSetLiveKeeps, <1>InitReadyKeeps,
     <1>InitInterruptedKeeps, Zenon DEF Initialization

-----------------------------------------------------------------------------
(* The transitions that replace the generation.  They leave no delivery in    *)
(* flight, no subscription that is listened to, and no claim to be current.   *)

\* The run after such a transition: the same but for its generation, none, or
\* the pass of a repair.
RunAfter ==
  \/ SameCommit /\ exec'.run.kind = exec.run.kind /\ exec'.run.upTo = exec.run.upTo /\ exec'.run.gen # "same"
  \/ exec'.run.kind = "none" /\ exec'.run.pc = "idle" /\ exec'.run.gen # "same" /\ exec'.run.upTo = 0
  \/ exec'.run.kind = "repair" /\ exec'.run.pc = "read" /\ exec'.run.upTo = exec.run.upTo

Replaces ==
  /\ exec' \in Executors /\ exec'.ready = FALSE /\ EventsOf(exec'.entries) = {} /\ RunAfter
  /\ ctl' \in Controllers /\ ctl'.current = FALSE /\ ctl'.deliveries = 0
  /\ init' \in Openings /\ init'.gen # "same" /\ (SameOpening \/ init' = Opened)
  /\ link' \in LinkStates /\ held' \subseteq Directions /\ timers' \subseteq timers
  /\ waiting' \subseteq waiting /\ fence' \in {"none", "go", "stop"} /\ planned' \in BOOLEAN /\ faults' \in Nat
  /\ sock' = None /\ UNCHANGED <<feed, store, hist>>

LEMMA AgedFields ==
  ASSUME NEW gen \in Generations
  PROVE  Aged(gen) \in Generations /\ Aged(gen) # "same" /\ (gen # "same" => Aged(gen) = gen)
  BY Zenon DEF Aged, Generations

\* The fields of a controller whose generation was replaced.
LEMMA NextGenerationFields ==
  ASSUME ctl \in Controllers
  PROVE  /\ NextGeneration \in Controllers /\ NextGeneration.active = ctl.active
         /\ NextGeneration.live = Aged(ctl.live) /\ NextGeneration.local = Aged(ctl.local)
         /\ NextGeneration.current = FALSE /\ NextGeneration.deliveries = 0
         /\ NextGeneration.attempts = ctl.attempts /\ NextGeneration.closing = ctl.closing
<1>1. ctl.live \in Generations /\ ctl.local \in Generations
  BY Zenon DEF Controllers
<1>2. Aged(ctl.live) \in Generations /\ Aged(ctl.local) \in Generations
  BY <1>1, AgedFields, Zenon
<1>3. 0 \in Int
  OBVIOUS
<1> QED
  BY <1>2, <1>3, Zenon DEF NextGeneration, Controllers

LEMMA FencedFields ==
  ASSUME NEW executor \in Executors
  PROVE  /\ Fenced(executor) \in Executors /\ Fenced(executor).ready = FALSE
         /\ Fenced(executor).entries = Consume(executor.entries, Calls)
         /\ Fenced(executor).run \in Runs /\ Fenced(executor).run.gen = Aged(executor.run.gen)
         /\ Fenced(executor).run.kind = executor.run.kind /\ Fenced(executor).run.pos = executor.run.pos
         /\ Fenced(executor).run.pc = executor.run.pc /\ Fenced(executor).run.from = executor.run.from
         /\ Fenced(executor).run.upTo = executor.run.upTo /\ Fenced(executor).run.threw = executor.run.threw
<1>1. executor.entries \in Seq(Entries) /\ executor.run \in Runs
  BY Zenon DEF Executors
<1>2. executor.run.gen \in Generations
  BY <1>1, TypedRun, Zenon
<1>3. Consume(executor.entries, Calls) \in Seq(Entries) /\ Aged(executor.run.gen) \in Generations
  BY <1>1, <1>2, ConsumeQueue, AgedFields, Zenon
<1> QED
  BY <1>1, <1>3, Zenon DEF Fenced, Executors, Runs

LEMMA ReplacesKeeps ==
  ASSUME LinkInv, Replaces
  PROVE  LinkShape' /\ RunShape' /\ KnownFeed' /\ FlightInv' /\ SettledInv' /\ ToldInv'
\* In a new generation nobody claims anything.
<1>ToldCleared.
  ASSUME ~ctl'.current, ctl'.deliveries = 0, init'.gen # "same",
         exec'.run.kind \notin {"pull", "reconcile", "sync"} \/ exec'.run.gen # "same"
  PROVE  ToldInv'
  BY <1>ToldCleared DEF ToldInv
<1>1. LinkShape'
  <2>1. timers' \subseteq {"reconcile", "repair"} /\ waiting' \subseteq 1 .. MaxHead
    BY Zenon DEF LinkInv, LinkShape, Replaces
  <2> QED
    BY <2>1, Zenon DEF LinkInv, LinkShape, Replaces
<1>2. RunShape'
  <2>1. init'.pc = "commit" => init'.from # 0
    BY OpenedFields, Zenon DEF LinkInv, RunShape, Replaces, SameOpening
  <2>2. exec'.run.pc = "commit" => exec'.run.from # 0
    BY Zenon DEF LinkInv, RunShape, Replaces, RunAfter, SameCommit
  <2> QED
    BY <2>1, <2>2, Zenon
       DEF LinkInv, RunShape, Replaces, RunAfter, SameCommit, EventSteps, RepairSteps
<1>3. KnownFeed'
  <2>1. 0 <= feed.head
    BY Plain, Zenon
  <2>2. init'.upTo <= feed.head /\ exec'.run.upTo <= feed.head
    BY <2>1, OpenedFields, Zenon DEF LinkInv, KnownFeed, Replaces, RunAfter, SameOpening
  <2> QED
    BY <2>2, Zenon DEF LinkInv, KnownFeed, Replaces
<1>4. FlightInv'
  BY FlightCleared, Zenon DEF Replaces, RunAfter, Current
<1>5. SettledInv'
  <2>1. SameCommit \/ exec'.run.pc \notin {"cursor", "commit", "committed"}
    BY Zenon DEF Replaces, RunAfter
  <2>2. SameOpening \/ init'.pc \notin {"adopt", "commit"}
    BY OpenedFields, Zenon DEF Replaces
  <2>3. store' = store /\ hist' = hist /\ store.applied \in Nat
    BY Plain, Zenon DEF Replaces
  <2> QED
    BY <2>1, <2>2, <2>3, SettledKept DEF LinkInv
<1>6. ToldInv'
  BY <1>ToldCleared, Zenon DEF Replaces, RunAfter
<1> QED
  BY <1>1, <1>2, <1>3, <1>4, <1>5, <1>6, Zenon

LEMMA OutdatedReplaces ==
  ASSUME LinkInv, Outdated
  PROVE  init' \in Openings /\ init'.gen # "same" /\ SameOpening /\ sock' = None
<1>OutdatedFields.
  ASSUME init \in Openings, Outdated
  PROVE  /\ init' \in Openings /\ init'.gen = Aged(init.gen) /\ init'.gen # "same"
         /\ init'.pc = init.pc /\ init'.from = init.from /\ init'.upTo = init.upTo /\ sock' = None
  <2> USE <1>OutdatedFields
  <2>1. Aged(init.gen) \in Generations /\ Aged(init.gen) # "same"
    BY AgedFields, Zenon DEF Openings
  <2> QED
    BY <2>1, Zenon DEF Outdated, Openings
<1>1. init \in Openings
  BY Zenon DEF LinkInv, LinkShape
<1> QED
  BY <1>1, <1>OutdatedFields, Zenon DEF SameOpening

\* The calls of a fenced executor are gone, its marks are not.
LEMMA FencedQueue ==
  ASSUME NEW executor \in Executors
  PROVE  /\ Fenced(executor).entries \in Seq(Entries) /\ EventsOf(Fenced(executor).entries) = {}
         /\ Pending(Fenced(executor).entries, "repair") <=> Pending(executor.entries, "repair")
<1>1. executor.entries \in Seq(Entries) /\ Fenced(executor).entries = Consume(executor.entries, Calls)
  BY FencedFields, Zenon DEF Executors
<1>2. "event" \in Calls /\ "repair" \notin Calls
  BY Zenon DEF Calls
<1> QED
  BY <1>1, <1>2, ConsumeQueue

\* The run of a fenced executor.
LEMMA FencedRun ==
  ASSUME LinkInv, NEW executor \in Executors, executor.run = exec.run \/ executor.run = NoRun,
         exec'.run = Fenced(executor).run
  PROVE  /\ RunAfter /\ exec'.run.gen # "same"
         /\ executor.run = exec.run => exec'.run.kind = exec.run.kind /\ exec'.run.pc = exec.run.pc
                                       /\ exec'.run.threw = exec.run.threw
         /\ executor.run = NoRun => exec'.run.kind = "none" /\ exec'.run.pc = "idle"
<1>1. /\ exec'.run.gen = Aged(executor.run.gen)
      /\ exec'.run.kind = executor.run.kind /\ exec'.run.pos = executor.run.pos
      /\ exec'.run.pc = executor.run.pc /\ exec'.run.from = executor.run.from
      /\ exec'.run.upTo = executor.run.upTo /\ exec'.run.threw = executor.run.threw
  <2> DEFINE r == Fenced(executor).run
  <2>1. /\ r.gen = Aged(executor.run.gen) /\ r.kind = executor.run.kind /\ r.pos = executor.run.pos
        /\ r.pc = executor.run.pc /\ r.from = executor.run.from
        /\ r.upTo = executor.run.upTo /\ r.threw = executor.run.threw
    BY FencedFields, Zenon
  <2>2. exec'.run = r
    BY Zenon
  <2> HIDE DEF r
  <2> QED
    BY <2>1, <2>2, Zenon
<1>2. exec'.run.gen # "same"
  BY <1>1, Zenon DEF Aged
<1>3. CASE executor.run = exec.run
  BY <1>1, <1>2, <1>3, NoRunFields, Zenon DEF RunAfter, SameCommit
<1>4. CASE executor.run = NoRun
  BY <1>1, <1>2, <1>4, NoRunFields, Zenon DEF RunAfter
<1> QED
  BY <1>1, <1>2, <1>3, <1>4, NoRunFields, Zenon

\* The requests of a repair, by an error, a failed delivery, a settled wait or a
\* retry.
LEMMA RequestsKeep ==
  LinkInv /\ (\/ SubscriptionError \/ EventSettles \/ EventFails \/ (\E ignore : RetryFailedRepair(ignore))
               \/ UNCHANGED vars) => LinkInv'
\* A repair is queued behind the fence.
<1>RequestedFields.
  ASSUME NEW executor \in Executors,
         exec' = [Fenced(executor) EXCEPT !.entries = Request(@, "repair"), !.watch = TRUE]
  PROVE  /\ exec' \in Executors /\ exec'.ready = FALSE /\ exec'.run = Fenced(executor).run
         /\ EventsOf(exec'.entries) = {} /\ Pending(exec'.entries, "repair")
  <2> USE <1>RequestedFields
  <2> DEFINE x == Fenced(executor)
             q == Request(x.entries, "repair")
  <2>1. x \in Executors /\ x.ready = FALSE
    BY FencedFields, Zenon
  <2>2. x.entries \in Seq(Entries) /\ EventsOf(x.entries) = {}
    BY FencedQueue, Zenon
  <2>3. exec' = [x EXCEPT !.entries = q, !.watch = TRUE]
    BY Zenon
  <2> HIDE DEF x
  <2>4. q \in Seq(Entries) /\ EventsOf(q) = {} /\ Pending(q, "repair")
    <3>1. "repair" \in EntryKinds \ {"event"}
      BY Zenon DEF EntryKinds
    <3> QED
      BY <2>2, <3>1, RequestQueue, Zenon
  <2> HIDE DEF q
  <2>5. exec' \in Executors /\ exec'.ready = x.ready /\ exec'.run = x.run /\ exec'.entries = q
    BY <2>1, <2>3, <2>4, Zenon DEF Executors
  <2> QED
    BY <2>1, <2>4, <2>5, Zenon DEF x
\* The fields of the controller and the executor once a repair is requested.
<1>RepairRequested.
  ASSUME LinkInv, NEW executor \in Executors,
         executor.run = exec.run \/ (executor.run = NoRun /\ exec.run.kind # "repair"),
         ctl.active, link.status # "paused",
         exec' = [Fenced(executor) EXCEPT !.entries = Request(@, "repair"), !.watch = TRUE],
         ctl' \in Controllers, ctl'.active = ctl.active, ctl'.live # "same", ctl'.current = FALSE,
         ctl'.deliveries = 0, ctl'.closing = ctl.closing,
         \/ ctl'.attempts = ctl.attempts /\ fence' = "none"
         \/ ctl'.attempts = 0,
         link' \in LinkStates, link'.status = "repairing",
         timers' = timers \ {"reconcile"}, held' = {}, waiting' = {}, fence' \in {"none", "go"}, Outdated,
         faults' \in Nat, UNCHANGED <<feed, store, planned, hist>>
  PROVE  LinkInv'
  <2> USE <1>RepairRequested
  <2>1. /\ exec' \in Executors /\ exec'.ready = FALSE /\ exec'.run = Fenced(executor).run
        /\ EventsOf(exec'.entries) = {} /\ Pending(exec'.entries, "repair")
    BY <1>RequestedFields, Zenon
  <2>2. /\ RunAfter /\ exec'.run.gen # "same"
        /\ executor.run = exec.run => exec'.run.kind = exec.run.kind /\ exec'.run.pc = exec.run.pc
                                      /\ exec'.run.threw = exec.run.threw
        /\ executor.run = NoRun => exec'.run.kind = "none" /\ exec'.run.pc = "idle"
    BY <2>1, FencedRun, Zenon
  <2>3. init' \in Openings /\ init'.gen # "same" /\ SameOpening /\ sock' = None
    BY OutdatedReplaces, Zenon
  <2>4. Replaces
    <3>1. planned \in BOOLEAN
      BY Zenon DEF LinkInv, LinkShape
    <3> QED
      BY <2>1, <2>2, <2>3, <3>1, Zenon DEF Replaces
  <2>5. LinkShape' /\ RunShape' /\ KnownFeed' /\ FlightInv' /\ SettledInv' /\ ToldInv'
    BY <2>4, ReplacesKeeps, Zenon
  <2>6. ControlInv'
    <3>1. ~ctl.closing
      BY Zenon DEF LinkInv, ControlInv
    <3> QED
      BY <2>1, <2>2, <2>3, <3>1, Zenon DEF ControlInv
  <2>7. AttemptsInv'
    <3>1. MaxAttempts \in Nat /\ MaxAttempts > 0
      BY Bounds, Zenon
    <3>2. IsRepairSuperseded'
      BY <2>1, Zenon DEF IsRepairSuperseded, HasPending
    <3>3. /\ ctl.attempts <= MaxAttempts
          /\ exec.run.kind # "repair" => ctl.attempts < MaxAttempts
      BY Zenon DEF LinkInv, AttemptsInv
    <3>4. exec'.run.kind # "repair" => exec.run.kind # "repair"
      BY <2>2, Zenon
    <3> QED
      BY <3>1, <3>2, <3>3, <3>4 DEF AttemptsInv
  <2> QED
    BY <2>5, <2>6, <2>7, Zenon DEF LinkInv
<1>RequestRepairKeeps.
  ASSUME LinkInv, NEW executor \in Executors,
         executor.run = exec.run \/ (executor.run = NoRun /\ exec.run.kind # "repair"),
         RequestRepair(executor, "none"), faults' \in Nat, UNCHANGED <<feed, store, planned, hist>>
  PROVE  LinkInv'
  <2> USE <1>RequestRepairKeeps
  <2>1. /\ ctl.active /\ link.status # "paused" /\ ctl' = NextGeneration
        /\ exec' = [Fenced(executor) EXCEPT !.entries = Request(@, "repair"), !.watch = TRUE]
        /\ link' = [link EXCEPT !.status = "repairing", !.online = FALSE]
        /\ timers' = timers \ {"reconcile"} /\ held' = {} /\ waiting' = {} /\ fence' = "none" /\ Outdated
    BY Zenon DEF RequestRepair
  <2>2. ctl \in Controllers /\ link \in LinkStates
    BY Zenon DEF LinkInv, LinkShape
  <2>3. /\ ctl' \in Controllers /\ ctl'.active = ctl.active /\ ctl'.live = Aged(ctl.live) /\ ctl'.current = FALSE
        /\ ctl'.deliveries = 0 /\ ctl'.attempts = ctl.attempts /\ ctl'.closing = ctl.closing
    <3> DEFINE n == NextGeneration
    <3>1. /\ n \in Controllers /\ n.active = ctl.active /\ n.live = Aged(ctl.live) /\ n.current = FALSE
          /\ n.deliveries = 0 /\ n.attempts = ctl.attempts /\ n.closing = ctl.closing
      BY <2>2, NextGenerationFields, Zenon
    <3>2. ctl' = n
      BY <2>1, Zenon
    <3> HIDE DEF n
    <3> QED
      BY <3>1, <3>2, Zenon
  <2>4. ctl'.live # "same"
    BY <2>3, Zenon DEF Aged
  <2>5. link' \in LinkStates /\ link'.status = "repairing"
    BY <2>1, <2>2, Zenon DEF LinkStates, Statuses
  <2>6. fence' \in {"none", "go"}
    BY <2>1, Zenon
  <2> QED
    BY <2>1, <2>3, <2>4, <2>5, <2>6, <1>RepairRequested, Zenon
<1>RetryFailedRepairKeeps.
  ASSUME LinkInv, NEW ignore, RetryFailedRepair(ignore)
  PROVE  LinkInv'
  <2> USE <1>RetryFailedRepairKeeps
  <2>1. /\ ctl.active /\ link.status = "repairing" /\ ctl' = [NextGeneration EXCEPT !.attempts = 0]
        /\ exec' = [Fenced(exec) EXCEPT !.entries = Request(@, "repair"), !.watch = TRUE]
        /\ link' = [link EXCEPT !.online = FALSE]
        /\ timers' = timers \ {"reconcile"} /\ held' = {} /\ waiting' = {} /\ fence' = "go" /\ Outdated
        /\ UNCHANGED <<feed, store, planned, hist, faults>>
    BY Zenon DEF RetryFailedRepair
  <2>2. ctl \in Controllers /\ link \in LinkStates /\ exec \in Executors /\ faults \in Nat
    BY Zenon DEF LinkInv, LinkShape
  <2>3. /\ ctl' \in Controllers /\ ctl'.active = ctl.active /\ ctl'.live = Aged(ctl.live) /\ ctl'.current = FALSE
        /\ ctl'.deliveries = 0 /\ ctl'.attempts = 0 /\ ctl'.closing = ctl.closing
    <3> DEFINE n == NextGeneration
    <3>1. /\ n \in Controllers /\ n.active = ctl.active /\ n.live = Aged(ctl.live) /\ n.current = FALSE
          /\ n.deliveries = 0 /\ n.closing = ctl.closing
      BY <2>2, NextGenerationFields, Zenon
    <3>0. ctl' = [n EXCEPT !.attempts = 0]
      BY <2>1, Zenon
    <3> HIDE DEF n
    <3>2. 0 \in Nat
      BY Zenon
    <3> QED
      BY <3>0, <3>1, <3>2, Zenon DEF Controllers
  <2>4. ctl'.live # "same"
    BY <2>3, Zenon DEF Aged
  <2>5. link' \in LinkStates /\ link'.status = "repairing"
    BY <2>1, <2>2, Zenon DEF LinkStates
  <2>6. fence' \in {"none", "go"} /\ faults' \in Nat /\ link.status # "paused"
    BY <2>1, <2>2, Zenon
  <2> QED
    BY <2>1, <2>2, <2>3, <2>4, <2>5, <2>6, <1>RepairRequested, Zenon
<1>SubscriptionErrorKeeps.
  ASSUME LinkInv, SubscriptionError
  PROVE  LinkInv'
  <2> USE <1>SubscriptionErrorKeeps
  <2>1. RequestRepair(exec, "none") /\ faults' = faults + 1 /\ UNCHANGED <<feed, store, planned, hist>>
    BY Zenon DEF SubscriptionError
  <2>2. exec \in Executors /\ faults' \in Nat
    BY <2>1 DEF LinkInv, LinkShape
  <2> QED
    BY <2>1, <2>2, <1>RequestRepairKeeps, Zenon
\* A waiting event is covered by the checkpoint.
<1>WaitingShrinks.
  ASSUME LinkInv, waiting' \subseteq waiting,
         UNCHANGED <<feed, store, link, ctl, exec, held, timers, sock, fence, init, planned, hist, faults>>
  PROVE  LinkInv'
  <2> USE <1>WaitingShrinks
  <2>1. LinkShape'
    BY Zenon DEF LinkInv, LinkShape
  <2>2. RunShape' /\ KnownFeed'
    BY Zenon DEF LinkInv, RunShape, KnownFeed
  <2>3. ControlInv'
    BY Zenon DEF LinkInv, ControlInv
  <2>4. AttemptsInv'
    BY Zenon DEF LinkInv, AttemptsInv, IsRepairSuperseded, IsRepairCancelled, HasPending
  <2>5. FlightInv' /\ SettledInv' /\ InFlight' = InFlight /\ Told' = Told
    BY Zenon DEF LinkInv, FlightInv, SettledInv, InFlight, Told
  <2>6. ToldInv'
    BY <2>5, Zenon DEF LinkInv, ToldInv
  <2> QED
    BY <2>1, <2>2, <2>3, <2>4, <2>5, <2>6, Zenon DEF LinkInv
<1>EventSettlesKeeps.
  ASSUME LinkInv, EventSettles
  PROVE  LinkInv'
  <2> USE <1>EventSettlesKeeps
  <2>1. PICK pos \in waiting :
          /\ IF store.applied >= pos
             THEN waiting' = waiting \ {pos} /\ UNCHANGED <<ctl, exec, link, timers, held, fence, init, sock>>
             ELSE RequestRepair(exec, "none")
          /\ UNCHANGED <<feed, store, planned, hist, faults>>
    BY Zenon DEF EventSettles
  <2>2. CASE store.applied >= pos
    BY <2>1, <2>2, <1>WaitingShrinks, Zenon
  <2>3. CASE ~(store.applied >= pos)
    <3>1. RequestRepair(exec, "none") /\ UNCHANGED <<feed, store, planned, hist>>
      BY <2>1, <2>3, Zenon
    <3>2. exec \in Executors /\ faults' \in Nat
      BY <2>1, Zenon DEF LinkInv, LinkShape
    <3> QED
      BY <3>1, <3>2, <1>RequestRepairKeeps, Zenon
  <2> QED
    BY <2>2, <2>3, Zenon
<1>EventFailsKeeps.
  ASSUME LinkInv, EventFails
  PROVE  LinkInv'
  <2> USE <1>EventFailsKeeps
  <2> DEFINE ended == [exec EXCEPT !.run = NoRun]
  <2>1. /\ exec.run.kind = "event" /\ faults' = faults + 1 /\ UNCHANGED <<feed, store, planned, hist>>
        /\ IF GenerationCurrent(exec.run.gen) THEN RequestRepair(ended, "none")
           ELSE exec' = ended /\ UNCHANGED <<ctl, link, timers, held, waiting, fence, init, sock>>
    BY Zenon DEF EventFails
  <2>2. exec \in Executors /\ faults' \in Nat /\ ctl \in Controllers /\ link \in LinkStates /\ store \in Stores
        /\ held \subseteq Directions /\ hist.owed \in Nat /\ store.applied \in Nat /\ (sock # None => sock.next \in Nat)
    BY <2>1, Plain DEF LinkInv, LinkShape
  <2>3. ended \in Executors /\ ended.ready = exec.ready /\ ended.entries = exec.entries /\ ended.run = NoRun
    BY <2>2, NoRunFields, Zenon DEF Executors
  <2> HIDE DEF ended
  <2>4. CASE GenerationCurrent(exec.run.gen)
    <3>1. RequestRepair(ended, "none") /\ exec.run.kind # "repair"
      BY <2>1, <2>4, Zenon
    <3> QED
      BY <2>1, <2>2, <2>3, <3>1, <1>RequestRepairKeeps, Zenon
  <2>5. CASE ~GenerationCurrent(exec.run.gen)
    <3>1. exec' = ended /\ UNCHANGED <<feed, store, planned, hist, ctl, link, timers, held, waiting, fence, init, sock>>
      BY <2>1, <2>5, Zenon
    <3>2. exec' \in Executors /\ SameQueue /\ exec'.run = NoRun /\ exec.run.kind \notin {"none", "repair"}
      BY <2>1, <2>3, <3>1, Zenon DEF SameQueue
    <3>3. LinkShape' /\ RunShape' /\ KnownFeed' /\ ControlInv' /\ AttemptsInv' /\ Told' = Told
      BY <2>2, <3>1, <3>2, RunEnds, Zenon
    <3>4. ~Current(exec.run) /\ ~Current(exec'.run)
      <4>1. exec.run.gen # "same"
        BY <2>5, Zenon DEF GenerationCurrent, LinkInv, ControlInv
      <4> QED
        BY <3>2, <4>1, NoRunFields, Zenon DEF Current
    <3>5. FlightInv' /\ InFlight' = InFlight
      BY <2>2, <3>1, <3>2, <3>4, FlightKept DEF LinkInv, SameQueue
    <3>6. SettledInv'
      BY <2>2, <3>1, <3>2, NoRunFields, SettledKept DEF LinkInv, SameOpening
    <3>7. ToldInv'
      BY <3>1, <3>2, <3>3, <3>5, NoRunFields, ToldKept, Zenon
         DEF LinkInv, SameQueue, SameOpening
    <3> QED
      BY <3>3, <3>5, <3>6, <3>7, Zenon DEF LinkInv
  <2> QED
    BY <2>4, <2>5, Zenon
<1>1. ASSUME LinkInv, UNCHANGED vars PROVE LinkInv'
  BY <1>1, <1>WaitingShrinks, Zenon DEF vars
<1> QED
  BY <1>1, <1>SubscriptionErrorKeeps, <1>EventSettlesKeeps, <1>EventFailsKeeps,
     <1>RetryFailedRepairKeeps, Zenon

LEMMA EnterPauseKeeps ==
  ASSUME LinkInv, NEW executor \in Executors,
         executor.run = exec.run \/ executor.run = NoRun,
         NEW recovery \in Recoveries, EnterPause(executor, recovery),
         (fence' = fence /\ executor.run = exec.run) \/ fence' = "none",
         UNCHANGED <<feed, store, planned, hist, faults>>
  PROVE  LinkInv'
<1>1. /\ ctl.active /\ ctl' = [NextGeneration EXCEPT !.closing = TRUE] /\ exec' = Fenced(executor)
      /\ link' = [status |-> "paused", online |-> FALSE, recovery |-> recovery]
      /\ timers' = {} /\ held' = {} /\ waiting' = {} /\ Outdated
  BY Zenon DEF EnterPause
<1>2. ctl \in Controllers /\ exec \in Executors /\ faults \in Nat /\ planned \in BOOLEAN /\ fence \in {"none", "go", "stop"}
  BY Zenon DEF LinkInv, LinkShape
<1>3. /\ ctl' \in Controllers /\ ctl'.active = ctl.active /\ ctl'.live = Aged(ctl.live) /\ ctl'.current = FALSE
      /\ ctl'.deliveries = 0 /\ ctl'.attempts = ctl.attempts /\ ctl'.closing = TRUE
  <2> DEFINE n == NextGeneration
  <2>1. /\ n \in Controllers /\ n.active = ctl.active /\ n.live = Aged(ctl.live) /\ n.current = FALSE
        /\ n.deliveries = 0 /\ n.attempts = ctl.attempts
    BY <1>2, NextGenerationFields, Zenon
  <2>0. ctl' = [n EXCEPT !.closing = TRUE]
    BY <1>1, Zenon
  <2> HIDE DEF n
  <2> QED
    BY <2>0, <2>1, Zenon DEF Controllers
<1>4. link' \in LinkStates /\ link'.status = "paused"
  BY <1>1, Zenon DEF LinkStates, Statuses
<1>5. /\ exec' \in Executors /\ exec'.ready = FALSE /\ exec'.run = Fenced(executor).run
      /\ EventsOf(exec'.entries) = {}
  BY <1>1, FencedFields, FencedQueue, Zenon
<1>6. /\ RunAfter /\ exec'.run.gen # "same"
      /\ executor.run = exec.run => exec'.run.kind = exec.run.kind
      /\ executor.run = NoRun => exec'.run.kind = "none" /\ exec'.run.pc = "idle"
  BY <1>5, FencedRun, Zenon
<1>7. init' \in Openings /\ init'.gen # "same" /\ SameOpening /\ sock' = None
  BY <1>1, OutdatedReplaces, Zenon
<1>8. Replaces
  <2>1. fence' \in {"none", "go", "stop"} /\ held' \subseteq Directions /\ timers' \subseteq timers /\ waiting' \subseteq waiting
    BY <1>1, <1>2, Zenon
  <2> QED
    BY <1>2, <1>3, <1>4, <1>5, <1>6, <1>7, <2>1, Zenon DEF Replaces
<1>9. LinkShape' /\ RunShape' /\ KnownFeed' /\ FlightInv' /\ SettledInv' /\ ToldInv'
  BY <1>8, ReplacesKeeps, Zenon
<1>10. ControlInv'
  BY <1>1, <1>3, <1>4, <1>5, <1>6, <1>7, Zenon DEF ControlInv
<1>11. AttemptsInv'
  <2>1. IsRepairSuperseded'
    BY <1>4, Zenon DEF IsRepairSuperseded, IsRepairCancelled
  <2> QED
    BY <1>3, <1>4, <1>6, <2>1, Zenon DEF LinkInv, AttemptsInv
<1> QED
  BY <1>9, <1>10, <1>11, Zenon DEF LinkInv

LEMMA NewFields ==
  /\ NewController \in Controllers /\ NewController.active = TRUE /\ NewController.live = "none"
  /\ NewController.local = "none" /\ NewController.current = FALSE /\ NewController.deliveries = 0
  /\ NewController.attempts = 0 /\ NewController.closing = FALSE
  /\ NewExecutor \in Executors /\ NewExecutor.ready = FALSE /\ NewExecutor.entries = <<>> /\ NewExecutor.run = NoRun
  /\ EventsOf(<<>>) = {} /\ ~Pending(<<>>, "repair")
  /\ Opening \in Openings /\ Opening.pc = "openPull" /\ Opening.gen = "same" /\ Opening.upTo = 0
<1>1. /\ NewController \in Controllers /\ NewController.active = TRUE /\ NewController.live = "none"
      /\ NewController.local = "none" /\ NewController.current = FALSE /\ NewController.deliveries = 0
      /\ NewController.attempts = 0 /\ NewController.closing = FALSE
  <2>1. 0 \in Nat /\ 0 \in Int
    OBVIOUS
  <2> QED
    BY <2>1, Zenon DEF NewController, Controllers, Generations
<1>2. /\ NewExecutor \in Executors /\ NewExecutor.ready = FALSE /\ NewExecutor.entries = <<>>
      /\ NewExecutor.run = NoRun
  <2>1. <<>> \in Seq(Entries) /\ NoRun \in Runs
    BY NoRunFields
  <2> QED
    BY <2>1, Zenon DEF NewExecutor, Executors
<1>3. EventsOf(<<>>) = {} /\ ~Pending(<<>>, "repair")
  BY DEF EventsOf, Pending
<1>4. Opening \in Openings /\ Opening.pc = "openPull" /\ Opening.gen = "same" /\ Opening.upTo = 0
  <2>1. 0 \in 0 .. MaxHead /\ 0 \in 0 .. MaxHead + 1
    BY Bounds
  <2> QED
    BY <2>1, Zenon DEF Opening, Openings, InitSteps, Generations
<1> QED
  BY <1>1, <1>2, <1>3, <1>4, Zenon

\* The ends of a link, by a pause, a removal or a failed opening, and the link that
\* is opened after it.
LEMMA EndsKeep ==
  LinkInv /\ (PauseLink \/ ClosePaused \/ RemoveLink \/ InitFails \/ Reinitialize) => LinkInv'
<1>PauseLinkKeeps.
  ASSUME LinkInv, PauseLink
  PROVE  LinkInv'
  <2> USE <1>PauseLinkKeeps
  <2> DEFINE recovery == IF link.recovery = "terminal" THEN "terminal" ELSE "none"
  <2>1. EnterPause(exec, recovery) /\ UNCHANGED <<feed, store, fence, planned, hist, faults>>
    BY Zenon DEF PauseLink
  <2>2. exec \in Executors /\ recovery \in Recoveries
    BY Zenon DEF LinkInv, LinkShape, Recoveries
  <2> HIDE DEF recovery
  <2> QED
    BY <2>1, <2>2, EnterPauseKeeps, Zenon
<1>ClosePausedKeeps.
  ASSUME LinkInv, ClosePaused
  PROVE  LinkInv'
  <2> USE <1>ClosePausedKeeps
  <2>1. /\ ctl.closing /\ ctl' = [Closed(ctl) EXCEPT !.attempts = 0, !.closing = FALSE]
        /\ UNCHANGED <<feed, store, link, exec, held, timers, sock, waiting, fence, init, planned, hist, faults>>
    BY Zenon DEF ClosePaused
  <2>2. /\ ctl \in Controllers /\ hist.owed \in Nat /\ store.applied \in Nat /\ (sock # None => sock.next \in Nat)
    BY Plain, Zenon DEF LinkInv, LinkShape
  <2>3. /\ ctl' \in Controllers /\ ctl'.active = ctl.active /\ ctl'.live = "none" /\ ctl'.local = "none"
        /\ ctl'.current = ctl.current /\ ctl'.deliveries = ctl.deliveries /\ ctl'.attempts = 0
        /\ ctl'.closing = FALSE
    <3>1. 0 \in Nat
      BY Zenon
    <3> QED
      BY <2>1, <2>2, <3>1, Zenon DEF Closed, Controllers, Generations
  <2>4. link.status = "paused" /\ ctl.active
    BY <2>1, Zenon DEF LinkInv, ControlInv
  <2>5. LinkShape'
    BY <2>1, <2>3, Zenon DEF LinkInv, LinkShape
  <2>6. RunShape' /\ KnownFeed'
    BY <2>1, Zenon DEF LinkInv, RunShape, KnownFeed
  <2>7. ControlInv'
    BY <2>1, <2>3, <2>4, Zenon DEF LinkInv, ControlInv
  <2>8. AttemptsInv'
    BY <2>1, <2>3, <2>4, Bounds DEF AttemptsInv, IsRepairSuperseded, IsRepairCancelled
  <2>9. FlightInv' /\ InFlight' = InFlight
    BY <2>1, <2>2, <2>3, FlightKept DEF LinkInv
  <2>10. SettledInv'
    BY <2>1, <2>2, SettledKept DEF LinkInv, SameCommit, SameOpening
  <2>11. ToldInv'
    <3>1. Told' \subseteq Told
      BY <2>1, NothingTold, Zenon
    <3> QED
      BY <2>1, <2>3, <2>9, <3>1, ToldKept, Zenon DEF LinkInv, SamePass, SameCommit, SameOpening
  <2> QED
    BY <2>5, <2>6, <2>7, <2>8, <2>9, <2>10, <2>11, Zenon DEF LinkInv
\* The lifetime of the controller ends.
<1>RetireKeeps.
  ASSUME LinkInv, Retire, link' = link, faults' \in Nat, planned' \in BOOLEAN,
         planned' => link.status \in {"initializing", "live"},
         init' \in Openings, init'.gen # "same", SameOpening \/ init' = Opened, sock' = None,
         UNCHANGED <<feed, store, hist>>
  PROVE  LinkInv'
  <2> USE <1>RetireKeeps
  <2>1. /\ ctl' = [NewController EXCEPT !.active = FALSE] /\ exec' = [NewExecutor EXCEPT !.run = Fenced(exec).run]
        /\ timers' = {} /\ held' = {} /\ waiting' = {} /\ fence' = "none"
    BY Zenon DEF Retire
  <2>2. exec \in Executors /\ link \in LinkStates
    BY Zenon DEF LinkInv, LinkShape
  <2>3. /\ ctl' \in Controllers /\ ctl'.active = FALSE /\ ctl'.live = "none" /\ ctl'.local = "none"
        /\ ctl'.current = FALSE /\ ctl'.deliveries = 0 /\ ctl'.attempts = 0 /\ ctl'.closing = FALSE
    <3>1. 0 \in Nat /\ 0 \in Int
      OBVIOUS
    <3> QED
      BY <2>1, <3>1, Zenon DEF NewController, Controllers, Generations
  <2>4. /\ exec' \in Executors /\ exec'.ready = FALSE /\ exec'.entries = <<>> /\ exec'.run = Fenced(exec).run
    <3>1. <<>> \in Seq(Entries)
      OBVIOUS
    <3>2. Fenced(exec).run \in Runs
      BY <2>2, FencedFields, Zenon
    <3> QED
      BY <2>1, <3>1, <3>2, Zenon DEF NewExecutor, Executors
  <2>5. EventsOf(exec'.entries) = {}
    BY <2>4 DEF EventsOf
  <2>6. RunAfter /\ exec'.run.gen # "same"
    BY <2>2, <2>4, FencedRun, Zenon
  <2>7. Replaces
    <3>1. fence' \in {"none", "go", "stop"} /\ held' \subseteq Directions /\ timers' \subseteq timers /\ waiting' \subseteq waiting
      BY <2>1, Zenon
    <3> QED
      BY <2>2, <2>3, <2>4, <2>5, <2>6, <3>1, Zenon DEF Replaces
  <2>8. LinkShape' /\ RunShape' /\ KnownFeed' /\ FlightInv' /\ SettledInv' /\ ToldInv'
    BY <2>7, ReplacesKeeps, Zenon
  <2>9. ControlInv'
    BY <2>1, <2>3, <2>4, <2>6, Zenon DEF ControlInv
  <2>10. AttemptsInv'
    BY <2>1, <2>3, Bounds DEF AttemptsInv, IsRepairSuperseded, IsRepairCancelled
  <2> QED
    BY <2>8, <2>9, <2>10, Zenon DEF LinkInv
<1>RemoveLinkKeeps.
  ASSUME LinkInv, RemoveLink
  PROVE  LinkInv'
  <2> USE <1>RemoveLinkKeeps
  <2>1. /\ faults' = faults + 1 /\ Retire /\ Outdated /\ planned' = FALSE /\ UNCHANGED <<feed, store, link, hist>>
    BY Zenon DEF RemoveLink
  <2>2. faults' \in Nat
    BY <2>1 DEF LinkInv, LinkShape
  <2>3. init' \in Openings /\ init'.gen # "same" /\ SameOpening /\ sock' = None
    BY <2>1, OutdatedReplaces, Zenon
  <2>4. planned' \in BOOLEAN /\ ~planned'
    BY <2>1, Zenon
  <2> QED
    BY <2>1, <2>2, <2>3, <2>4, <1>RetireKeeps, Zenon
<1>InitFailsKeeps.
  ASSUME LinkInv, InitFails
  PROVE  LinkInv'
  <2> USE <1>InitFailsKeeps
  <2>1. /\ faults' = faults + 1 /\ Retire /\ init' = Opened /\ sock' = None /\ GenerationCurrent(init.gen)
        /\ UNCHANGED <<feed, store, link, planned, hist>>
    BY Zenon DEF InitFails
  <2>2. faults' \in Nat /\ planned' \in BOOLEAN
    BY <2>1 DEF LinkInv, LinkShape
  <2>3. init' \in Openings /\ init'.gen # "same"
    BY <2>1, OpenedFields, Zenon
  <2>4. link.status \in {"initializing", "live"}
    BY <2>1, OpeningAlone, Zenon
  <2> QED
    BY <2>1, <2>2, <2>3, <2>4, <1>RetireKeeps, Zenon
<1>ReinitializeKeeps.
  ASSUME LinkInv, Reinitialize
  PROVE  LinkInv'
  <2> USE <1>ReinitializeKeeps
  <2>1. /\ ~ctl.active /\ planned /\ ctl' = NewController /\ exec' = NewExecutor /\ init' = Opening
        /\ UNCHANGED <<feed, store, link, held, timers, sock, waiting, fence, planned, hist, faults>>
    BY Zenon DEF Reinitialize
  <2>2. /\ ctl' \in Controllers /\ ctl'.active = TRUE /\ ctl'.live = "none" /\ ctl'.local = "none"
        /\ ctl'.current = FALSE /\ ctl'.deliveries = 0 /\ ctl'.attempts = 0 /\ ctl'.closing = FALSE
        /\ exec' \in Executors /\ exec'.ready = FALSE /\ exec'.entries = <<>> /\ exec'.run = NoRun
        /\ init' \in Openings /\ init'.pc = "openPull" /\ init'.gen = "same" /\ init'.upTo = 0
    BY <2>1, NewFields, Zenon
  <2>3. EventsOf(exec'.entries) = {} /\ ~Pending(exec'.entries, "repair")
    BY <2>2, NewFields, Zenon
  <2>4. link.status \in {"initializing", "live"} /\ timers = {}
    BY <2>1, Zenon DEF LinkInv, ControlInv
  <2>5. /\ exec'.run.kind = "none" /\ exec'.run.pc = "idle" /\ exec'.run.upTo = 0 /\ exec'.run.gen = "none"
        /\ store.applied \in Nat /\ 0 <= feed.head
    BY <2>2, NoRunFields, Plain, Zenon
  <2>6. LinkShape'
    BY <2>1, <2>2, Zenon DEF LinkInv, LinkShape
  <2>7. RunShape'
    BY <2>2, <2>5, Zenon DEF RunShape, EventSteps, RepairSteps
  <2>8. KnownFeed'
    BY <2>1, <2>2, <2>5, Zenon DEF LinkInv, KnownFeed
  <2>9. ControlInv'
    BY <2>1, <2>2, <2>3, <2>4, <2>5, Zenon DEF ControlInv
  <2>10. AttemptsInv'
    BY <2>2, <2>5, Bounds DEF AttemptsInv
  <2>11. FlightInv'
    BY <2>2, <2>3, <2>5, FlightCleared, Zenon DEF Current
  <2>12. SettledInv'
    BY <2>1, <2>2, <2>5, SettledKept DEF LinkInv
  <2>13. ToldInv'
    BY <2>2, <2>5 DEF ToldInv
  <2> QED
    BY <2>6, <2>7, <2>8, <2>9, <2>10, <2>11, <2>12, <2>13, Zenon DEF LinkInv
<1> QED
  BY <1>PauseLinkKeeps, <1>ClosePausedKeeps, <1>RemoveLinkKeeps, <1>InitFailsKeeps, <1>ReinitializeKeeps,
     Zenon

-----------------------------------------------------------------------------
(* The end of a repair, and its steps. *)

\* What a repair in its own generation has attached is still there.
RepairAttached ==
  exec.run.gen = "same" /\ ctl.active =>
    /\ exec.run.pc \in {"attachPull", "attachPush", "complete", "persist"} => sock # None
    /\ exec.run.pc \in {"attachPush", "complete", "persist"} => ctl.live = "same"
    /\ exec.run.pc \in {"complete", "persist"} => ctl.local = "same"
    /\ exec.run.pc = "persist" => link.status = "live"
    /\ exec.run.pc = "restore" => sock = None
    /\ exec.run.pc \in PassSteps \cup {"attachPull"} => ctl.live # "same"
    /\ exec.run.pc # "close" => ~ctl.current

\* While a repair runs nothing else goes on.
LEMMA RepairAlone ==
  ASSUME LinkInv, exec.run.kind = "repair"
  PROVE  /\ ~exec.ready /\ init.gen # "same" /\ InFlight = {} /\ EventsOf(exec.entries) = {}
         /\ ctl.deliveries = 0 /\ exec.run.pc \notin EventSteps \cup {"idle"}
<1>1. ~exec.ready /\ init.gen # "same"
  BY Zenon DEF LinkInv, ControlInv
<1>2. exec.run.pc \notin EventSteps \cup {"idle"}
  BY Zenon DEF LinkInv, RunShape
<1> QED
  BY <1>1, <1>2, NotReady, Zenon

LEMMA ClosedFields ==
  ASSUME NEW controller \in Controllers
  PROVE  /\ Closed(controller) \in Controllers
         /\ Closed(controller).live = "none" /\ Closed(controller).local = "none"
         /\ Closed(controller).active = controller.active /\ Closed(controller).current = controller.current
         /\ Closed(controller).deliveries = controller.deliveries
         /\ Closed(controller).attempts = controller.attempts /\ Closed(controller).closing = controller.closing
  BY Zenon DEF Closed, Controllers, Generations

\* A repair that lost its mandate leaves an attempt for the next.
LEMMA SupersededLeaves ==
  ASSUME LinkInv, exec.run.kind = "repair", IsRepairSuperseded
  PROVE  HasPending("repair") \/ ctl.attempts < MaxAttempts \/ link.status = "paused"
<1>1. MaxAttempts \in Nat /\ MaxAttempts > 1 /\ ctl.attempts \in Nat
  BY Typed, Bounds, Zenon DEF LinkInv
<1>2. ~ctl.active => ctl.attempts = 0
  BY Zenon DEF LinkInv, ControlInv
<1>3. fence = "stop" => ctl.attempts <= 1
  BY Zenon DEF LinkInv, AttemptsInv
<1> QED
  BY <1>1, <1>2, <1>3 DEF IsRepairSuperseded, IsRepairCancelled

LEMMA EndRepairKeeps ==
  ASSUME LinkInv, exec.run.kind = "repair",
         NEW controller \in Controllers, controller.active = ctl.active, controller.closing = ctl.closing,
         controller.current = ctl.current, controller.deliveries = ctl.deliveries,
         \/ controller.live = ctl.live /\ controller.local = ctl.local
         \/ controller.live = "none" /\ controller.local = "none",
         controller.attempts \in {ctl.attempts, 0},
         NEW failed, EndRepair(controller, link'.status, failed, timers),
         link' \in LinkStates,
         link'.status = link.status \/ (ctl.active /\ link.status = "live" /\ link'.status = "repairing"),
         link'.online = link.online \/ link'.online = TRUE \/ sock' = None,
         sock' = sock \/ sock' = None,
         HasPending("repair") \/ controller.attempts < MaxAttempts \/ link.status = "paused",
         UNCHANGED <<feed, store, held, waiting, init, planned, hist, faults>>
  PROVE  LinkInv'
<1> DEFINE q == Consume(exec.entries, {"repair"})
           armed == timers \cup (IF ctl.active /\ link'.status = "repairing" /\ (HasPending("repair") \/ failed)
                                 THEN {"repair"} ELSE {})
                           \cup (IF ctl.active /\ link'.status = "live" /\ ~failed /\ ~HasPending("reconcile")
                                 THEN {"reconcile"} ELSE {})
<1>1. /\ exec' = [exec EXCEPT !.run = NoRun, !.entries = q]
      /\ ctl' = IF HasPending("repair") THEN [controller EXCEPT !.attempts = Max2(0, @ - 1)] ELSE controller
      /\ timers' = armed /\ fence' = "none"
  BY Zenon DEF EndRepair
<1>2. /\ exec \in Executors /\ exec.entries \in Seq(Entries) /\ ctl.attempts \in Nat /\ store.applied \in Nat
      /\ 0 <= feed.head
  BY Typed, Plain, Zenon DEF LinkInv, LinkShape
<1>3. /\ ~exec.ready /\ init.gen # "same" /\ InFlight = {} /\ EventsOf(exec.entries) = {} /\ ctl.deliveries = 0
  BY RepairAlone, Zenon
<1>4. /\ q \in Seq(Entries) /\ EventsOf(q) = {}
      /\ Pending(exec.entries, "pull") => Pending(q, "pull")
  BY <1>2, <1>3, ConsumeQueue, Zenon
<1> HIDE DEF q
<1>5. exec' \in Executors /\ exec'.ready = exec.ready /\ exec'.entries = q /\ exec'.run = NoRun
  BY <1>1, <1>2, <1>4, NoRunFields, Zenon DEF Executors
<1>6. exec'.run.kind = "none" /\ exec'.run.pc = "idle" /\ exec'.run.gen = "none" /\ exec'.run.upTo = 0
  BY <1>5, NoRunFields, Zenon
<1>7. /\ ctl' \in Controllers /\ ctl'.active = ctl.active /\ ctl'.live = controller.live
      /\ ctl'.local = controller.local /\ ctl'.current = ctl.current /\ ctl'.deliveries = 0
      /\ ctl'.closing = ctl.closing
      /\ ctl'.attempts = IF HasPending("repair") THEN Max2(0, controller.attempts - 1) ELSE controller.attempts
  <2> DEFINE less == Max2(0, controller.attempts - 1)
  <2>1. controller.attempts \in Nat
    BY <1>2
  <2>2. less \in Nat
    BY <2>1 DEF Max2
  <2>3. CASE HasPending("repair")
    <3>1. ctl' = [controller EXCEPT !.attempts = less]
      BY <1>1, <2>3, Zenon
    <3> HIDE DEF less
    <3>2. /\ ctl' \in Controllers /\ ctl'.active = controller.active /\ ctl'.live = controller.live
          /\ ctl'.local = controller.local /\ ctl'.current = controller.current
          /\ ctl'.deliveries = controller.deliveries /\ ctl'.closing = controller.closing /\ ctl'.attempts = less
      BY <2>2, <3>1, Zenon DEF Controllers
    <3> QED
      BY <1>3, <2>3, <3>2, Zenon DEF less
  <2>4. CASE ~HasPending("repair")
    BY <1>1, <1>3, <2>4, Zenon
  <2> QED
    BY <2>3, <2>4, Zenon
<1>8. LinkShape'
  <2>1. armed \subseteq {"reconcile", "repair"}
    BY Zenon DEF LinkInv, LinkShape
  <2> HIDE DEF armed
  <2>2. sock' \in Sockets \cup {None} /\ fence' \in {"none", "go", "stop"}
    BY <1>1, Zenon DEF LinkInv, LinkShape
  <2> QED
    BY <1>1, <1>5, <1>7, <2>1, <2>2, Zenon DEF LinkInv, LinkShape
<1>9. RunShape' /\ KnownFeed'
  BY <1>2, <1>6, Zenon DEF LinkInv, RunShape, KnownFeed, EventSteps, RepairSteps
<1>10. ControlInv'
  <2>1. /\ ~ctl.active => timers' = timers
        /\ link.status = "paused" => timers' = timers
    BY <1>1, Zenon
  <2> HIDE DEF armed
  <2>0. /\ ctl.active /\ ctl.live = "same" /\ sock # None => (sock.up /\ ~sock.news => link.online)
        /\ ~ctl.active =>
             /\ timers = {} /\ waiting = {} /\ ~exec.ready /\ ~ctl.current
             /\ ctl.live = "none" /\ ctl.local = "none" /\ ctl.attempts = 0 /\ exec.run.gen # "same"
             /\ planned => link.status \in {"initializing", "live"}
        /\ link.status = "paused" =>
             /\ timers = {} /\ waiting = {} /\ ~exec.ready /\ ~ctl.current /\ sock = None
             /\ exec.run.gen # "same" /\ init.gen # "same"
             /\ ~ctl.closing => ctl.live = "none" /\ ctl.local = "none"
        /\ ctl.closing => ctl.active /\ link.status = "paused"
    BY Zenon DEF LinkInv, ControlInv
  <2>2. ~ctl.active => ctl'.attempts = 0
    BY <1>2, <1>7, <2>0 DEF Max2
  <2>3. ctl'.live # "none" \/ ctl'.local # "none" => ctl'.live = ctl.live /\ ctl'.local = ctl.local
    BY <1>7, Zenon
  <2>4. ctl'.active /\ ctl'.live = "same" /\ sock' # None => (sock'.up /\ ~sock'.news => link'.online)
    BY <1>7, <2>0, Zenon
  <2>5. ~ctl'.active =>
       /\ timers' = {} /\ waiting' = {} /\ ~exec'.ready /\ ~ctl'.current
       /\ ctl'.live = "none" /\ ctl'.local = "none" /\ ctl'.attempts = 0 /\ exec'.run.gen # "same"
       /\ planned' => link'.status \in {"initializing", "live"}
    BY <1>3, <1>5, <1>6, <1>7, <2>0, <2>1, <2>2, <2>3, Zenon
  <2>6. link'.status = "paused" =>
       /\ timers' = {} /\ waiting' = {} /\ ~exec'.ready /\ ~ctl'.current /\ sock' = None
       /\ exec'.run.gen # "same" /\ init'.gen # "same"
       /\ ~ctl'.closing => ctl'.live = "none" /\ ctl'.local = "none"
    BY <1>3, <1>5, <1>6, <1>7, <2>0, <2>1, <2>3, Zenon
  <2>7. ctl'.closing => ctl'.active /\ link'.status = "paused"
    BY <1>7, <2>0, Zenon
  <2> QED
    BY <1>3, <1>5, <1>6, <2>4, <2>5, <2>6, <2>7, Zenon DEF ControlInv
<1>11. AttemptsInv'
  <2>1. /\ ctl.attempts <= MaxAttempts /\ MaxAttempts \in Nat /\ MaxAttempts > 0 /\ controller.attempts \in Nat
        /\ controller.attempts <= MaxAttempts
    BY <1>2, Bounds DEF LinkInv, AttemptsInv
  <2>2. /\ ctl'.attempts <= MaxAttempts
        /\ link'.status # "paused" => ctl'.attempts < MaxAttempts
    BY <1>7, <2>1 DEF Max2
  <2> QED
    BY <1>1, <1>6, <2>2, Zenon DEF AttemptsInv
<1>12. FlightInv' /\ InFlight' = {}
  BY <1>4, <1>5, <1>6, <1>7, FlightCleared, Zenon DEF Current
<1>13. SettledInv'
  BY <1>2, <1>6, SettledKept DEF LinkInv, SameOpening
<1>14. ToldInv'
  <2>1. Told' \subseteq Told
    BY NothingTold, Zenon
  <2> QED
    BY <1>3, <1>4, <1>5, <1>6, <1>7, <1>12, <2>1, ToldKept, Zenon DEF LinkInv
<1> QED
  BY <1>8, <1>9, <1>10, <1>11, <1>12, <1>13, <1>14, Zenon DEF LinkInv

\* A repair without a mandate ends, with or without its subscriptions.
LEMMA RepairStops ==
  ASSUME LinkInv, exec.run.kind = "repair", IsRepairSuperseded,
         NEW controller \in {ctl, Closed(ctl)}, EndRepair(controller, link.status, FALSE, timers),
         link' = link \/ link' = [link EXCEPT !.online = TRUE], sock' = sock \/ sock' = None,
         UNCHANGED <<feed, store, held, waiting, init, planned, hist, faults>>
  PROVE  LinkInv'
<1>1. ctl \in Controllers /\ link \in LinkStates
  BY Zenon DEF LinkInv, LinkShape
<1>2. /\ controller \in Controllers /\ controller.active = ctl.active /\ controller.closing = ctl.closing
      /\ controller.current = ctl.current /\ controller.deliveries = ctl.deliveries
      /\ \/ controller.live = ctl.live /\ controller.local = ctl.local
         \/ controller.live = "none" /\ controller.local = "none"
      /\ controller.attempts = ctl.attempts
  <2>1. CASE controller = ctl
    BY <1>1, <2>1, Zenon
  <2>2. CASE controller = Closed(ctl)
    BY <1>1, <2>2, ClosedFields, Zenon
  <2> QED
    BY <2>1, <2>2, Zenon
<1>3. /\ link' \in LinkStates /\ link'.status = link.status
      /\ link'.online = link.online \/ link'.online = TRUE
  BY <1>1, Zenon DEF LinkStates
<1>4. HasPending("repair") \/ controller.attempts < MaxAttempts \/ link.status = "paused"
  BY <1>2, SupersededLeaves, Zenon
<1>5. EndRepair(controller, link'.status, FALSE, timers) /\ controller.attempts \in {ctl.attempts, 0}
  BY <1>2, <1>3, Zenon
<1> QED
  BY <1>2, <1>3, <1>4, <1>5, EndRepairKeeps, Zenon

\* A repair whose generation was replaced has lost its mandate.
LEMMA FencedIsSuperseded ==
  ASSUME LinkInv, exec.run.kind = "repair", ~GenerationCurrent(exec.run.gen)
  PROVE  IsRepairSuperseded
  BY Zenon
     DEF LinkInv, ControlInv, GenerationCurrent, IsRepairSuperseded, IsRepairCancelled, HasPending

\* A repair goes on to another step.  Only one in its own generation attaches
\* a subscription or changes the status.
LEMMA RepairGoes ==
  ASSUME LinkInv, exec.run.kind = "repair", exec.run.pc # "close",
         exec' \in Executors, SameQueue, exec'.run.kind = "repair", exec'.run.gen = exec.run.gen,
         exec'.run.pc \in RepairSteps, exec'.run.upTo = exec.run.upTo,
         exec'.run.pc \in {"rollback", "restore"} /\ ~exec'.run.threw => IsRepairSuperseded',
         ctl' \in Controllers, ctl'.active = ctl.active, ctl'.current = ctl.current,
         ctl'.deliveries = ctl.deliveries, ctl'.attempts = ctl.attempts, ctl'.closing = ctl.closing,
         \/ ctl'.live = ctl.live /\ ctl'.local = ctl.local
         \/ ctl'.live = "none" /\ ctl'.local = "none"
         \/ GenerationCurrent(exec.run.gen),
         link' \in LinkStates,
         \/ link'.status = link.status
         \/ GenerationCurrent(exec.run.gen) /\ link'.status \in {"live", "repairing"},
         \/ sock' = sock \/ sock' = None
         \/ sock' \in Sockets /\ sock'.next <= feed.head + 1 /\ GenerationCurrent(exec.run.gen),
         RepairAttached',
         ctl'.active /\ ctl'.live = "same" /\ sock' # None => (sock'.up /\ ~sock'.news => link'.online),
         faults' \in Nat, UNCHANGED <<feed, store, held, timers, waiting, fence, init, planned, hist>>
  PROVE  LinkInv'
<1>1. /\ ~exec.ready /\ init.gen # "same" /\ InFlight = {} /\ EventsOf(exec.entries) = {} /\ ctl.deliveries = 0
  BY RepairAlone, Zenon
<1>2. GenerationCurrent(exec.run.gen) => link.status # "paused" /\ ctl.active /\ ~ctl.current
  BY Zenon DEF LinkInv, ControlInv, GenerationCurrent
<1>3. LinkShape'
  <2>1. sock' \in Sockets \cup {None}
    BY Zenon DEF LinkInv, LinkShape
  <2> QED
    BY <2>1, Zenon DEF LinkInv, LinkShape
<1>4. RunShape'
  BY Zenon DEF LinkInv, RunShape, EventSteps, RepairSteps
<1>5. KnownFeed'
  BY Zenon DEF LinkInv, KnownFeed
<1>6. ControlInv'
  <2>1. exec'.ready = exec.ready /\ exec'.entries = exec.entries
    BY Zenon DEF SameQueue
  <2>2. exec'.run.gen # "same" =>
          ~ctl'.active \/ link'.status = "paused" \/ Pending(exec'.entries, "repair")
    BY <1>2, <2>1, Zenon DEF LinkInv, ControlInv, GenerationCurrent
  <2>3. ~ctl'.active =>
       /\ timers' = {} /\ waiting' = {} /\ ~exec'.ready /\ ~ctl'.current
       /\ ctl'.live = "none" /\ ctl'.local = "none" /\ ctl'.attempts = 0 /\ exec'.run.gen # "same"
       /\ planned' => link'.status \in {"initializing", "live"}
    BY <1>2, <2>1, Zenon DEF LinkInv, ControlInv
  <2>4. link'.status = "paused" =>
       /\ timers' = {} /\ waiting' = {} /\ ~exec'.ready /\ ~ctl'.current /\ sock' = None
       /\ exec'.run.gen # "same" /\ init'.gen # "same"
       /\ ~ctl'.closing => ctl'.live = "none" /\ ctl'.local = "none"
    BY <1>1, <1>2, <2>1, Zenon DEF LinkInv, ControlInv
  <2>5. ctl'.closing => ctl'.active /\ link'.status = "paused"
    BY <1>2, Zenon DEF LinkInv, ControlInv
  <2> QED
    BY <1>1, <2>1, <2>2, <2>3, <2>4, <2>5, Zenon DEF ControlInv, RepairAttached
<1>7. AttemptsInv'
  BY Zenon DEF LinkInv, AttemptsInv
<1>8. FlightInv' /\ InFlight' = {}
  BY <1>1, FlightCleared, Zenon DEF SameQueue, Current
<1>9. SettledInv'
  <2>1. exec'.run.pc \notin {"cursor", "commit", "committed"}
    BY Zenon DEF RepairSteps
  <2>2. store.applied \in Nat
    BY Plain, Zenon
  <2> QED
    BY <2>1, <2>2, SettledKept DEF LinkInv, SameOpening
<1>10. ToldInv'
  <2>1. ctl.current => Told' \subseteq Told
    BY <1>2, NothingTold, Zenon
  <2> QED
    BY <1>1, <1>8, <2>1 DEF LinkInv, ToldInv
<1> QED
  BY <1>3, <1>4, <1>5, <1>6, <1>7, <1>8, <1>9, <1>10, Zenon DEF LinkInv

\* The repair goes on to its rollback, or to the handling of its failure.
LEMMA RepairTurns ==
  ASSUME LinkInv, exec.run.kind = "repair", exec.run.pc # "close",
         exec' \in Executors, SameQueue, exec'.run.kind = "repair", exec'.run.gen = exec.run.gen,
         exec'.run.pc \in {"rollback", "restore", "failed", "diagnosed"}, exec'.run.upTo = exec.run.upTo,
         exec'.run.pc \in {"rollback", "restore"} /\ ~exec'.run.threw => IsRepairSuperseded,
         exec'.run.pc = "restore" => sock' = None,
         ctl' = ctl \/ ctl' = Closed(ctl), sock' = sock \/ sock' = None,
         link' \in LinkStates,
         \/ link'.status = link.status /\ link'.online = link.online
         \/ GenerationCurrent(exec.run.gen) /\ link'.status = "repairing" /\ sock' = None,
         faults' \in Nat, UNCHANGED <<feed, store, held, timers, waiting, fence, init, planned, hist>>
  PROVE  LinkInv'
<1>1. ctl \in Controllers
  BY Zenon DEF LinkInv, LinkShape
<1>2. /\ ctl' \in Controllers /\ ctl'.active = ctl.active /\ ctl'.current = ctl.current
      /\ ctl'.deliveries = ctl.deliveries /\ ctl'.attempts = ctl.attempts /\ ctl'.closing = ctl.closing
      /\ \/ ctl'.live = ctl.live /\ ctl'.local = ctl.local
         \/ ctl'.live = "none" /\ ctl'.local = "none"
  BY <1>1, ClosedFields
<1>3. exec'.run.pc \in RepairSteps
  BY Zenon DEF RepairSteps
<1>4. exec'.run.pc \in {"rollback", "restore"} /\ ~exec'.run.threw => IsRepairSuperseded'
  <2>0. link.status = "paused" => link'.status = "paused"
    BY Zenon DEF LinkInv, ControlInv, GenerationCurrent
  <2>1. IsRepairSuperseded => IsRepairSuperseded'
    BY <1>2, <2>0, Zenon DEF IsRepairSuperseded, IsRepairCancelled, HasPending, SameQueue
  <2> QED
    BY <2>1, Zenon
<1>5. RepairAttached'
  <2>1. exec'.run.gen = "same" /\ ctl'.active => ~ctl'.current
    BY <1>2, Zenon DEF LinkInv, ControlInv
  <2> QED
    BY <2>1, Zenon DEF RepairAttached, PassSteps
<1>6. ctl'.active /\ ctl'.live = "same" /\ sock' # None => (sock'.up /\ ~sock'.news => link'.online)
  BY <1>2, Zenon DEF LinkInv, ControlInv
<1> QED
  BY <1>2, <1>3, <1>4, <1>5, <1>6, RepairGoes, Zenon

\* The steps of a repair up to its completion.
LEMMA RepairsKeep ==
  LinkInv /\ (\/ RepairReset \/ RepairAborts \/ RepairOpenPull \/ RepairAttachPull \/ RepairAttachPush
               \/ RepairComplete \/ RepairReady \/ RepairTooLate \/ RepairNotStored) => LinkInv'
<1>RepairResetKeeps.
  ASSUME LinkInv, RepairReset
  PROVE  LinkInv'
  <2> USE <1>RepairResetKeeps
  <2>1. exec.run.pc = "close" /\ UNCHANGED <<feed, store, link, held, waiting, planned, hist, faults>>
    BY Zenon DEF RepairReset
  <2>2. exec.run.kind = "repair"
    BY <2>1, Zenon DEF LinkInv, RunShape, RepairSteps
  <2>3. CASE IsRepairSuperseded
    <3>1. EndRepair(ctl, link.status, FALSE, timers) /\ UNCHANGED <<init, sock>>
      BY <2>3, Zenon DEF RepairReset
    <3> QED
      BY <2>1, <2>2, <2>3, <3>1, RepairStops, Zenon
  <2>4. CASE ~IsRepairSuperseded
    <3> DEFINE x == Fenced(exec)
               q == Consume(x.entries, {"reconcile"})
    <3>1. /\ ctl' = NextGeneration /\ Outdated /\ UNCHANGED <<timers, fence>>
          /\ exec' = [x EXCEPT !.entries = q, !.run.gen = "same", !.run.pc = "read"]
      BY <2>4, Zenon DEF RepairReset
    <3>2. exec \in Executors /\ ctl \in Controllers /\ link \in LinkStates /\ faults \in Nat /\ planned \in BOOLEAN
          /\ fence \in {"none", "go", "stop"} /\ held \subseteq Directions
      BY Zenon DEF LinkInv, LinkShape
    <3>3. /\ x \in Executors /\ x.ready = FALSE /\ x.run \in Runs /\ x.run.kind = exec.run.kind
          /\ x.run.upTo = exec.run.upTo
      BY <3>2, FencedFields, Zenon
    <3>4. x.entries \in Seq(Entries) /\ EventsOf(x.entries) = {}
      BY <3>2, FencedQueue, Zenon
    <3> HIDE DEF x
    <3>5. q \in Seq(Entries) /\ EventsOf(q) = {}
      BY <3>4, ConsumeQueue, Zenon
    <3> HIDE DEF q
    <3>6. /\ exec' \in Executors /\ exec'.ready = FALSE /\ exec'.entries = q /\ exec'.run.kind = x.run.kind
          /\ exec'.run.gen = "same" /\ exec'.run.pc = "read" /\ exec'.run.upTo = x.run.upTo
      BY <3>1, <3>3, <3>5, Zenon DEF Executors, Runs, Generations, RunSteps, PassSteps
    <3>7. RunAfter
      BY <2>2, <3>3, <3>6, Zenon DEF RunAfter
    <3>8. /\ ctl' \in Controllers /\ ctl'.active = ctl.active /\ ctl'.live = Aged(ctl.live) /\ ctl'.current = FALSE
          /\ ctl'.deliveries = 0 /\ ctl'.attempts = ctl.attempts /\ ctl'.closing = ctl.closing
      <4> DEFINE n == NextGeneration
      <4>1. /\ n \in Controllers /\ n.active = ctl.active /\ n.live = Aged(ctl.live) /\ n.current = FALSE
            /\ n.deliveries = 0 /\ n.attempts = ctl.attempts /\ n.closing = ctl.closing
        BY <3>2, NextGenerationFields, Zenon
      <4>2. ctl' = n
        BY <3>1, Zenon
      <4> HIDE DEF n
      <4> QED
        BY <4>1, <4>2, Zenon
    <3>9. init' \in Openings /\ init'.gen # "same" /\ SameOpening /\ sock' = None
      BY <3>1, OutdatedReplaces, Zenon
    <3>10. Replaces
      <4>1. timers' \subseteq timers /\ waiting' \subseteq waiting /\ EventsOf(exec'.entries) = {}
        BY <2>1, <3>1, <3>5, <3>6, Zenon
      <4> QED
        BY <2>1, <3>1, <3>2, <3>6, <3>7, <3>8, <3>9, <4>1, Zenon DEF Replaces
    <3>11. LinkShape' /\ RunShape' /\ KnownFeed' /\ FlightInv' /\ SettledInv' /\ ToldInv'
      BY <3>10, ReplacesKeeps, Zenon
    <3>12. ctl.active /\ link.status # "paused" /\ ~ctl.closing /\ ctl'.live # "same" /\ exec'.run.kind = "repair"
      BY <2>2, <2>4, <3>3, <3>6, <3>8, Zenon
         DEF IsRepairSuperseded, IsRepairCancelled, LinkInv, ControlInv, Aged
    <3>13. ControlInv'
      BY <2>1, <3>6, <3>8, <3>9, <3>12, Zenon DEF ControlInv
    <3>14. AttemptsInv'
      BY <2>1, <2>2, <3>1, <3>6, <3>8, <3>12, Zenon DEF LinkInv, AttemptsInv
    <3> QED
      BY <3>11, <3>13, <3>14, Zenon DEF LinkInv
  <2> QED
    BY <2>3, <2>4, Zenon
<1>RepairAbortsKeeps.
  ASSUME LinkInv, RepairAborts
  PROVE  LinkInv'
  <2> USE <1>RepairAbortsKeeps
  <2>1. /\ exec.run.kind = "repair" /\ ~Continues /\ EndRepair(ctl, link.status, FALSE, timers)
        /\ UNCHANGED <<feed, store, link, held, sock, waiting, init, planned, hist, faults>>
    BY Zenon DEF RepairAborts
  <2>2. IsRepairSuperseded
    BY <2>1, FencedIsSuperseded, Zenon DEF Continues, Passes
  <2> QED
    BY <2>1, <2>2, RepairStops, Zenon
<1>RepairOpenPullKeeps.
  ASSUME LinkInv, RepairOpenPull
  PROVE  LinkInv'
  <2> USE <1>RepairOpenPullKeeps
  <2>1. /\ exec.run.kind = "repair" /\ exec.run.pc = "done" /\ Continues /\ sock' = Subscription /\ Goto("attachPull")
        /\ UNCHANGED <<feed, store, link, ctl, held, timers, waiting, fence, init, planned, hist, faults>>
    BY Zenon DEF RepairOpenPull
  <2>2. exec \in Executors /\ ctl \in Controllers /\ link \in LinkStates /\ faults \in Nat
    BY Zenon DEF LinkInv, LinkShape
  <2>3. /\ RunGoes /\ exec'.run.pc = "attachPull" /\ exec'.run.upTo = exec.run.upTo
        /\ exec'.run.pc \in RepairSteps
    BY <2>1, <2>2, GotoFields, Zenon DEF RunSteps, RepairSteps
  <2>4. GenerationCurrent(exec.run.gen) /\ exec.run.gen = "same" /\ ctl.active
    BY <2>1, Zenon DEF Continues, GenerationCurrent
  <2>5. ctl.live # "same" /\ ~ctl.current
    BY <2>1, <2>4, Zenon DEF LinkInv, ControlInv, PassSteps
  <2>6. sock' \in Sockets /\ sock'.next <= feed.head + 1 /\ sock' # None
    <3>1. feed.head + 1 \in Nat
      BY Plain
    <3> QED
      BY <2>1, <3>1, SubscriptionFields
  <2>7. RepairAttached'
    BY <2>1, <2>3, <2>5, <2>6, Zenon DEF RepairAttached
  <2>8. /\ exec'.run.pc \notin {"rollback", "restore"} /\ exec.run.pc # "close" /\ exec' \in Executors /\ SameQueue
        /\ exec'.run.kind = "repair" /\ exec'.run.gen = exec.run.gen
    BY <2>1, <2>3, Zenon DEF RunGoes, SameRun
  <2> QED
    BY <2>1, <2>2, <2>3, <2>4, <2>5, <2>6, <2>7, <2>8, RepairGoes, Zenon
<1>RepairAttachPullKeeps.
  ASSUME LinkInv, RepairAttachPull
  PROVE  LinkInv'
  <2> USE <1>RepairAttachPullKeeps
  <2>1. /\ exec.run.kind = "repair" /\ exec.run.pc = "attachPull" /\ GenerationCurrent(exec.run.gen)
        /\ link' = [link EXCEPT !.online = TRUE]
        /\ UNCHANGED <<feed, store, held, waiting, init, planned, hist, faults>>
    BY Zenon DEF RepairAttachPull
  <2>2. CASE IsRepairSuperseded
    <3>1. EndRepair(Closed(ctl), link.status, FALSE, timers) /\ sock' = None
      BY <2>2, Zenon DEF RepairAttachPull
    <3> QED
      BY <2>1, <2>2, <3>1, RepairStops, Zenon
  <2>3. CASE ~IsRepairSuperseded
    <3>1. ctl' = [ctl EXCEPT !.live = exec.run.gen] /\ Goto("attachPush") /\ UNCHANGED <<timers, fence, sock>>
      BY <2>3, Zenon DEF RepairAttachPull
    <3>2. exec \in Executors /\ ctl \in Controllers /\ link \in LinkStates /\ faults \in Nat
      BY Zenon DEF LinkInv, LinkShape
    <3>3. /\ RunGoes /\ exec'.run.pc = "attachPush" /\ exec'.run.upTo = exec.run.upTo /\ exec'.run.pc \in RepairSteps
      BY <3>1, <3>2, GotoFields, Zenon DEF RunSteps, RepairSteps
    <3>4. exec.run.gen = "same" /\ ctl.active
      BY <2>1, Zenon DEF GenerationCurrent
    <3>5. /\ ctl' \in Controllers /\ ctl'.live = "same" /\ ctl'.active = ctl.active /\ ctl'.current = ctl.current
          /\ ctl'.deliveries = ctl.deliveries /\ ctl'.attempts = ctl.attempts /\ ctl'.closing = ctl.closing
      BY <3>1, <3>2, <3>4, Zenon DEF Controllers, Generations
    <3>6. link' \in LinkStates /\ link'.status = link.status /\ link'.online = TRUE
      BY <2>1, <3>2, Zenon DEF LinkStates
    <3>7. sock # None /\ ~ctl.current
      BY <2>1, <3>4, Zenon DEF LinkInv, ControlInv
    <3>8. RepairAttached'
      BY <3>1, <3>3, <3>5, <3>7, Zenon DEF RepairAttached, PassSteps
    <3>9. /\ exec'.run.pc \notin {"rollback", "restore"} /\ exec.run.pc # "close" /\ exec' \in Executors /\ SameQueue
          /\ exec'.run.kind = "repair" /\ exec'.run.gen = exec.run.gen
      BY <2>1, <3>3, Zenon DEF RunGoes, SameRun
    <3> QED
      BY <2>1, <3>1, <3>2, <3>3, <3>5, <3>6, <3>8, <3>9, RepairGoes, Zenon
  <2> QED
    BY <2>2, <2>3, Zenon
<1>RepairAttachPushKeeps.
  ASSUME LinkInv, RepairAttachPush
  PROVE  LinkInv'
  <2> USE <1>RepairAttachPushKeeps
  <2>1. /\ exec.run.kind = "repair" /\ exec.run.pc = "attachPush"
        /\ UNCHANGED <<feed, store, link, held, waiting, init, planned, hist, faults>>
    BY Zenon DEF RepairAttachPush
  <2>2. CASE IsRepairSuperseded \/ ~GenerationCurrent(exec.run.gen)
    <3>1. EndRepair(Closed(ctl), link.status, FALSE, timers) /\ sock' = None
      BY <2>2, Zenon DEF RepairAttachPush
    <3>2. IsRepairSuperseded
      BY <2>1, <2>2, FencedIsSuperseded, Zenon
    <3> QED
      BY <2>1, <3>1, <3>2, RepairStops, Zenon
  <2>3. CASE ~(IsRepairSuperseded \/ ~GenerationCurrent(exec.run.gen))
    <3>1. ctl' = [ctl EXCEPT !.local = exec.run.gen] /\ Goto("complete") /\ UNCHANGED <<timers, fence, sock>>
      BY <2>3, Zenon DEF RepairAttachPush
    <3>2. exec \in Executors /\ ctl \in Controllers /\ link \in LinkStates /\ faults \in Nat
      BY Zenon DEF LinkInv, LinkShape
    <3>3. /\ RunGoes /\ exec'.run.pc = "complete" /\ exec'.run.upTo = exec.run.upTo /\ exec'.run.pc \in RepairSteps
      BY <3>1, <3>2, GotoFields, Zenon DEF RunSteps, RepairSteps
    <3>4. GenerationCurrent(exec.run.gen) /\ exec.run.gen = "same" /\ ctl.active
      BY <2>3, Zenon DEF GenerationCurrent
    <3>5. /\ ctl' \in Controllers /\ ctl'.live = ctl.live /\ ctl'.local = "same" /\ ctl'.active = ctl.active
          /\ ctl'.current = ctl.current /\ ctl'.deliveries = ctl.deliveries /\ ctl'.attempts = ctl.attempts
          /\ ctl'.closing = ctl.closing
      BY <3>1, <3>2, <3>4, Zenon DEF Controllers, Generations
    <3>6. sock # None /\ ~ctl.current /\ ctl.live = "same"
      BY <2>1, <3>4, Zenon DEF LinkInv, ControlInv
    <3>7. RepairAttached'
      BY <3>1, <3>3, <3>5, <3>6, Zenon DEF RepairAttached, PassSteps
    <3>8. /\ exec'.run.pc \notin {"rollback", "restore"} /\ exec.run.pc # "close" /\ exec' \in Executors /\ SameQueue
          /\ exec'.run.kind = "repair" /\ exec'.run.gen = exec.run.gen
      BY <2>1, <3>3, Zenon DEF RunGoes, SameRun
    <3>9. ctl'.active /\ ctl'.live = "same" /\ sock' # None => (sock'.up /\ ~sock'.news => link'.online)
      BY <2>1, <3>1, <3>5, Zenon DEF LinkInv, ControlInv
    <3> QED
      BY <2>1, <3>1, <3>2, <3>3, <3>4, <3>5, <3>7, <3>8, <3>9, RepairGoes, Zenon
  <2> QED
    BY <2>2, <2>3, Zenon
<1>RepairCompleteKeeps.
  ASSUME LinkInv, RepairComplete
  PROVE  LinkInv'
  <2> USE <1>RepairCompleteKeeps
  <2>1. /\ exec.run.kind = "repair" /\ exec.run.pc = "complete"
        /\ UNCHANGED <<feed, store, ctl, held, timers, sock, waiting, fence, init, planned, hist, faults>>
    BY Zenon DEF RepairComplete
  <2>2. exec \in Executors /\ ctl \in Controllers /\ link \in LinkStates /\ faults \in Nat
    BY Zenon DEF LinkInv, LinkShape
  <2>3. CASE IsRepairSuperseded
    <3>1. Goto("rollback") /\ link' = link
      BY <2>3, Zenon DEF RepairComplete
    <3>2. RunGoes /\ exec'.run.pc = "rollback" /\ exec'.run.upTo = exec.run.upTo
      BY <2>2, <3>1, GotoFields, Zenon DEF RunSteps, RepairSteps
    <3>3. /\ exec'.run.pc \in {"rollback", "restore", "failed", "diagnosed"} /\ exec'.run.pc # "restore"
          /\ exec.run.pc # "close" /\ exec' \in Executors /\ SameQueue
          /\ exec'.run.kind = "repair" /\ exec'.run.gen = exec.run.gen
      BY <2>1, <3>2, Zenon DEF RunGoes, SameRun
    <3> QED
      BY <2>1, <2>2, <2>3, <3>1, <3>2, <3>3, RepairTurns, Zenon
  <2>4. CASE ~IsRepairSuperseded
    <3>1. /\ exec' = [exec EXCEPT !.run.recovery = link.recovery, !.run.pc = "persist"]
          /\ link' = [status |-> "live", online |-> TRUE, recovery |-> "none"]
      BY <2>4, Zenon DEF RepairComplete
    <3>2. link' \in LinkStates /\ link'.status = "live" /\ link'.online = TRUE
      BY <3>1, Zenon DEF LinkStates, Statuses, Recoveries
    <3>3. exec.run \in Runs /\ link.recovery \in Recoveries
      BY Typed, Zenon DEF LinkInv
    <3>4. /\ exec' \in Executors /\ SameQueue /\ exec'.run.pc = "persist" /\ exec'.run.kind = exec.run.kind
          /\ exec'.run.gen = exec.run.gen /\ exec'.run.upTo = exec.run.upTo
      BY <2>2, <3>1, <3>3, Zenon DEF Executors, Runs, RunSteps, RepairSteps, SameQueue
    <3>5. GenerationCurrent(exec.run.gen) /\ exec.run.gen = "same" /\ ctl.active
      BY <2>1, <2>4, FencedIsSuperseded, Zenon DEF GenerationCurrent
    <3>6. sock # None /\ ~ctl.current /\ ctl.live = "same" /\ ctl.local = "same"
      BY <2>1, <3>5, Zenon DEF LinkInv, ControlInv
    <3>7. RepairAttached'
      BY <2>1, <3>2, <3>4, <3>6, Zenon DEF RepairAttached, PassSteps
    <3>8. /\ exec'.run.pc \notin {"rollback", "restore"} /\ exec.run.pc # "close" /\ exec'.run.pc \in RepairSteps
          /\ exec'.run.kind = "repair"
      BY <2>1, <3>4, Zenon DEF RepairSteps
    <3> QED
      BY <2>1, <2>2, <3>2, <3>4, <3>5, <3>7, <3>8, RepairGoes, Zenon
  <2> QED
    BY <2>3, <2>4, Zenon
<1>RepairReadyKeeps.
  ASSUME LinkInv, RepairReady
  PROVE  LinkInv'
  <2> USE <1>RepairReadyKeeps
  <2>1. /\ exec.run.kind = "repair" /\ exec.run.pc = "persist" /\ ~IsRepairSuperseded
        /\ exec' = [exec EXCEPT !.run = NoRun, !.ready = TRUE] /\ ctl' = [ctl EXCEPT !.attempts = 0]
        /\ held' = {} \cup (IF exec.run.refused THEN {"push"} ELSE {})
        /\ timers' = (timers \ {"repair"})
             \cup (IF exec.run.refused \/ ~HasPending("reconcile") THEN {"reconcile"} ELSE {})
        /\ fence' = "none"
        /\ UNCHANGED <<feed, store, link, sock, waiting, init, planned, hist, faults>>
    BY Zenon DEF RepairReady, HoldOnRefusal
  <2>2. /\ exec \in Executors /\ ctl \in Controllers /\ timers \subseteq {"reconcile", "repair"}
        /\ store.applied \in Nat /\ 0 <= feed.head
    BY Plain, Zenon DEF LinkInv, LinkShape
  <2>3. /\ ~exec.ready /\ init.gen # "same" /\ InFlight = {} /\ EventsOf(exec.entries) = {} /\ ctl.deliveries = 0
    BY <2>1, RepairAlone, Zenon
  <2>4. exec' \in Executors /\ exec'.ready = TRUE /\ exec'.entries = exec.entries /\ exec'.run = NoRun
    BY <2>1, <2>2, NoRunFields, Zenon DEF Executors
  <2>5. exec'.run.kind = "none" /\ exec'.run.pc = "idle" /\ exec'.run.gen = "none" /\ exec'.run.upTo = 0
    BY <2>4, NoRunFields, Zenon
  <2>6. /\ ctl' \in Controllers /\ ctl'.active = ctl.active /\ ctl'.live = ctl.live /\ ctl'.local = ctl.local
        /\ ctl'.current = ctl.current /\ ctl'.deliveries = ctl.deliveries /\ ctl'.attempts = 0
        /\ ctl'.closing = ctl.closing
    <3>1. 0 \in Nat
      BY Zenon
    <3> QED
      BY <2>1, <2>2, <3>1, Zenon DEF Controllers
  <2>7. ctl.active /\ link.status # "paused" /\ ~Pending(exec.entries, "repair")
    BY <2>1, Zenon DEF IsRepairSuperseded, IsRepairCancelled, HasPending
  <2>8. exec.run.gen = "same"
    BY <2>1, FencedIsSuperseded, Zenon DEF GenerationCurrent
  <2>9. sock # None /\ ctl.live = "same" /\ ctl.local = "same" /\ link.status = "live"
    BY <2>1, <2>7, <2>8, Zenon DEF LinkInv, ControlInv
  <2>10. "repair" \notin timers' /\ timers' \subseteq {"reconcile", "repair"} /\ held' \subseteq Directions
    BY <2>1, <2>2, Zenon DEF Directions
  <2>11. LinkShape'
    BY <2>1, <2>4, <2>6, <2>10, Zenon DEF LinkInv, LinkShape
  <2>12. RunShape' /\ KnownFeed'
    BY <2>1, <2>2, <2>5, Zenon DEF LinkInv, RunShape, KnownFeed, EventSteps, RepairSteps
  <2>13. ControlInv'
    <3>1. ~ctl.closing /\ (sock.up /\ ~sock.news => link.online)
      BY <2>7, <2>9, Zenon DEF LinkInv, ControlInv
    <3> QED
      BY <2>1, <2>3, <2>4, <2>5, <2>6, <2>7, <2>9, <2>10, <3>1, Zenon DEF ControlInv
  <2>14. AttemptsInv'
    BY <2>1, <2>5, <2>6, Bounds DEF AttemptsInv
  <2>15. FlightInv' /\ InFlight' = {}
    BY <2>3, <2>4, <2>5, <2>6, FlightCleared, Zenon DEF Current
  <2>16. SettledInv'
    BY <2>1, <2>2, <2>5, SettledKept DEF LinkInv, SameOpening
  <2>17. ToldInv'
    <3>1. Told' \subseteq Told
      BY <2>1, NothingTold, Zenon
    <3> QED
      BY <2>1, <2>3, <2>4, <2>5, <2>6, <2>15, <3>1, ToldKept, Zenon DEF LinkInv, SameOpening
  <2> QED
    BY <2>11, <2>12, <2>13, <2>14, <2>15, <2>16, <2>17, Zenon DEF LinkInv
\* completeRepair does not get its status stored, or only too late.
<1>NotCompletedKeeps.
  ASSUME LinkInv, RepairTooLate \/ RepairNotStored
  PROVE  LinkInv'
  <2> USE <1>NotCompletedKeeps
  <2>1. /\ exec.run.pc = "persist"
        /\ UNCHANGED <<feed, store, link, ctl, held, timers, sock, waiting, fence, init, planned, hist>>
    BY Zenon DEF RepairTooLate, RepairNotStored
  <2>2. exec \in Executors /\ link \in LinkStates /\ faults \in Nat /\ exec.run \in Runs
    BY Typed, Zenon DEF LinkInv, LinkShape
  <2>3. exec.run.kind = "repair" /\ exec.run.pc # "close"
    BY <2>1, Zenon DEF LinkInv, RunShape, RepairSteps
  <2>4. /\ exec' \in Executors /\ SameQueue /\ exec'.run.kind = exec.run.kind /\ exec'.run.gen = exec.run.gen
        /\ exec'.run.pc = "rollback" /\ exec'.run.upTo = exec.run.upTo
        /\ ~exec'.run.threw => IsRepairSuperseded
        /\ faults' \in Nat
    <3>1. CASE RepairTooLate
      <4>1. Goto("rollback") /\ IsRepairSuperseded /\ faults' = faults
        BY <3>1, Zenon DEF RepairTooLate
      <4> QED
        BY <2>2, <4>1, GotoFields, Zenon DEF RunGoes, SameRun, RunSteps, RepairSteps
    <3>2. CASE RepairNotStored
      <4>1. exec' = [exec EXCEPT !.run.pc = "rollback", !.run.threw = TRUE] /\ faults' = faults + 1
        BY <3>2, Zenon DEF RepairNotStored
      <4>2. /\ exec' \in Executors /\ SameQueue /\ exec'.run.kind = exec.run.kind /\ exec'.run.gen = exec.run.gen
            /\ exec'.run.pc = "rollback" /\ exec'.run.upTo = exec.run.upTo /\ exec'.run.threw = TRUE
        BY <2>2, <4>1, Zenon DEF Executors, Runs, SameQueue, RunSteps, RepairSteps
      <4> QED
        BY <2>2, <4>1, <4>2
    <3> QED
      BY <3>1, <3>2, Zenon
  <2>5. exec'.run.pc \in {"rollback", "restore", "failed", "diagnosed"} /\ exec'.run.pc # "restore"
    BY <2>4, Zenon
  <2> QED
    BY <2>1, <2>2, <2>3, <2>4, <2>5, RepairTurns, Zenon
<1> QED
  BY <1>RepairResetKeeps, <1>RepairAbortsKeeps, <1>RepairOpenPullKeeps, <1>RepairAttachPullKeeps,
     <1>RepairAttachPushKeeps, <1>RepairCompleteKeeps, <1>RepairReadyKeeps, <1>NotCompletedKeeps, Zenon

\* The steps of a repair that was not completed or failed.
LEMMA FailedRepairsKeep ==
  LinkInv /\ (RepairRollback \/ RepairRestore \/ RepairFails \/ RepairDiagnose \/ RepairGivesUp) => LinkInv'
\* The repair ends or goes on to the handling of its failure.
<1>RollbackEndsKeeps.
  ASSUME LinkInv, exec.run.pc \in {"rollback", "restore"}, sock' = sock,
         link' \in LinkStates,
         \/ link'.status = link.status /\ link'.online = link.online
         \/ /\ GenerationCurrent(exec.run.gen) /\ link.status = "live"
            /\ link'.status = "repairing" /\ sock' = None,
         IF exec.run.threw THEN Goto("failed") /\ UNCHANGED <<ctl, timers, fence>>
         ELSE EndRepair(ctl, link'.status, FALSE, timers),
         UNCHANGED <<feed, store, held, waiting, init, planned, hist, faults>>
  PROVE  LinkInv'
  <2> USE <1>RollbackEndsKeeps
  <2>1. exec \in Executors /\ ctl \in Controllers /\ faults \in Nat
    BY Zenon DEF LinkInv, LinkShape
  <2>2. exec.run.kind = "repair" /\ exec.run.pc # "close"
    BY Zenon DEF LinkInv, RunShape, RepairSteps
  <2>3. CASE exec.run.threw
    <3>1. Goto("failed") /\ UNCHANGED <<ctl, timers, fence>>
      BY <2>3, Zenon
    <3>2. RunGoes /\ exec'.run.pc = "failed" /\ exec'.run.upTo = exec.run.upTo
      BY <2>1, <3>1, GotoFields, Zenon DEF RunSteps, RepairSteps
    <3>3. /\ exec'.run.pc \in {"rollback", "restore", "failed", "diagnosed"}
          /\ exec'.run.pc \notin {"rollback", "restore"} /\ exec'.run.pc # "restore"
          /\ exec' \in Executors /\ SameQueue /\ exec'.run.kind = "repair" /\ exec'.run.gen = exec.run.gen
      BY <2>2, <3>2, Zenon DEF RunGoes, SameRun
    <3> QED
      BY <2>1, <2>2, <3>1, <3>2, <3>3, RepairTurns, Zenon
  <2>4. CASE ~exec.run.threw
    <3>1. EndRepair(ctl, link'.status, FALSE, timers)
      BY <2>4, Zenon
    <3>2. HasPending("repair") \/ ctl.attempts < MaxAttempts \/ link.status = "paused"
      BY <2>2, <2>4, SupersededLeaves, Zenon DEF LinkInv, AttemptsInv
    <3>3. /\ link'.status = link.status \/ (ctl.active /\ link.status = "live" /\ link'.status = "repairing")
          /\ link'.online = link.online \/ link'.online = TRUE \/ sock' = None
          /\ ctl.attempts \in {ctl.attempts, 0}
      BY Zenon DEF GenerationCurrent
    <3> QED
      BY <2>1, <2>2, <3>1, <3>2, <3>3, EndRepairKeeps, Zenon
  <2> QED
    BY <2>3, <2>4, Zenon
<1>RepairRollbackKeeps.
  ASSUME LinkInv, RepairRollback
  PROVE  LinkInv'
  <2> USE <1>RepairRollbackKeeps
  <2> DEFINE undoes == /\ exec.run.threw \/ fence = "stop"
                       /\ GenerationCurrent(exec.run.gen) /\ link.status \in {"repairing", "live"}
  <2>1. /\ exec.run.pc = "rollback" /\ UNCHANGED <<feed, store, link, held, waiting, init, planned, hist, faults>>
        /\ IF undoes
           THEN ctl' = Closed(ctl) /\ sock' = None /\ Goto("restore") /\ UNCHANGED <<timers, fence>>
           ELSE RollbackEnds(ctl) /\ UNCHANGED sock
    BY Zenon DEF RepairRollback
  <2>2. exec \in Executors /\ ctl \in Controllers /\ link \in LinkStates /\ faults \in Nat
    BY Zenon DEF LinkInv, LinkShape
  <2>3. exec.run.kind = "repair" /\ exec.run.pc # "close"
    BY <2>1, Zenon DEF LinkInv, RunShape, RepairSteps
  <2> HIDE DEF undoes
  <2>4. CASE undoes
    <3>1. ctl' = Closed(ctl) /\ sock' = None /\ Goto("restore") /\ UNCHANGED <<timers, fence>>
      BY <2>1, <2>4, Zenon
    <3>2. RunGoes /\ exec'.run.pc = "restore" /\ exec'.run.upTo = exec.run.upTo
      BY <2>2, <3>1, GotoFields, Zenon DEF RunSteps, RepairSteps
    <3>3. /\ exec'.run.pc \in {"rollback", "restore", "failed", "diagnosed"} /\ exec'.run.threw = exec.run.threw
          /\ exec' \in Executors /\ SameQueue /\ exec'.run.kind = "repair" /\ exec'.run.gen = exec.run.gen
      BY <2>3, <3>2, Zenon DEF RunGoes, SameRun
    <3>4. exec'.run.pc \in {"rollback", "restore"} /\ ~exec'.run.threw => IsRepairSuperseded
      BY <2>1, <3>3, Zenon DEF LinkInv, AttemptsInv
    <3>5. link'.status = link.status /\ link'.online = link.online
      BY <2>1, Zenon
    <3> QED
      BY <2>1, <2>2, <2>3, <3>1, <3>2, <3>3, <3>4, <3>5, RepairTurns, Zenon
  <2>5. CASE ~undoes
    <3>1. sock' = sock /\ link' \in LinkStates /\ link'.status = link.status /\ link'.online = link.online
      BY <2>1, <2>2, <2>5, Zenon
    <3>2. IF exec.run.threw THEN Goto("failed") /\ UNCHANGED <<ctl, timers, fence>>
          ELSE EndRepair(ctl, link'.status, FALSE, timers)
      BY <2>1, <2>5, Zenon DEF RollbackEnds
    <3>3. exec.run.pc \in {"rollback", "restore"}
      BY <2>1, Zenon
    <3> QED
      BY <2>1, <3>1, <3>2, <3>3, <1>RollbackEndsKeeps, Zenon
  <2> QED
    BY <2>4, <2>5, Zenon
<1>RepairRestoreKeeps.
  ASSUME LinkInv, RepairRestore
  PROVE  LinkInv'
  <2> USE <1>RepairRestoreKeeps
  <2>1. /\ exec.run.pc = "restore" /\ UNCHANGED <<feed, store, held, sock, waiting, init, planned, hist, faults>>
        /\ link' = IF GenerationCurrent(exec.run.gen) /\ link.status = "live"
                   THEN [status |-> "repairing", online |-> FALSE, recovery |-> exec.run.recovery] ELSE link
        /\ IF exec.run.threw THEN Goto("failed") /\ UNCHANGED <<ctl, timers, fence>>
           ELSE EndRepair(ctl, link'.status, FALSE, timers)
    BY Zenon DEF RepairRestore
  <2>2. link \in LinkStates /\ exec.run \in Runs
    BY Typed, Zenon DEF LinkInv, LinkShape
  <2>3. exec.run.kind = "repair" /\ exec.run.pc \in {"rollback", "restore"}
    BY <2>1, Zenon DEF LinkInv, RunShape, RepairSteps
  <2>4. /\ link' \in LinkStates
        /\ \/ link'.status = link.status /\ link'.online = link.online
           \/ GenerationCurrent(exec.run.gen) /\ link.status = "live" /\ link'.status = "repairing" /\ sock' = None
    <3>1. CASE GenerationCurrent(exec.run.gen) /\ link.status = "live"
      <4>1. link' = [status |-> "repairing", online |-> FALSE, recovery |-> exec.run.recovery]
        BY <2>1, <3>1, Zenon
      <4>2. exec.run.recovery \in Recoveries
        BY <2>2, TypedRun, Zenon
      <4>3. link' \in LinkStates /\ link'.status = "repairing"
        BY <4>1, <4>2, Zenon DEF LinkStates, Statuses
      <4>4. sock' = None
        BY <2>1, <2>3, <3>1, Zenon DEF LinkInv, ControlInv, GenerationCurrent
      <4> QED
        BY <3>1, <4>3, <4>4, Zenon
    <3>2. CASE ~(GenerationCurrent(exec.run.gen) /\ link.status = "live")
      BY <2>1, <2>2, <3>2, Zenon
    <3> QED
      BY <3>1, <3>2, Zenon
  <2> QED
    BY <2>1, <2>3, <2>4, <1>RollbackEndsKeeps, Zenon
<1>RepairFailsKeeps.
  ASSUME LinkInv, RepairFails
  PROVE  LinkInv'
  <2> USE <1>RepairFailsKeeps
  <2>1. /\ exec.run.kind = "repair" /\ exec.run.pc \in {"read", "push", "done", "attachPull", "attachPush"}
        /\ faults' = (IF faults < MaxFaults THEN faults + 1 ELSE faults) /\ Goto("failed")
        /\ ctl' = (IF exec.run.pc = "attachPush" THEN Closed(ctl) ELSE ctl) /\ sock' = None
        /\ UNCHANGED <<feed, store, link, held, timers, waiting, fence, init, planned, hist>>
    BY Zenon DEF RepairFails
  <2>2. exec \in Executors /\ link \in LinkStates /\ faults \in Nat
    BY Zenon DEF LinkInv, LinkShape
  <2>3. RunGoes /\ exec'.run.pc = "failed" /\ exec'.run.upTo = exec.run.upTo
    BY <2>1, <2>2, GotoFields, Zenon DEF RunSteps, RepairSteps
  <2>4. /\ exec'.run.pc \in {"rollback", "restore", "failed", "diagnosed"}
        /\ exec'.run.pc \notin {"rollback", "restore"} /\ exec'.run.pc # "restore" /\ exec.run.pc # "close"
        /\ exec' \in Executors /\ SameQueue /\ exec'.run.kind = "repair" /\ exec'.run.gen = exec.run.gen
    BY <2>1, <2>3, Zenon DEF RunGoes, SameRun
  <2>5. faults' \in Nat /\ (ctl' = ctl \/ ctl' = Closed(ctl)) /\ link' \in LinkStates
        /\ link'.status = link.status /\ link'.online = link.online
    BY <2>1, <2>2, SMTT(20)
  <2> QED
    BY <2>1, <2>3, <2>4, <2>5, RepairTurns, Zenon
<1>RepairDiagnoseKeeps.
  ASSUME LinkInv, RepairDiagnose
  PROVE  LinkInv'
  <2> USE <1>RepairDiagnoseKeeps
  <2>1. exec.run.pc = "failed" /\ UNCHANGED <<feed, store, held, sock, waiting, init, planned, hist, faults>>
    BY Zenon DEF RepairDiagnose
  <2>2. exec.run.kind = "repair" /\ exec.run.pc # "close"
    BY <2>1, Zenon DEF LinkInv, RunShape, RepairSteps
  <2>3. CASE IsRepairSuperseded
    <3>1. EndRepair(ctl, link.status, FALSE, timers) /\ link' = link
      BY <2>3, Zenon DEF RepairDiagnose
    <3> QED
      BY <2>1, <2>2, <2>3, <3>1, RepairStops, Zenon
  <2>4. CASE ~IsRepairSuperseded
    <3>1. PICK recovery \in {"retryable", "terminal"} :
            /\ link' = [link EXCEPT !.recovery = recovery]
            /\ exec' = [exec EXCEPT !.run.recovery = recovery, !.run.gen = "same", !.run.pc = "diagnosed"]
      BY <2>4, Zenon DEF RepairDiagnose
    <3>2. UNCHANGED <<ctl, timers, fence>>
      BY <2>4, Zenon DEF RepairDiagnose
    <3>3. exec \in Executors /\ link \in LinkStates /\ faults \in Nat /\ exec.run \in Runs
      BY Typed, Zenon DEF LinkInv, LinkShape
    <3>4. recovery \in Recoveries
      BY Zenon DEF Recoveries
    <3>5. link' \in LinkStates /\ link'.status = link.status /\ link'.online = link.online
      BY <3>1, <3>3, <3>4, Zenon DEF LinkStates
    <3>6. /\ exec' \in Executors /\ SameQueue /\ exec'.run.kind = exec.run.kind /\ exec'.run.gen = "same"
          /\ exec'.run.pc = "diagnosed" /\ exec'.run.upTo = exec.run.upTo
      BY <3>1, <3>3, <3>4, Zenon DEF Executors, Runs, SameQueue, RunSteps, RepairSteps, Generations
    <3>7. exec.run.gen = "same"
      BY <2>2, <2>4, FencedIsSuperseded, Zenon DEF GenerationCurrent
    <3>8. /\ exec'.run.pc \in {"rollback", "restore", "failed", "diagnosed"}
          /\ exec'.run.pc \notin {"rollback", "restore"} /\ exec'.run.pc # "restore"
          /\ exec'.run.kind = "repair" /\ exec'.run.gen = exec.run.gen
      BY <2>2, <3>6, <3>7, Zenon
    <3> QED
      BY <2>1, <2>2, <3>2, <3>3, <3>5, <3>6, <3>8, RepairTurns, Zenon
  <2> QED
    BY <2>3, <2>4, Zenon
<1>RepairGivesUpKeeps.
  ASSUME LinkInv, RepairGivesUp
  PROVE  LinkInv'
  <2> USE <1>RepairGivesUpKeeps
  <2> DEFINE terminal == exec.run.recovery = "terminal"
             exhausted == ctl.attempts >= MaxAttempts
             finish == /\ terminal /\ fence = "stop" /\ GenerationCurrent(exec.run.gen)
                       /\ link.status = "repairing" /\ ~HasPending("repair")
             ended == [exec EXCEPT !.run = NoRun]
             controller == IF exhausted THEN [ctl EXCEPT !.attempts = 0] ELSE ctl
  <2>1. exec.run.pc = "diagnosed" /\ UNCHANGED <<feed, store, planned, hist, faults>>
    BY Zenon DEF RepairGivesUp
  <2>2. \/ /\ IsRepairSuperseded
           /\ EndRepair(ctl, link.status, FALSE, timers) /\ UNCHANGED <<link, held, waiting, init, sock>>
        \/ EnterPause(ended, "terminal") /\ fence' = "none"
        \/ /\ ~IsRepairSuperseded
           /\ EndRepair(controller, link.status, ~exhausted, timers)
           /\ UNCHANGED <<link, held, waiting, init, sock>>
    <3>1. CASE IsRepairSuperseded /\ ~finish
      BY <3>1, Zenon DEF RepairGivesUp
    <3>2. CASE terminal /\ (finish \/ ~IsRepairSuperseded)
      BY <3>2, Zenon DEF RepairGivesUp
    <3>3. CASE ~(IsRepairSuperseded /\ ~finish) /\ ~(terminal /\ (finish \/ ~IsRepairSuperseded))
      BY <3>3, Zenon DEF RepairGivesUp
    <3> QED
      BY <3>1, <3>2, <3>3, Zenon
  <2>3. exec.run.kind = "repair"
    BY <2>1, Zenon DEF LinkInv, RunShape, RepairSteps
  <2>4. exec \in Executors /\ ctl \in Controllers /\ link \in LinkStates /\ ctl.attempts \in Nat /\ MaxAttempts \in Nat
        /\ MaxAttempts > 0
    BY Typed, Bounds, Zenon DEF LinkInv, LinkShape
  <2>5. CASE /\ IsRepairSuperseded
             /\ EndRepair(ctl, link.status, FALSE, timers) /\ UNCHANGED <<link, held, waiting, init, sock>>
    BY <2>1, <2>3, <2>5, RepairStops, Zenon
  <2>6. CASE EnterPause(ended, "terminal") /\ fence' = "none"
    <3>1. ended \in Executors /\ ended.run = NoRun /\ "terminal" \in Recoveries
      BY <2>4, NoRunFields, Zenon DEF Executors, Recoveries
    <3> HIDE DEF ended
    <3> QED
      BY <2>1, <2>6, <3>1, EnterPauseKeeps, Zenon
  <2>7. CASE /\ ~IsRepairSuperseded
             /\ EndRepair(controller, link.status, ~exhausted, timers)
             /\ UNCHANGED <<link, held, waiting, init, sock>>
    <3>1. /\ controller \in Controllers /\ controller.active = ctl.active /\ controller.closing = ctl.closing
          /\ controller.current = ctl.current /\ controller.deliveries = ctl.deliveries
          /\ controller.live = ctl.live /\ controller.local = ctl.local
          /\ controller.attempts = IF exhausted THEN 0 ELSE ctl.attempts
      <4> HIDE DEF exhausted
      <4>1. 0 \in Nat
        BY Zenon
      <4>2. CASE exhausted
        BY <2>4, <4>1, <4>2, Zenon DEF Controllers
      <4>3. CASE ~exhausted
        BY <2>4, <4>3, Zenon
      <4> QED
        BY <4>2, <4>3, Zenon
    <3> HIDE DEF controller
    <3>2. controller.attempts < MaxAttempts /\ controller.attempts \in {ctl.attempts, 0}
      BY <2>4, <3>1
    <3> HIDE DEF exhausted
    <3>3. EndRepair(controller, link'.status, ~exhausted, timers) /\ link' \in LinkStates
          /\ link'.status = link.status /\ link'.online = link.online /\ sock' = sock
      BY <2>4, <2>7, Zenon
    <3> QED
      BY <2>1, <2>3, <2>7, <3>1, <3>2, <3>3, EndRepairKeeps, Zenon
  <2> QED
    BY <2>2, <2>5, <2>6, <2>7, Zenon
<1> QED
  BY <1>RepairRollbackKeeps, <1>RepairRestoreKeeps, <1>RepairFailsKeeps, <1>RepairDiagnoseKeeps,
     <1>RepairGivesUpKeeps, Zenon

-----------------------------------------------------------------------------
(* The theorems. *)

LEMMA LinkInit == Init => LinkInv
<1> SUFFICES ASSUME Init PROVE LinkInv
  BY Zenon
<1>1. /\ ctl = NewController /\ exec = NewExecutor /\ init = Opening /\ sock = None
      /\ held = {} /\ timers = {} /\ waiting = {} /\ fence = "none" /\ planned = TRUE /\ faults = 0
  BY Zenon DEF Init
<1>2. /\ ctl \in Controllers /\ ctl.active = TRUE /\ ctl.live = "none" /\ ctl.local = "none"
      /\ ctl.current = FALSE /\ ctl.deliveries = 0 /\ ctl.attempts = 0 /\ ctl.closing = FALSE
      /\ exec \in Executors /\ exec.ready = FALSE /\ exec.entries = <<>> /\ exec.run = NoRun
      /\ init \in Openings /\ init.pc = "openPull" /\ init.gen = "same" /\ init.upTo = 0
  BY <1>1, NewFields, Zenon
<1>3. /\ exec.run.kind = "none" /\ exec.run.pc = "idle" /\ exec.run.upTo = 0 /\ exec.run.gen = "none"
      /\ EventsOf(exec.entries) = {} /\ ~Pending(exec.entries, "repair")
  BY <1>2, NewFields, NoRunFields, Zenon
<1>4. 0 \in 0 .. MaxHead /\ 0 \in 0 .. MaxLocal /\ {} \in SUBSET (1 .. MaxHead) /\ 0 \in Nat
  BY Bounds
<1>5. feed \in Feeds /\ feed.head = 0
  BY <1>4, Zenon DEF Init, Feeds
<1>6. store \in Stores /\ store.admitted = {} /\ store.applied = 0
  BY <1>4, Zenon DEF Init, Stores
<1>7. link \in LinkStates /\ link.status = "initializing"
  BY Zenon DEF Init, LinkStates, Statuses, Recoveries
<1>8. hist \in Histories /\ hist.owed = 0
  BY <1>4, Zenon DEF Init, Histories
<1>9. LinkShape
  BY <1>1, <1>2, <1>4, <1>5, <1>6, <1>7, <1>8, Zenon DEF LinkShape
<1>10. RunShape /\ KnownFeed
  BY <1>1, <1>2, <1>3, <1>5, <1>8 DEF RunShape, KnownFeed, EventSteps, RepairSteps
<1>11. ControlInv
  BY <1>1, <1>2, <1>3, <1>7, Zenon DEF ControlInv
<1>12. AttemptsInv
  BY <1>1, <1>2, <1>3, Bounds DEF AttemptsInv
<1>13. FlightInv
  <2>1. InFlight = {}
    BY <1>3, Zenon DEF InFlight, Current
  <2>2. Cardinality(InFlight) = 0
    BY <2>1, FS_EmptySet, Zenon
  <2> QED
    BY <1>2, <1>3, <2>1, <2>2 DEF FlightInv, Ascending, Current
<1>14. SettledInv
  BY <1>2, <1>3, <1>6 DEF SettledInv
<1>15. ToldInv
  BY <1>2, <1>3 DEF ToldInv
<1> QED
  BY <1>9, <1>10, <1>11, <1>12, <1>13, <1>14, <1>15, Zenon DEF LinkInv

LEMMA LinkStep ==
  ASSUME LinkInv, [Next]_vars
  PROVE  LinkInv'
<1>1. CASE Executor
  BY <1>1, StartsKeep, PassesKeep, DeliveriesKeep, RepairsKeep, FailedRepairsKeep, SchedulesKeep, Zenon
     DEF Executor
<1>2. CASE Failures
  BY <1>2, PassesKeep, RepairsKeep, FailedRepairsKeep, TransportKeeps, SchedulesKeep, RequestsKeep, EndsKeep,
     Zenon DEF Failures
<1>3. CASE Initialization \/ Receive
  BY <1>3, InitializationKeeps, TransportKeeps, Zenon DEF Receive
<1>4. CASE Supervise \/ DeadlineOver \/ ReconcileTimer \/ RepairTimer \/ SettleReconciles \/ RemoteChange \/ LocalChange
  BY <1>4, SchedulesKeep, Zenon
<1>5. CASE ClosePaused \/ EventSettles \/ Reinitialize \/ Resubscribe
  BY <1>5, EndsKeep, RequestsKeep, TransportKeeps, Zenon
<1>6. CASE RetryFailedRepair(FALSE) \/ RetryFailedRepair(TRUE) \/ UNCHANGED vars
  BY <1>6, RequestsKeep, Zenon
<1> QED
  BY <1>1, <1>2, <1>3, <1>4, <1>5, <1>6, Zenon DEF Next, Progress

\* The inductive invariant holds in every state, for every bound on the feeds
\* and the failures and every limit of at least two repair attempts.
THEOREM LinkInvariant == Spec => []LinkInv
<1>1. Init => LinkInv
  BY LinkInit, Zenon
<1>2. LinkInv /\ [Next]_vars => LinkInv'
  BY LinkStep, Zenon
<1> QED
  BY <1>1, <1>2, PTL DEF Spec

\* The deliveries in flight are no more than the positions of the feed.
LEMMA DeliveriesBounded ==
  ASSUME LinkInv
  PROVE  ctl.deliveries \in 0 .. MaxHead
<1>1. /\ hist.owed \in 0 .. MaxHead /\ MaxHead \in Nat
  BY Typed, Bounds, Zenon DEF LinkInv
<1>2. InFlight \subseteq 1 .. MaxHead
  BY <1>1 DEF LinkInv, FlightInv
<1>3. IsFiniteSet(1 .. MaxHead) /\ Cardinality(1 .. MaxHead) = MaxHead
  BY <1>1, FS_Interval
<1>4. Cardinality(InFlight) \in Nat /\ Cardinality(InFlight) <= MaxHead
  BY <1>1, <1>2, <1>3, FS_Subset, FS_CardinalityType, Zenon
<1> QED
  BY <1>1, <1>4 DEF LinkInv, FlightInv

\* Ordinary work runs only under a live link whose two subscriptions belong to
\* the current generation and still exist, and no counter leaves its range: the
\* deliveries in flight (beginLivePullDelivery, endLivePullDelivery) and the
\* attempts of a batch of repairs (repairExclusive).
THEOREM ReadyWorkIsAttached == Spec => []ReadyIsAttached
<1>1. LinkInv => ReadyIsAttached
  <2> SUFFICES ASSUME LinkInv PROVE ReadyIsAttached
    BY Zenon
  <2>1. /\ ctl.live \in Generations /\ ctl.local \in Generations /\ init.gen \in Generations /\ exec.run \in Runs
        /\ ctl.attempts \in Nat
    BY Typed, Zenon DEF LinkInv
  <2>2. exec.run.gen \in Generations
    BY <2>1, TypedRun, Zenon
  <2>3. ctl.deliveries \in 0 .. MaxHead
    BY DeliveriesBounded, Zenon
  <2>4. ctl.attempts \in 0 .. MaxAttempts
    BY <2>1, Bounds DEF LinkInv, AttemptsInv
  <2>5. sock # None => sock.next \in 1 .. MaxHead + 1
    BY TypedSocket, Zenon DEF LinkInv, LinkShape
  <2>6. {ctl.live, ctl.local, exec.run.gen, init.gen} \subseteq {"none", "same", "old"}
    BY <2>1, <2>2, Zenon DEF Generations
  <2>7. TypeOK
    BY <2>3, <2>4, <2>5, <2>6, Zenon DEF TypeOK, LinkInv, LinkShape, Feeds, Stores, LinkStates, Recoveries
  <2> QED
    BY <2>7, Zenon DEF ReadyIsAttached, LinkInv, ControlInv
<1> QED
  BY <1>1, LinkInvariant, PTL

\* Once a pause has closed the subscriptions, no opener, timer, queued call or
\* retry that was in flight survives it (transitionToPaused).
THEOREM PausedLinkIsQuiet == Spec => []PauseHolds
<1>1. LinkInv => PauseHolds
  BY Zenon DEF LinkInv, ControlInv, PauseHolds
<1> QED
  BY <1>1, LinkInvariant, PTL

\* Everything below the pull checkpoint is admitted, whatever passes, openings,
\* repairs and socket events were under way when it moved, unless one of the
\* two steps that open a gap was taken (commitLivePullCursor, and the checkpoint
\* that follows a page).
THEOREM CheckpointIsSettled == Spec => []CheckpointSettledUnlessGapped
<1>1. LinkInv => CheckpointSettledUnlessGapped
  BY Zenon DEF LinkInv, SettledInv, CheckpointSettledUnlessGapped, CheckpointSettled
<1> QED
  BY <1>1, LinkInvariant, PTL

\* A link that claims to be pull-current has admitted everything it was told of
\* (markPullCurrent).
THEOREM CurrentLinkIsSound == Spec => []PullCurrentIsSound
<1>1. LinkInv => PullCurrentIsSound
  <2> SUFFICES ASSUME LinkInv, ctl.current, ctl.deliveries = 0, ~hist.gapped
               PROVE  1 .. hist.owed \subseteq store.admitted
    BY Zenon DEF PullCurrentIsSound
  <2>1. 1 .. hist.owed \subseteq store.admitted \cup InFlight
    BY Zenon DEF LinkInv, ToldInv, Told
  <2>2. IsFiniteSet(InFlight) /\ Cardinality(InFlight) = 0
    BY FlightFinite, Zenon DEF LinkInv, FlightInv
  <2>3. InFlight = {}
    BY <2>2, FS_EmptySet, Zenon
  <2> QED
    BY <2>1, <2>3, Zenon
<1> QED
  BY <1>1, LinkInvariant, PTL

\* No step changes the status of a paused link.
LEMMA PauseStays ==
  ASSUME LinkInv, Next, link.status = "paused"
  PROVE  link'.status = "paused"
<1>1. link \in LinkStates
  BY Zenon DEF LinkInv, LinkShape
<1>2. CASE link' = link
  BY <1>2, Zenon
<1>3. CASE link' # link
  <2>1. \/ ReconcileDone \/ PassFails \/ RepairAttachPull \/ RepairComplete \/ RepairRestore \/ RepairDiagnose
        \/ RepairGivesUp \/ InitSetLive \/ HandleReconnected \/ Disconnect
        \/ SubscriptionError \/ EventSettles \/ EventFails \/ PauseLink
        \/ RetryFailedRepair(FALSE) \/ RetryFailedRepair(TRUE)
    <3>1. ~StartPass /\ ~PassRead /\ ~PassCommit /\ ~PassPush /\ ~DirectionDone /\ ~PassAborts /\ ~PassDefers
          /\ ~PassPushRefused /\ ~SkipRepair /\ ~StartRepair /\ ~RepairReset /\ ~RepairAborts /\ ~RepairOpenPull
      BY <1>3, Zenon DEF StartPass, PassRead, PassCommit, PassPush, DirectionDone, PassAborts, PassDefers,
                  PassPushRefused, SkipRepair, StartRepair, RepairReset, RepairAborts, RepairOpenPull
    <3>2. ~RepairAttachPush /\ ~RepairReady /\ ~RepairTooLate /\ ~RepairRollback /\ ~RepairNotStored
          /\ ~RepairFails /\ ~StartEvent /\ ~EventAdmitted /\ ~CommitCursor /\ ~EventDone /\ ~DrainEnds
      BY <1>3, Zenon DEF RepairAttachPush, RepairReady, RepairTooLate, RepairRollback, RepairNotStored,
                  RepairFails, StartEvent, EventAdmitted, CommitCursor, EventDone, DrainEnds
    <3>3. ~InitOpenPull /\ ~InitAttachPush /\ ~InitRead /\ ~InitPull /\ ~InitBaseline /\ ~InitReady
          /\ ~InitInterrupted /\ ~InitFails /\ ~RemoveLink /\ ~CancelCaller /\ ~ClosePaused /\ ~Reinitialize
      BY <1>3, Zenon DEF InitOpenPull, InitAttachPush, InitRead, InitPull, InitBaseline, InitReady,
                  InitInterrupted, InitFails, RemoveLink, CancelCaller, ClosePaused, Reinitialize
    <3>4. ~EventMarks /\ ~EventEnqueues /\ ~EventWaits /\ ~Supervise /\ ~DeadlineOver /\ ~ReconcileTimer
          /\ ~RepairTimer /\ ~SettleReconciles /\ ~Resubscribe /\ ~RemoteChange /\ ~LocalChange
      BY <1>3, Zenon
         DEF EventMarks, EventEnqueues, EventWaits, Supervise, DeadlineOver, ReconcileTimer,
                  RepairTimer, SettleReconciles, Resubscribe, RemoteChange, LocalChange
    <3>5. InitAttachPull => FALSE
      BY Zenon DEF InitAttachPull, Initializing, GenerationCurrent, LinkInv, ControlInv
    <3> QED
      BY <3>1, <3>2, <3>3, <3>4, <3>5, Zenon
         DEF Next, Progress, Failures, Executor, Initialization, Receive
  <2>2. CASE ReconcileDone
    <3>1. link' = [link EXCEPT !.online = TRUE, !.recovery = "none"]
      BY <1>3, <2>2, Zenon DEF ReconcileDone
    <3> QED
      BY <1>1, <3>1, Zenon DEF LinkStates
  <2>3. CASE PassFails
    <3>1. link' = [link EXCEPT !.recovery = "retryable"]
      BY <1>3, <2>3, Zenon DEF PassFails
    <3> QED
      BY <1>1, <3>1, Zenon DEF LinkStates
  <2>4. CASE RepairAttachPull \/ HandleReconnected \/ Disconnect
    <3>1. link' = [link EXCEPT !.online = TRUE] \/ link' = [link EXCEPT !.online = FALSE]
      BY <2>4, Zenon DEF RepairAttachPull, HandleReconnected, Disconnect
    <3> QED
      BY <1>1, <3>1, Zenon DEF LinkStates
  <2>5. CASE RepairComplete \/ RepairRestore \/ InitSetLive \/ RetryFailedRepair(FALSE) \/ RetryFailedRepair(TRUE)
    BY <1>3, <2>5, Zenon DEF RepairComplete, RepairRestore, InitSetLive, RetryFailedRepair, IsRepairSuperseded,
                      IsRepairCancelled
  <2>6. CASE RepairDiagnose
    BY <1>3, <2>6, Zenon DEF RepairDiagnose, IsRepairSuperseded, IsRepairCancelled
  <2>7. CASE RepairGivesUp \/ PauseLink \/ SubscriptionError \/ EventSettles \/ EventFails
    BY <1>3, <2>7, Zenon DEF RepairGivesUp, PauseLink, SubscriptionError, EventSettles, EventFails,
                             RequestRepair, EnterPause, IsRepairSuperseded, IsRepairCancelled
  <2> QED
    BY <2>1, <2>2, <2>3, <2>4, <2>5, <2>6, <2>7, Zenon
<1> QED
  BY <1>2, <1>3, Zenon

\* No step of a repair, an opener or a rollback that was in flight takes a
\* paused link out of its pause (completeRepair, rollbackRepairCompletion,
\* markLinkLive, requestRepair).
THEOREM PausedLinkStaysPaused == Spec => PauseIsFinal
<1>1. LinkInv /\ [Next]_vars => [link.status = "paused" => link'.status = "paused"]_vars
  BY PauseStays, Zenon
<1> QED
  BY <1>1, LinkInvariant, PTL DEF Spec, PauseIsFinal
=============================================================================
