------------------------------ MODULE PullIntake ------------------------------
(***************************************************************************)
(* What pulling one tenant's feeds promises, without workers, lifetimes,   *)
(* locks or resets: a checkpoint moves over a stretch of the feed only     *)
(* when each live entry of the stretch is handled locally or owed (kept    *)
(* for another attempt), and an owed entry is dropped only once it is      *)
(* handled or its link starts over.  SyncNextPull implements this module.  *)
(***************************************************************************)
EXTENDS Integers

CONSTANTS Links, Domains, Cids, None

VARIABLES
  feed,        \* each link's source feed: domain, head and live rows
  checkpoint,  \* each link's pull checkpoint
  owed,        \* receipts retained for another attempt
  handled      \* CIDs known to be handled locally

vars == <<feed, checkpoint, owed, handled>>

Start == [domain |-> None, position |-> 0]

\* The live rows of a link's feed that its checkpoint c has passed.
Passed(f, c) == {r \in f.rows : f.domain = c.domain /\ r.position <= c.position}

Owes(l, f, r) == [link |-> l, domain |-> f.domain,
                  position |-> r.position, cid |-> r.cid]

Init ==
  /\ \A l \in Links : feed[l].rows = {} /\ feed[l].head = 0
  /\ checkpoint = [l \in Links |-> Start]
  /\ owed = {}
  /\ handled = {}

\* A feed changes only beyond what was published, or by losing rows; a new
\* domain starts empty.
Publish(l) ==
  /\ \A k \in Links \ {l} : feed'[k] = feed[k]
  /\ \/ /\ feed'[l].domain = feed[l].domain
        /\ feed'[l].head >= feed[l].head
        /\ \A r \in feed'[l].rows \ feed[l].rows : r.position > feed[l].head
     \/ /\ feed'[l].domain > feed[l].domain
        /\ feed'[l].rows = {}
  /\ UNCHANGED <<checkpoint, owed, handled>>

\* A CID becomes handled locally.
Handle(c) ==
  /\ handled' = handled \cup {c}
  /\ UNCHANGED <<feed, checkpoint, owed>>

\* The checkpoint moves up to c; what it passes is handled or owed.
Advance(l, c) ==
  /\ \/ checkpoint[l] = Start
     \/ checkpoint[l].domain = c.domain /\ checkpoint[l].position < c.position
  /\ checkpoint' = [checkpoint EXCEPT ![l] = c]
  /\ \A r \in owed \ owed' : r.cid \in handled
  /\ \A r \in Passed(feed[l], c) :
       r.cid \in handled \/ Owes(l, feed[l], r) \in owed'
  /\ UNCHANGED <<feed, handled>>

\* Owed rows are dropped when handled, or when their link starts over.
Release ==
  /\ \A l \in Links : checkpoint'[l] \in {checkpoint[l], Start}
  /\ owed' \subseteq owed
  /\ \A r \in owed \ owed' : r.cid \in handled \/ checkpoint'[r.link] = Start
  /\ UNCHANGED <<feed, handled>>

Next ==
  \/ \E l \in Links : Publish(l)
  \/ \E c \in Cids : Handle(c)
  \/ \E l \in Links : Advance(l, checkpoint'[l])
  \/ Release

Spec == Init /\ [][Next]_vars

-----------------------------------------------------------------------------
\* No live entry that a checkpoint has passed is lost: it is handled or owed.
NoLoss ==
  \A l \in Links : \A r \in Passed(feed[l], checkpoint[l]) :
    r.cid \in handled \/ Owes(l, feed[l], r) \in owed
=============================================================================
