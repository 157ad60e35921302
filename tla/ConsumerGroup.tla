--------------------------- MODULE ConsumerGroup ---------------------------
(***************************************************************************)
(* The data of one consumer group (ConsumerGroup in coordinator.go): the   *)
(* committed offset and the map of leases, and what the broker's           *)
(* operations do to them while they hold g.mu. A lease's ConsumerID is     *)
(* written and never read by the code, so it is left out; its Expiry is    *)
(* abstracted to whether time.Now() is already after it.                   *)
(***************************************************************************)
EXTENDS Naturals

Lease == [expired: BOOLEAN, redeliveries: Nat, acked: BOOLEAN]

NewLease == [expired |-> FALSE, redeliveries |-> 0, acked |-> FALSE]

IsGroup(G) ==
  /\ G = [committed |-> G.committed, leases |-> G.leases]
  /\ G.committed \in Nat
  /\ DOMAIN G.leases \subseteq Nat
  /\ G.leases \in [DOMAIN G.leases -> Lease]

\* Mutant: the state file is taken to hold the last offset, not the next one.
LoadedGroupAtLast(c) == [committed |-> c - 1, leases |-> [o \in {} |-> NewLease]]

\* A group as it is created or loaded from its state file: no lease survives.
LoadedGroup(c) == [committed |-> c, leases |-> [o \in {} |-> NewLease]]

(***************************************************************************)
(* The first offset the group has never leased: one past the largest       *)
(* leased offset that is not below the committed one.                      *)
(***************************************************************************)
Bounds(G) == {G.committed} \cup {o + 1 : o \in DOMAIN G.leases}

NextOffset(G) == CHOOSE n \in Bounds(G) : \A m \in Bounds(G) : m <= n

IsAcked(G, o) == o \in DOMAIN G.leases /\ G.leases[o].acked

(***************************************************************************)
(* slideWindow: the committed offset moves past every acked lease that     *)
(* follows it directly, and those leases are deleted.                      *)
(***************************************************************************)
\* Mutant: commits up to the highest acked offset, over the gaps.
SlideToHighest(G) ==
  CHOOSE c \in G.committed .. NextOffset(G) :
    /\ c = G.committed \/ IsAcked(G, c - 1)
    /\ \A o \in c .. NextOffset(G) : ~IsAcked(G, o)

SlideTo(G) ==
  CHOOSE c \in G.committed .. NextOffset(G) :
    /\ ~IsAcked(G, c)
    /\ \A o \in G.committed .. (c - 1) : IsAcked(G, o)

\* Mutant: the leases that the window passed are not deleted.
SlideWindowKeep(G) == [G EXCEPT !.committed = SlideTo(G)]

SlideWindow(G) ==
  [committed |-> SlideTo(G),
   leases    |-> [o \in DOMAIN G.leases \ (G.committed .. (SlideTo(G) - 1))
                    |-> G.leases[o]]]

\* The lease of offset o becomes l.
WithLease(G, o, l) ==
  [committed |-> G.committed, leases |-> [G.leases EXCEPT ![o] = l]]

MarkAcked(G, o) == WithLease(G, o, [G.leases[o] EXCEPT !.acked = TRUE])

\* Mutant: no slideWindow after the lease is marked.
SettleNoSlide(G, o) == MarkAcked(G, o)

\* lease.Acked = true; g.slideWindow()
Settle(G, o) == SlideWindow(MarkAcked(G, o))

\* The lease's Expiry is in the past.
Expire(G, o) == WithLease(G, o, [G.leases[o] EXCEPT !.expired = TRUE])

\* Mutant: the expiry time is not looked at.
ExpiredOffsetsEarly(G) == {o \in DOMAIN G.leases : ~G.leases[o].acked}

\* Mutant: acked leases are not left out.
ExpiredOffsetsAcked(G) == {o \in DOMAIN G.leases : G.leases[o].expired}

ExpiredOffsets(G) ==
  {o \in DOMAIN G.leases : G.leases[o].expired /\ ~G.leases[o].acked}

\* A new Expiry, and Redeliveries++.
Redeliver(G, o) ==
  WithLease(G, o, [expired      |-> FALSE,
                   redeliveries |-> G.leases[o].redeliveries + 1,
                   acked        |-> G.leases[o].acked])

\* Mutant: off by one, the first record is skipped.
LeaseNewSkip(G, n) ==
  LET fresh == (NextOffset(G) + 1) .. (NextOffset(G) + n)
  IN  [committed |-> G.committed,
       leases    |-> [o \in DOMAIN G.leases \cup fresh |->
                        IF o \in fresh THEN NewLease ELSE G.leases[o]]]

\* Fresh leases on the n offsets from NextOffset on.
LeaseNew(G, n) ==
  LET fresh == NextOffset(G) .. (NextOffset(G) + n - 1)
  IN  [committed |-> G.committed,
       leases    |-> [o \in DOMAIN G.leases \cup fresh |->
                        IF o \in fresh THEN NewLease ELSE G.leases[o]]]
=============================================================================
