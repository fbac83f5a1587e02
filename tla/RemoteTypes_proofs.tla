-------------------------- MODULE RemoteTypes_proofs --------------------------
(***************************************************************************)
(* What the proofs about RemoteSession rest on, for any number of          *)
(* invokes, callers, channels, retries and incarnations of the daemon.     *)
(*                                                                         *)
(* First PushJournal, for every bound and every frame size: a              *)
(* replay is exactly what was missed, the newest frame is never evicted,   *)
(* and a refused cursor stays refused.  The ring is the tail of the        *)
(* history: in strictly increasing order, with every journalled number     *)
(* from its first one on (RingInv), which neither an append nor an         *)
(* eviction disturbs.  What the byte count is, and hence how much is       *)
(* evicted, never matters, as long as one frame is left.                   *)
(*                                                                         *)
(* Then the types of the session.  The handle's synchronous methods are    *)
(* lemmas of their own: each is "quiet", that is, what it may do to        *)
(* promises, clients and attempts is bounded by one predicate (Quiet), and *)
(* the steps of the shell are quiet ones, messages read, and dispatches    *)
(* (Calls).  Types is inductive by itself.                                 *)
(***************************************************************************)
EXTENDS RemoteSession, SequenceTheorems, FiniteSetTheorems, WellFoundedInduction, TLAPS

(* The ring is an increasing tail of the journalled numbers.               *)
RingInv ==
  /\ \A i \in DOMAIN ring : ring[i].seq \in journalled
  /\ \A i, j \in DOMAIN ring : i < j => ring[i].seq < ring[j].seq
  /\ \A s \in journalled : s < nextSeq
  /\ \A s \in journalled :
       s >= FirstRetainedSeq => \E i \in DOMAIN ring : ring[i].seq = s
  /\ Len(ring) = 0 => journalled = {}

----------------------------------------------------------------------------
(* A non-empty set of naturals has a least element.                        *)
LEMMA LeastElement ==
  ASSUME NEW T \in SUBSET Nat, T # {}
  PROVE  \E x \in T : \A y \in T : x <= y
<1> DEFINE R == {p \in Nat \X Nat : p[1] < p[2]}
<1>1. IsWellFoundedOn(R, Nat)
  BY NatLessThanWellFounded, Zenon DEF OpToRel
<1>2. \E x \in T : \A y \in T : ~(<<y, x>> \in R)
  <2> HIDE DEF R
  <2> QED BY <1>1, WFMin
<1>3. PICK x \in T : \A y \in T : ~(<<y, x>> \in R)
  BY <1>2
<1>4. ASSUME NEW y \in T PROVE x <= y
  <2>1. x \in Nat /\ y \in Nat
    OBVIOUS
  <2>2. ~(y < x)
    BY <1>3, <2>1, Zenon
  <2> QED
    BY <2>1, <2>2
<1> QED
  BY <1>4

(* evict() always leaves a frame: it drops some number of the oldest, and  *)
(* fewer than there are.                                                   *)
LEMMA EvictCountBounds ==
  ASSUME NEW r \in Seq(Frame), Len(r) > 0, NEW total
  PROVE  EvictCount(r, total) \in 0 .. Len(r) - 1
<1> DEFINE K == {k \in 0 .. Len(r) - 1 : k = Len(r) - 1 \/ Fits(r, total, k)}
<1>1. Len(r) - 1 \in K
  OBVIOUS
<1>2. PICK k \in K : \A j \in K : k <= j
  <2> K \in SUBSET Nat
    OBVIOUS
  <2> QED BY <1>1, LeastElement
<1>3. \A j \in 0 .. k - 1 : ~Fits(r, total, j)
  BY <1>2
<1>4. \E n \in 0 .. Len(r) - 1 :
        /\ n = Len(r) - 1 \/ Fits(r, total, n)
        /\ \A j \in 0 .. n - 1 : ~Fits(r, total, j)
  BY <1>2, <1>3
<1> QED
  BY <1>4 DEF EvictCount

(* What is left of an appended sequence without its first k elements.      *)
AppendedTail(r, e, k) == SubSeq(Append(r, e), k + 1, Len(Append(r, e)))

(* Appending to a sequence and dropping at most what was there before      *)
(* keeps a tail of the old sequence, and the new element last.             *)
LEMMA TailOfAppend ==
  ASSUME NEW S, NEW r \in Seq(S), NEW e \in S, NEW k \in 0 .. Len(r)
  PROVE  /\ AppendedTail(r, e, k) \in Seq(S)
         /\ Len(AppendedTail(r, e, k)) = Len(r) + 1 - k
         /\ \A i \in 1 .. Len(r) - k : AppendedTail(r, e, k)[i] = r[i + k]
         /\ AppendedTail(r, e, k)[Len(r) + 1 - k] = e
<1> DEFINE g == Append(r, e)
           t == AppendedTail(r, e, k)
<1>1. /\ g \in Seq(S)
      /\ Len(g) = Len(r) + 1
      /\ \A i \in 1 .. Len(r) : g[i] = r[i]
      /\ g[Len(r) + 1] = e
  BY AppendProperties
<1>2. t = SubSeq(g, k + 1, Len(g))
  BY DEF AppendedTail
<1>3. k \in Nat /\ Len(r) \in Nat /\ k <= Len(r)
  OBVIOUS
<1> HIDE DEF g, t
<1>4. /\ t \in Seq(S)
      /\ Len(t) = Len(r) + 1 - k
      /\ \A i \in 1 .. Len(r) + 1 - k : t[i] = g[k + i]
  <2> DEFINE m == k + 1
  <2>1. m \in Int /\ Len(g) \in Int /\ m <= Len(g) /\ Len(g) - m + 1 = Len(r) + 1 - k
    BY <1>1, <1>3
  <2>2. \A i \in m .. Len(g) : g[i] \in S
    BY <1>1, <1>3
  <2>3. \A i \in 1 .. Len(r) + 1 - k : m + i - 1 = k + i
    BY <1>3
  <2> HIDE DEF m
  <2>4. /\ SubSeq(g, m, Len(g)) \in Seq(S)
        /\ Len(SubSeq(g, m, Len(g))) = IF m <= Len(g) THEN Len(g) - m + 1 ELSE 0
        /\ \A i \in 1 .. Len(g) - m + 1 : SubSeq(g, m, Len(g))[i] = g[m + i - 1]
    BY ONLY <2>1, <2>2, SubSeqProperties
  <2>5. t = SubSeq(g, m, Len(g))
    BY <1>2 DEF m
  <2> QED BY ONLY <2>1, <2>3, <2>4, <2>5
<1>5. QED
  BY <1>1, <1>3, <1>4 DEF t

(* What an append leaves in the ring: what eviction kept of the old frames,*)
(* and the new one last.                                                   *)
LEMMA AppendShape ==
  ASSUME JournalTypeOK, NEW event \in Events, NEW size \in FrameSizes,
         AppendPush(event, size)
  PROVE  \E k \in 0 .. Len(ring) :
           /\ ring' \in Seq(Frame)
           /\ Len(ring') = Len(ring) + 1 - k
           /\ \A i \in 1 .. Len(ring) - k : ring'[i] = ring[i + k]
           /\ ring'[Len(ring')] = [seq |-> nextSeq, event |-> event, bytes |-> size]
<1> DEFINE new   == [seq |-> nextSeq, event |-> event, bytes |-> size]
           total == retainedBytes + size
           grown == Append(ring, new)
           k     == EvictCount(grown, total)
<1>1. new \in Frame /\ ring \in Seq(Frame)
  BY DEF JournalTypeOK, Frame
<1>2. ring' = SubSeq(grown, k + 1, Len(grown))
  BY DEF AppendPush
<1> HIDE DEF new, total
<1>3. grown \in Seq(Frame) /\ Len(grown) = Len(ring) + 1 /\ Len(ring) \in Nat
  BY <1>1
<1>4. k \in 0 .. Len(ring)
  <2> HIDE DEF grown
  <2>1. grown \in Seq(Frame) /\ Len(grown) > 0
    BY <1>3
  <2>2. k \in 0 .. Len(grown) - 1
    BY <2>1, EvictCountBounds, Zenon
  <2> QED BY <1>3, <2>2
<1> HIDE DEF k
<1>5. ASSUME NEW t, t = ring'
      PROVE /\ t \in Seq(Frame)
            /\ Len(t) = Len(ring) + 1 - k
            /\ \A i \in 1 .. Len(ring) - k : t[i] = ring[i + k]
            /\ t[Len(t)] = new
  <2>1. t = SubSeq(Append(ring, new), k + 1, Len(Append(ring, new)))
    BY <1>2, <1>5
  <2> HIDE DEF grown
  <2>2. /\ t \in Seq(Frame)
        /\ Len(t) = Len(ring) + 1 - k
        /\ \A i \in 1 .. Len(ring) - k : t[i] = ring[i + k]
        /\ t[Len(t)] = new
    <3>1. t = AppendedTail(ring, new, k)
      BY <2>1 DEF AppendedTail
    <3>2. /\ AppendedTail(ring, new, k) \in Seq(Frame)
          /\ Len(AppendedTail(ring, new, k)) = Len(ring) + 1 - k
          /\ \A i \in 1 .. Len(ring) - k : AppendedTail(ring, new, k)[i] = ring[i + k]
          /\ AppendedTail(ring, new, k)[Len(ring) + 1 - k] = new
      BY <1>1, <1>4, TailOfAppend
    <3> QED BY <3>1, <3>2
  <2> QED BY <2>2
<1> QED
  BY <1>4, <1>5 DEF new

----------------------------------------------------------------------------
(* What the type invariant says of the ring's frames.                      *)
LEMMA RingFacts ==
  ASSUME JournalTypeOK
  PROVE  /\ ring \in Seq(Frame)
         /\ Len(ring) \in Nat
         /\ DOMAIN ring = 1 .. Len(ring)
         /\ \A i \in DOMAIN ring : ring[i].seq \in Nat
         /\ nextSeq \in Nat
         /\ journalled \subseteq Nat
<1>1. ring \in Seq(Frame) /\ nextSeq \in Nat /\ journalled \subseteq Nat
  BY DEF JournalTypeOK
<1>2. Len(ring) \in Nat /\ DOMAIN ring = 1 .. Len(ring)
  BY <1>1
<1>3. \A i \in 1 .. Len(ring) : ring[i] \in Frame
  BY <1>1
<1>4. \A i \in 1 .. Len(ring) : ring[i].seq \in Nat
  BY <1>3 DEF Frame
<1> QED BY <1>1, <1>2, <1>4

LEMMA JournalInit == InitJournal => JournalTypeOK /\ RingInv
<1>1. ASSUME InitJournal PROVE JournalTypeOK
  BY <1>1 DEF InitJournal, JournalTypeOK
<1>2. ASSUME InitJournal PROVE RingInv
  BY <1>2 DEF InitJournal, RingInv
<1> QED BY <1>1, <1>2

LEMMA JournalTypeStep ==
  ASSUME JournalTypeOK, [NextJournal]_journalVars
  PROVE  JournalTypeOK'
<1>1. ASSUME NEW event \in Events, NEW size \in FrameSizes,
             AppendPush(event, size) PROVE JournalTypeOK'
  <2>1. ring' \in Seq(Frame)
    BY <1>1, AppendShape
  <2>2. nextSeq' = nextSeq + 1 /\ journalled' = journalled \cup {nextSeq}
    BY <1>1, Zenon DEF AppendPush
  <2> QED BY <2>1, <2>2 DEF JournalTypeOK
<1>2. CASE AppendThrows
  BY <1>2 DEF JournalTypeOK, AppendThrows
<1>3. CASE UNCHANGED journalVars
  BY <1>3 DEF JournalTypeOK, journalVars
<1> QED BY <1>1, <1>2, <1>3 DEF NextJournal

LEMMA RingInvStep ==
  ASSUME JournalTypeOK, RingInv, [NextJournal]_journalVars
  PROVE  RingInv'
<1>1. ASSUME NEW event \in Events, NEW size \in FrameSizes,
             AppendPush(event, size) PROVE RingInv'
  <2>1. PICK k \in 0 .. Len(ring) :
          /\ ring' \in Seq(Frame)
          /\ Len(ring') = Len(ring) + 1 - k
          /\ \A i \in 1 .. Len(ring) - k : ring'[i] = ring[i + k]
          /\ ring'[Len(ring')] = [seq |-> nextSeq, event |-> event, bytes |-> size]
    BY <1>1, AppendShape
  <2>2. /\ nextSeq' = nextSeq + 1
        /\ journalled' = journalled \cup {nextSeq}
        /\ nextSeq \in Nat
        /\ journalled \in SUBSET Nat
        /\ \A i \in DOMAIN ring : ring[i].seq \in Nat
    <3>1. nextSeq' = nextSeq + 1 /\ journalled' = journalled \cup {nextSeq}
      BY <1>1, Zenon DEF AppendPush
    <3> QED BY <3>1, RingFacts
  <2>3. DOMAIN ring = 1 .. Len(ring) /\ DOMAIN ring' = 1 .. Len(ring')
    BY <2>1 DEF JournalTypeOK
  <2>4. \A i \in DOMAIN ring' :
          \/ i <= Len(ring) - k /\ ring'[i] = ring[i + k] /\ i + k \in DOMAIN ring
          \/ i = Len(ring') /\ ring'[i].seq = nextSeq
    <3> TAKE i \in DOMAIN ring'
    <3>1. CASE i <= Len(ring) - k
      BY <2>1, <2>3, <3>1
    <3>2. CASE ~(i <= Len(ring) - k)
      <4>1. i = Len(ring')
        BY <2>1, <2>3, <3>2
      <4>2. ring'[i] = [seq |-> nextSeq, event |-> event, bytes |-> size]
        BY <2>1, <4>1
      <4> QED BY <4>1, <4>2
    <3> QED BY <3>1, <3>2
  <2>5. \A i \in DOMAIN ring' : ring'[i].seq \in journalled'
    BY <2>2, <2>4 DEF RingInv
  <2>6. \A i, j \in DOMAIN ring' : i < j => ring'[i].seq < ring'[j].seq
    <3> TAKE i, j \in DOMAIN ring'
    <3> HAVE i < j
    <3>1. i <= Len(ring) - k /\ ring'[i] = ring[i + k] /\ i + k \in DOMAIN ring
      BY <2>1, <2>3, <2>4
    <3>2. ring[i + k].seq < nextSeq
      BY <3>1 DEF RingInv
    <3>3. CASE j = Len(ring') /\ ring'[j].seq = nextSeq
      BY <3>1, <3>2, <3>3
    <3>4. CASE j <= Len(ring) - k /\ ring'[j] = ring[j + k] /\ j + k \in DOMAIN ring
      <4>1. i + k < j + k
        BY <2>1, <2>3
      <4>2. ring[i + k].seq < ring[j + k].seq
        BY <3>1, <3>4, <4>1 DEF RingInv
      <4> QED BY <3>1, <3>4, <4>2
    <3> QED BY <2>4, <3>3, <3>4
  <2>7. \A s \in journalled' : s < nextSeq'
    BY <2>2 DEF RingInv
  <2>8. ASSUME NEW s \in journalled', s >= FirstRetainedSeq'
        PROVE  \E i \in DOMAIN ring' : ring'[i].seq = s
    <3>1. CASE s = nextSeq
      BY <2>1, <2>3, <3>1
    <3>2. CASE s \in journalled
      <4>1. Len(ring') > 0 /\ 1 \in DOMAIN ring' /\ s >= ring'[1].seq
        BY <2>1, <2>3, <2>8 DEF FirstRetainedSeq
      <4>2. s < nextSeq
        BY <3>2 DEF RingInv
      <4>3. 1 <= Len(ring) - k /\ ring'[1] = ring[1 + k] /\ 1 + k \in DOMAIN ring
        <5>1. \/ 1 <= Len(ring) - k /\ ring'[1] = ring[1 + k] /\ 1 + k \in DOMAIN ring
              \/ ring'[1].seq = nextSeq
          BY <2>4, <4>1
        <5>2. s \in Nat /\ nextSeq \in Nat
          BY <2>2, <3>2
        <5>3. ring'[1].seq # nextSeq
          BY <4>1, <4>2, <5>2
        <5> QED BY <5>1, <5>3
      <4>4. ring[1 + k].seq <= s
        BY <4>1, <4>3
      <4>5. FirstRetainedSeq <= ring[1 + k].seq
        <5>1. CASE k = 0
          BY <2>2, <4>3, <5>1 DEF FirstRetainedSeq
        <5>2. CASE k > 0
          <6>1. 1 \in DOMAIN ring /\ 1 < 1 + k /\ Len(ring) > 0
            BY <2>2, <2>3, <4>3, <5>2
          <6>2. ring[1].seq < ring[1 + k].seq
            BY <4>3, <6>1 DEF RingInv
          <6>3. ring[1].seq \in Nat /\ ring[1 + k].seq \in Nat
            BY <2>2, <4>3, <6>1
          <6> QED BY <6>1, <6>2, <6>3 DEF FirstRetainedSeq
        <5> QED BY <2>2, <5>1, <5>2
      <4>6. FirstRetainedSeq \in Nat
        BY <2>2, <2>3, <4>3 DEF FirstRetainedSeq
      <4>7. PICK n \in DOMAIN ring : ring[n].seq = s
        BY <2>2, <3>2, <4>3, <4>4, <4>5, <4>6 DEF RingInv
      <4>8. n >= 1 + k
        BY <2>2, <2>3, <4>3, <4>4, <4>7 DEF RingInv
      <4>9. n - k \in 1 .. Len(ring) - k /\ (n - k) + k = n
        BY <2>3, <4>7, <4>8
      <4>10. ring'[n - k] = ring[n] /\ n - k \in DOMAIN ring'
        BY <2>1, <2>3, <4>9
      <4> QED BY <4>7, <4>10
    <3> QED BY <2>2, <3>1, <3>2
  <2>9. Len(ring') # 0
    BY <2>1
  <2> QED BY <2>5, <2>6, <2>7, <2>8, <2>9 DEF RingInv
<1>2. CASE AppendThrows
  <2>1. nextSeq' = nextSeq + 1 /\ ring' = ring /\ journalled' = journalled
    BY <1>2 DEF AppendThrows
  <2>2. \A s \in journalled' : s < nextSeq'
    BY <2>1 DEF RingInv, JournalTypeOK
  <2>3. ASSUME NEW s \in journalled', s >= FirstRetainedSeq'
        PROVE  \E i \in DOMAIN ring' : ring'[i].seq = s
    <3>1. Len(ring) # 0
      BY <2>1, <2>3 DEF RingInv
    <3>2. FirstRetainedSeq' = FirstRetainedSeq
      <4>1. Len(ring) > 0
        BY <3>1 DEF JournalTypeOK
      <4> QED BY <2>1, <4>1 DEF FirstRetainedSeq
    <3> QED BY <2>1, <2>3, <3>2 DEF RingInv
  <2> QED BY <2>1, <2>2, <2>3 DEF RingInv
<1>3. CASE UNCHANGED journalVars
  BY <1>3 DEF RingInv, journalVars, FirstRetainedSeq
<1> QED BY <1>1, <1>2, <1>3 DEF NextJournal

(* A replay, written out: the frames of the ring from some index on, where *)
(* that index is the first whose number is above the cursor.               *)
LEMMA FramesSinceShape ==
  ASSUME JournalTypeOK, RingInv, NEW c \in Int
  PROVE  \E first \in 1 .. Len(ring) + 1 :
           /\ FramesSince(c) \in Seq(Frame)
           /\ Len(FramesSince(c)) = Len(ring) + 1 - first
           /\ \A i \in 1 .. Len(ring) + 1 - first :
                FramesSince(c)[i] = ring[first + i - 1]
           /\ \A i \in DOMAIN ring : ring[i].seq > c <=> i >= first
<1> DEFINE above == {i \in DOMAIN ring : ring[i].seq > c}
<1>1. /\ ring \in Seq(Frame)
      /\ DOMAIN ring = 1 .. Len(ring)
      /\ Len(ring) \in Nat
      /\ \A i \in DOMAIN ring : ring[i].seq \in Nat
  BY RingFacts
<1>2. CASE above = {}
  <2>1. FramesSince(c) = <<>>
    BY <1>2 DEF FramesSince
  <2>2. \A i \in DOMAIN ring : ~(ring[i].seq > c) /\ ~(i >= Len(ring) + 1)
    BY <1>1, <1>2
  <2> QED BY <1>1, <2>1, <2>2
<1>3. CASE above # {}
  <2> DEFINE first == CHOOSE i \in above : \A j \in above : i <= j
  <2>1. FramesSince(c) = SubSeq(ring, first, Len(ring))
    BY <1>3 DEF FramesSince
  <2>2. first \in above /\ \A j \in above : first <= j
    <3>1. above \in SUBSET Nat
      BY <1>1
    <3>2. \E i \in above : \A j \in above : i <= j
      BY <1>3, <3>1, LeastElement
    <3> QED BY <3>2
  <2> HIDE DEF first
  <2>3. first \in 1 .. Len(ring) /\ ring[first].seq > c
    BY <1>1, <2>2
  <2>4. /\ FramesSince(c) \in Seq(Frame)
        /\ Len(FramesSince(c)) = Len(ring) + 1 - first
        /\ \A i \in 1 .. Len(ring) + 1 - first :
             FramesSince(c)[i] = ring[first + i - 1]
    BY <1>1, <2>1, <2>3, SubSeqProperties
  <2>5. ASSUME NEW i \in DOMAIN ring PROVE ring[i].seq > c <=> i >= first
    <3>1. CASE i < first
      BY <1>1, <2>2, <2>3, <3>1
    <3>2. CASE i = first
      BY <1>1, <2>3, <3>2
    <3>3. CASE i > first
      <4>1. ring[first].seq < ring[i].seq
        BY <1>1, <2>3, <3>3 DEF RingInv
      <4> QED BY <1>1, <2>3, <3>3, <4>1
    <3> QED BY <1>1, <2>3, <3>1, <3>2, <3>3
  <2>6. first \in 1 .. Len(ring) + 1
    BY <1>1, <2>3
  <2> QED BY <2>4, <2>5, <2>6
<1> QED BY <1>2, <1>3

----------------------------------------------------------------------------
(* The journal's variables keep their types, whatever is pushed.           *)
THEOREM JournalTypeCorrect == JournalSpec => []JournalTypeOK
<1>1. InitJournal => JournalTypeOK
  BY JournalInit
<1>2. JournalTypeOK /\ [NextJournal]_journalVars => JournalTypeOK'
  BY JournalTypeStep
<1> QED BY <1>1, <1>2, PTL DEF JournalSpec

(* The ring is always an increasing tail of what was journalled.           *)
THEOREM RingIsTail == JournalSpec => []RingInv
<1>1. InitJournal => RingInv
  BY JournalInit
<1>2. JournalTypeOK /\ RingInv /\ [NextJournal]_journalVars => RingInv'
  BY RingInvStep
<1> QED BY <1>1, <1>2, JournalTypeCorrect, PTL DEF JournalSpec

(* A cursor that framesSince serves is served exactly what it missed.      *)
THEOREM ReplayExact == JournalSpec => []ReplayIsExact
<1>1. ASSUME JournalTypeOK, RingInv PROVE ReplayIsExact
  <2>1. SUFFICES ASSUME NEW c \in -1 .. nextSeq, CanReplayFrom(c)
                 PROVE
        /\ {FramesSince(c)[i].seq : i \in DOMAIN FramesSince(c)}
             = {s \in journalled : s > c}
        /\ \A i, j \in DOMAIN FramesSince(c) :
             i < j => FramesSince(c)[i].seq < FramesSince(c)[j].seq
    BY DEF ReplayIsExact
  <2>2. /\ c \in Int
        /\ nextSeq \in Nat
        /\ ring \in Seq(Frame)
        /\ DOMAIN ring = 1 .. Len(ring)
        /\ Len(ring) \in Nat
        /\ \A i \in DOMAIN ring : ring[i].seq \in Nat
        /\ journalled \subseteq Nat
    BY <1>1, RingFacts
  <2>3. PICK first \in 1 .. Len(ring) + 1 :
           /\ FramesSince(c) \in Seq(Frame)
           /\ Len(FramesSince(c)) = Len(ring) + 1 - first
           /\ \A i \in 1 .. Len(ring) + 1 - first :
                FramesSince(c)[i] = ring[first + i - 1]
           /\ \A i \in DOMAIN ring : ring[i].seq > c <=> i >= first
    BY <1>1, <2>2, FramesSinceShape
  <2> DEFINE f == FramesSince(c)
  <2>4. DOMAIN f = 1 .. Len(ring) + 1 - first
    BY <2>2, <2>3
  <2>5. ASSUME NEW i \in DOMAIN f
        PROVE  /\ f[i] = ring[first + i - 1]
               /\ first + i - 1 \in DOMAIN ring
               /\ first + i - 1 >= first
    <3>1. i \in 1 .. Len(ring) + 1 - first
      BY <2>4
    <3>2. f[i] = ring[first + i - 1]
      BY <2>3, <3>1
    <3> QED BY <2>2, <3>1, <3>2
  <2> HIDE DEF f
  <2>6. \A i \in DOMAIN f : f[i].seq \in journalled /\ f[i].seq > c
    BY <1>1, <2>3, <2>5 DEF RingInv
  <2>7. ASSUME NEW s \in journalled, s > c
        PROVE  \E i \in DOMAIN f : f[i].seq = s
    <3>1. s >= FirstRetainedSeq
      <4>1. FirstRetainedSeq \in Nat
        BY <2>2 DEF FirstRetainedSeq
      <4> QED BY <2>1, <2>2, <2>7, <4>1 DEF CanReplayFrom
    <3>2. PICK n \in DOMAIN ring : ring[n].seq = s
      BY <1>1, <3>1 DEF RingInv
    <3>3. n >= first
      BY <2>2, <2>3, <2>7, <3>2
    <3>4. n - first + 1 \in DOMAIN f /\ first + (n - first + 1) - 1 = n
      BY <2>2, <2>4, <3>3
    <3>5. f[n - first + 1] = ring[n]
      BY <2>5, <3>4
    <3> QED BY <3>2, <3>4, <3>5
  <2>8. ASSUME NEW i \in DOMAIN f, NEW j \in DOMAIN f, i < j
        PROVE  f[i].seq < f[j].seq
    <3>1. first + i - 1 < first + j - 1
      BY <2>2, <2>4, <2>8
    <3> QED BY <1>1, <2>5, <3>1 DEF RingInv
  <2> QED BY <2>6, <2>7, <2>8 DEF f
<1> QED BY <1>1, JournalTypeCorrect, RingIsTail, PTL

(* The newest frame is never evicted, whatever its size and the bounds.    *)
THEOREM NewestIsRetained == JournalSpec => []NewestRetained
<1>1. ASSUME JournalTypeOK, RingInv PROVE NewestRetained
  <2>1. SUFFICES ASSUME NEW s \in journalled, \A t \in journalled : t <= s
                 PROVE  Len(ring) > 0 /\ ring[Len(ring)].seq = s
    BY DEF NewestRetained
  <2>2. /\ DOMAIN ring = 1 .. Len(ring)
        /\ Len(ring) \in Nat
        /\ \A i \in DOMAIN ring : ring[i].seq \in Nat
        /\ journalled \subseteq Nat
    BY <1>1, RingFacts
  <2>3. Len(ring) > 0
    BY <1>1, <2>2 DEF RingInv
  <2>4. ring[1].seq \in journalled
    BY <1>1, <2>2, <2>3 DEF RingInv
  <2>5. s >= FirstRetainedSeq
    BY <2>1, <2>3, <2>4 DEF FirstRetainedSeq
  <2>6. PICK n \in DOMAIN ring : ring[n].seq = s
    BY <1>1, <2>5 DEF RingInv
  <2>7. n = Len(ring)
    <3>1. SUFFICES ASSUME n < Len(ring) PROVE FALSE
      BY <2>2
    <3>2. ring[n].seq < ring[Len(ring)].seq /\ ring[Len(ring)].seq \in journalled
      BY <1>1, <2>2, <2>3, <3>1 DEF RingInv
    <3> QED BY <2>1, <2>2, <2>3, <2>6, <3>2
  <2> QED BY <2>3, <2>6, <2>7
<1> QED BY <1>1, JournalTypeCorrect, RingIsTail, PTL

(* Eviction never gives a frame back: the oldest number retained only ever *)
(* grows, so a cursor that was refused stays refused.                      *)
LEMMA FirstRetainedGrows ==
  ASSUME JournalTypeOK, RingInv, [NextJournal]_journalVars
  PROVE  /\ FirstRetainedSeq \in Nat
         /\ FirstRetainedSeq' \in Nat
         /\ FirstRetainedSeq <= FirstRetainedSeq'
<1>1. /\ Len(ring) \in Nat
      /\ DOMAIN ring = 1 .. Len(ring)
      /\ \A i \in DOMAIN ring : ring[i].seq \in Nat
      /\ nextSeq \in Nat
      /\ journalled \subseteq Nat
  BY RingFacts
<1>2. FirstRetainedSeq \in Nat /\ FirstRetainedSeq <= nextSeq
  BY <1>1 DEF FirstRetainedSeq, RingInv
<1>3. ASSUME NEW event \in Events, NEW size \in FrameSizes,
             AppendPush(event, size)
      PROVE  FirstRetainedSeq' \in Nat /\ FirstRetainedSeq <= FirstRetainedSeq'
  <2>1. PICK k \in 0 .. Len(ring) :
          /\ Len(ring') = Len(ring) + 1 - k
          /\ \A i \in 1 .. Len(ring) - k : ring'[i] = ring[i + k]
          /\ ring'[Len(ring')] = [seq |-> nextSeq, event |-> event, bytes |-> size]
    BY <1>3, AppendShape
  <2>2. FirstRetainedSeq' = ring'[1].seq
    BY <1>1, <2>1 DEF FirstRetainedSeq
  <2>3. CASE k = Len(ring)
    BY <1>1, <1>2, <2>1, <2>2, <2>3
  <2>4. CASE k < Len(ring)
    <3>1. FirstRetainedSeq' = ring[1 + k].seq /\ FirstRetainedSeq = ring[1].seq
      BY <1>1, <2>1, <2>2, <2>4 DEF FirstRetainedSeq
    <3>2. 1 \in DOMAIN ring /\ 1 + k \in DOMAIN ring /\ (k = 0 \/ 1 < 1 + k)
      BY <1>1, <2>4
    <3>3. k = 0 \/ ring[1].seq < ring[1 + k].seq
      BY <3>2, Zenon DEF RingInv
    <3>4. ring[1].seq \in Nat /\ ring[1 + k].seq \in Nat
      BY <1>1, <3>2
    <3> QED BY <3>1, <3>3, <3>4
  <2>5. k = Len(ring) \/ k < Len(ring)
    <3>1. Len(ring) \in Nat
      BY <1>1
    <3>2. \A n \in Nat : \A m \in 0 .. n : m = n \/ m < n
      OBVIOUS
    <3> QED BY <3>1, <3>2, Zenon
  <2> QED
    BY <2>3, <2>4, <2>5, Zenon
<1>4. CASE AppendThrows
  BY <1>1, <1>2, <1>4 DEF AppendThrows, FirstRetainedSeq
<1>5. CASE UNCHANGED journalVars
  BY <1>2, <1>5 DEF journalVars, FirstRetainedSeq
<1> QED BY <1>2, <1>3, <1>4, <1>5 DEF NextJournal

(* A cursor the journal has refused is refused ever after.                 *)
THEOREM GapsAreFinal == JournalSpec => GapIsFinal
<1>1. ASSUME JournalTypeOK, RingInv, [NextJournal]_journalVars
      PROVE  \A c \in -1 .. LastSeq : ~CanReplayFrom(c) => ~CanReplayFrom(c)'
  <2>1. /\ FirstRetainedSeq \in Nat
        /\ FirstRetainedSeq' \in Nat
        /\ FirstRetainedSeq <= FirstRetainedSeq'
    BY <1>1, FirstRetainedGrows
  <2>2. ASSUME NEW c \in -1 .. LastSeq, ~CanReplayFrom(c)
        PROVE  ~CanReplayFrom(c)'
    <3>1. c \in Int /\ c + 1 < FirstRetainedSeq
      BY <1>1, <2>1, <2>2, RingFacts DEF LastSeq, CanReplayFrom
    <3>2. ~(c + 1 >= FirstRetainedSeq')
      BY <2>1, <3>1
    <3> QED BY <3>2 DEF CanReplayFrom
  <2> QED BY <2>2
<1> QED
  BY <1>1, JournalTypeCorrect, RingIsTail, PTL DEF JournalSpec, GapIsFinal

----------------------------------------------------------------------------
(* Types.                                                                  *)
\* What h.state and the other enumerated fields may be.
States == {"connecting", "connected", "reconnecting", "auth-required", "disconnected"}
Links == {"unused", "up", "cut"}
Conns == {"unused", "gated", "attached", "open", "gone"}
Promises == {"new", "owned", "ok", "failed", "lost"}
Steps == {"idle", "waiting", "opening", "hello", "attaching", "reconciling"}
\* A push cursor, -1 before the first push.
Cursor == Nat \cup {-1}

\* The ids of invokes, which an attach request's id is none of.
CallId == [ch : Channels, n : Nat \ {0}]
AttachIds == [ch : Channels, n : {0}]

\* What a reconciliation says of the ids it was asked about.
Verdicts == UNION {[ids -> {"in-flight", "completed", "unknown"}] : ids \in SUBSET CallId}
\* The messages of the two directions.
PlainMessage == [type : {"hello", "refused", "superseded"}]
PushMessages == [type : {"push"}, seq : Nat, event : Events, epoch : 1 .. MaxEpoch]
Responses == [type : {"response"}, id : CallId, inv : MyInvokes]
Results == [type : {"attached"}, status : {"no-cursor", "epoch-mismatch", "replay-gap", "ok"},
            epoch : 1 .. MaxEpoch, seq : Cursor, verdict : Verdicts]
Attaches == [type : {"attach"}, epoch : 0 .. MaxEpoch, seq : Cursor,
             pending : SUBSET CallId, protocol : {ClientProtocol}]
InvokeMessages == [type : {"invoke"}, id : CallId, inv : MyInvokes]

ToClientMessage == PlainMessage \cup PushMessages \cup Responses \cup Results
ToServerMessage == Attaches \cup InvokeMessages
DueMessage == PushMessages \cup Responses
\* What the response store keeps, and a dispatched handler.
Settlement == [id : CallId, inv : MyInvokes] \cup [id : AttachIds, inv : {AttachCall}]
Handler == [id : CallId, inv : MyInvokes, from : Channels]

\* An attempt that has a channel.
Moving(r) == r.pc \in {"hello", "attaching", "reconciling"}
AttemptRecord ==
  {r \in [pc : Steps, ch : Channels \cup {None},
          why : {"none", "start", "retry", "loop"}, result : Results \cup {NoResult}] :
     /\ Moving(r) => r.ch \in Channels
     /\ r.pc = "reconciling" => r.result \in Results}
AttemptSet ==
  {f \in [Attempts -> AttemptRecord] :
     f[Loop].why # "retry" /\ \A a \in Foreground : f[a].pc # "waiting"}
\* The handle's record, client by client.
Pending == [id : CallId, inv : MyInvokes]
ClientRecord == [open : BOOLEAN, seq : Cursor, pending : SUBSET Pending,
                 pinging : BOOLEAN, nextId : Nat]
HandleRecord ==
  [state : States, stopped : BOOLEAN, reconnecting : BOOLEAN, started : BOOLEAN,
   tries : Nat, client : Channels \cup {None}, lastSeq : Cursor, epoch : 0 .. MaxEpoch,
   sweep : BOOLEAN, attempt : AttemptSet, rpc : [Channels -> ClientRecord],
   owned : [MyInvokes -> Promises], wire : [MyInvokes -> CallId \cup {NoWire}],
   aged : SUBSET MyInvokes]

\* Types of the channels, of the daemon and of the ghosts of RemoteHandle.
WireTypes ==
  /\ link \in [Channels -> Links]
  /\ toClient \in [Channels -> Seq(ToClientMessage)]
  /\ toServer \in [Channels -> Seq(ToServerMessage)]

HostTypes ==
  /\ epoch \in 1 .. MaxEpoch
  /\ conn \in [Channels -> Conns]
  /\ active \in Channels \cup {NoChannel, Foreign}
  /\ active \in Channels => active \in Connected
  /\ doomed \subseteq Connected
  /\ due \in [Channels -> Seq(DueMessage)]
  /\ running \subseteq Handler
  /\ retained \in Seq(Settlement)
  /\ ran \in [Invokes -> Nat]
  /\ done \subseteq Invokes

GhostTypes ==
  /\ promised \in [Channels -> SUBSET (Nat \X Nat)]

\* A channel nobody opened yet, and one that is up.
ChannelInv ==
  \A c \in Channels :
    /\ link[c] = "unused" <=> conn[c] = "unused"
    /\ link[c] = "unused" =>
         /\ toClient[c] = <<>> /\ toServer[c] = <<>> /\ due[c] = <<>>
         /\ ~h.rpc[c].open /\ h.rpc[c].pending = {} /\ h.rpc[c].nextId = 0 /\ promised[c] = {}
    /\ link[c] = "up" => c \in Connected
    /\ c \notin Connected => toServer[c] = <<>> /\ due[c] = <<>>
    /\ \A a \in Attempts : Moving(h.attempt[a]) /\ h.attempt[a].ch = c => link[c] # "unused"

\* The inductive type invariant.
Types ==
  /\ JournalTypeOK /\ RingInv /\ WireTypes /\ HostTypes /\ GhostTypes /\ h \in HandleRecord /\ ChannelInv

----------------------------------------------------------------------------
(* Which invoke an id is of.                                               *)
\* The shell waits for id on behalf of invoke i, or that request, its handler
\* or its response is somewhere in the session.
Waits(id, i) ==
  \/ h.wire[i] = id
  \/ \E c \in Channels : \E p \in h.rpc[c].pending : p.id = id /\ p.inv = i
Asks(q, id, i) == \E x \in Range(q) : x.type = "invoke" /\ x.id = id /\ x.inv = i
Carries(q, id, i) == \E x \in Range(q) : x.type = "response" /\ x.id = id /\ x.inv = i
Asked(id, i) == \E c \in Channels : Asks(toServer[c], id, i)
Runs(id, i) == \E w \in running : w.id = id /\ w.inv = i
Answered(id, i) ==
  \/ \E x \in Range(retained) : x.id = id /\ x.inv = i
  \/ \E c \in Channels : Carries(due[c], id, i) \/ Carries(toClient[c], id, i)
Tagged(id, i) == Waits(id, i) \/ Asked(id, i) \/ Runs(id, i) \/ Answered(id, i)

\* An id is of one invoke, and was handed out by its channel's counter.
TagInv ==
  \A i \in MyInvokes : \A id \in CallId :
    Tagged(id, i) =>
      /\ id.n <= h.rpc[id.ch].nextId
      /\ \A j \in MyInvokes : Tagged(id, j) => i = j

\* A request is of an invoke that left "new", a handler of one that ran, a
\* response of one that is done.
CallInv ==
  /\ \A i \in MyInvokes : h.owned[i] = "new" => h.wire[i] = NoWire
  /\ \A i \in MyInvokes : \A id \in CallId :
       /\ Asked(id, i) => h.owned[i] # "new"
       /\ Runs(id, i) => ran[i] > 0
       /\ Answered(id, i) => i \in done

\* The k-th message to the daemon on c is a request of invoke i.
Request(i, c, k) == toServer[c][k].type = "invoke" /\ toServer[c][k].inv = i
\* A mutation that is still in a channel was never dispatched, is nowhere else,
\* and is remembered by the wire id it left with: nothing sends it again.
MutationInv ==
  \A i \in Mutations :
    /\ ran[i] <= 1
    /\ \A c \in Channels : \A k \in DOMAIN toServer[c] :
         Request(i, c, k) =>
           /\ ran[i] = 0 /\ h.wire[i] # NoWire
           /\ \A d \in Channels : \A l \in DOMAIN toServer[d] :
                Request(i, d, l) => c = d /\ k = l
    /\ h.wire[i] = NoWire => ran[i] = 0

----------------------------------------------------------------------------
(* The handle's synchronous methods.                                       *)

\* They settle promises that are owed, close clients, and no more.
MaySettle(s, n, i) ==
  \/ n.owned[i] = s.owned[i]
  \/ s.owned[i] = "owned" /\ n.owned[i] = "failed"
  \/ s.owned[i] = "owned" /\ n.owned[i] = "lost" /\ i \in Mutations
\* What a synchronous method leaves of client c, of the attempts, of the rest.
SameClient(s, n, c) ==
  /\ n.rpc[c].seq = s.rpc[c].seq /\ n.rpc[c].pending = s.rpc[c].pending
  /\ n.rpc[c].nextId = s.rpc[c].nextId
  /\ n.rpc[c].open => s.rpc[c].open
Halts(f, g) == \A a \in Attempts : g[a] = f[a] \/ ~Moving(g[a])
Quiet(s, n) ==
  /\ n \in HandleRecord
  /\ n.wire = s.wire /\ n.lastSeq = s.lastSeq /\ n.epoch = s.epoch
  /\ \A c \in Channels : SameClient(s, n, c)
  /\ \A i \in MyInvokes : MaySettle(s, n, i)
  /\ Halts(s.attempt, n.attempt)

\* Only the promises, or only the clients, differ.
OnlyOwned(s, n) == n = [s EXCEPT !.owned = n.owned]
OnlyRpc(s, n) == n = [s EXCEPT !.rpc = n.rpc]
OnlyClients(s, n) == n = [s EXCEPT !.rpc = n.rpc, !.client = None]

\* The foreground callers and the reconnect loop, and what is a number.
LEMMA Callers ==
  /\ Loop \in Attempts /\ Loop \notin Foreground /\ Attempts = Foreground \cup {Loop}
  /\ Invokes = MyInvokes /\ Mutations \subseteq MyInvokes /\ MyInvokes \subseteq Nat
  /\ NInvokes \in Nat /\ MaxTries \in Nat /\ Channels \subseteq Nat \ {0} /\ None = 0
  BY SessionAssumption, ChannelsAssumption DEF Attempts, MyInvokes, Channels, None

\* Two quiet methods in a row are quiet.
LEMMA QuietTrans ==
  ASSUME NEW s, NEW t, NEW n, Quiet(s, t), Quiet(t, n)
  PROVE  Quiet(s, n)
  BY DEF Quiet, SameClient, MaySettle, Halts

\* Doing nothing is quiet.
LEMMA QuietSelf ==
  ASSUME NEW s \in HandleRecord
  PROVE  Quiet(s, s)
  BY DEF Quiet, SameClient, MaySettle, Halts

\* An attempt that has not started, or only opens its channel, has no channel.
LEMMA IdleTypes ==
  /\ Idle \in AttemptRecord /\ Idle.pc = "idle" /\ Idle.ch = None
  /\ Idle.why = "none" /\ ~Moving(Idle) /\ ~Moving([Idle EXCEPT !.pc = "waiting"])
  /\ [Idle EXCEPT !.pc = "waiting"] \in AttemptRecord /\ [Idle EXCEPT !.pc = "waiting"].why = "none"
  /\ \A why \in {"start", "retry", "loop"} :
       Opening(why) \in AttemptRecord /\ ~Moving(Opening(why)) /\ Opening(why).pc = "opening" /\ Opening(why).why = why
  BY DEF Idle, Opening, AttemptRecord, Steps, Moving

\* Replacing one attempt keeps the set of attempts.
LEMMA Attempting ==
  ASSUME NEW f \in AttemptSet, NEW a \in Attempts, NEW r \in AttemptRecord,
         IF a = Loop THEN r.why # "retry" ELSE r.pc # "waiting"
  PROVE  /\ [f EXCEPT ![a] = r] \in AttemptSet
         /\ ~Moving(r) => Halts(f, [f EXCEPT ![a] = r])
  BY Callers DEF AttemptSet, Halts

\* settle: the promises of is, and nothing else, become how.
LEMMA Settles ==
  ASSUME NEW s \in HandleRecord, NEW is \in SUBSET Owned(s), NEW how,
         how = "failed" \/ (how = "lost" /\ is \subseteq Mutations)
  PROVE  /\ Quiet(s, Settle(s, is, how)) /\ OnlyOwned(s, Settle(s, is, how))
         /\ \A i \in MyInvokes : Settle(s, is, how).owned[i] = IF i \in is THEN how ELSE s.owned[i]
  BY DEF Settle, Owned, Quiet, Halts, OnlyOwned, SameClient, MaySettle, HandleRecord, Promises

\* failOwned is quiet.
LEMMA Fails ==
  ASSUME NEW s \in HandleRecord
  PROVE  Quiet(s, FailOwned(s)) /\ OnlyOwned(s, FailOwned(s))
  BY Settles DEF FailOwned

\* expireOwned is quiet.
LEMMA Expires ==
  ASSUME NEW s \in HandleRecord
  PROVE  Quiet(s, ExpireOwned(s)) /\ OnlyOwned(s, ExpireOwned(s))
  <1> DEFINE old == Owned(s) \cap s.aged
             t == Settle(s, old \cap Mutations, "lost")
  <1>1. /\ Quiet(s, t) /\ OnlyOwned(s, t)
        /\ \A i \in MyInvokes : t.owned[i] = IF i \in old \cap Mutations THEN "lost" ELSE s.owned[i]
    <2>1. old \cap Mutations \in SUBSET Owned(s) /\ old \cap Mutations \subseteq Mutations
      OBVIOUS
    <2> HIDE DEF old
    <2>2. QED BY <2>1, Settles
  <1>2. t \in HandleRecord
    BY <1>1 DEF Quiet
  <1>3. old \ Mutations \in SUBSET Owned(t)
    BY <1>1 DEF Owned
  <1>4. Quiet(t, Settle(t, old \ Mutations, "failed"))
        /\ OnlyOwned(t, Settle(t, old \ Mutations, "failed"))
    <2> DEFINE late == old \ Mutations
    <2>1. late \in SUBSET Owned(t)
      BY <1>3
    <2> HIDE DEF t, late
    <2>2. /\ Quiet(t, Settle(t, late, "failed"))
          /\ OnlyOwned(t, Settle(t, late, "failed"))
      BY <1>2, <2>1, Settles
    <2>3. QED BY <2>2 DEF late
  <1>5. ExpireOwned(s) = Settle(t, old \ Mutations, "failed")
    BY DEF ExpireOwned
  <1>6. Quiet(s, ExpireOwned(s))
    <2> HIDE DEF t, old
    <2> QED BY <1>1, <1>4, <1>5, QuietTrans
  <1>7. OnlyOwned(s, ExpireOwned(s))
    <2>1. s \in HandleRecord
      OBVIOUS
    <2> HIDE DEF t, old
    <2> DEFINE u == ExpireOwned(s)
    <2>2. OnlyOwned(s, t) /\ OnlyOwned(t, u)
      BY <1>1, <1>4, <1>5
    <2> HIDE DEF u
    <2>3. QED BY <2>1, <2>2 DEF OnlyOwned, HandleRecord, u
  <1>8. QED BY <1>6, <1>7

\* RpcClient.close: client c is closed, the others are left alone.
LEMMA Closes ==
  ASSUME NEW s \in HandleRecord, NEW c \in Channels
  PROVE  /\ Quiet(s, CloseClient(s, c))
         /\ OnlyRpc(s, CloseClient(s, c))
         /\ ~CloseClient(s, c).rpc[c].open
         /\ \A d \in Channels : d # c => CloseClient(s, c).rpc[d] = s.rpc[d]
  <1> DEFINE r == [s.rpc EXCEPT ![c] = [s.rpc[c] EXCEPT !.open = FALSE, !.pinging = FALSE]]
  <1>1. CloseClient(s, c) = [s EXCEPT !.rpc = r]
    BY DEF CloseClient, HandleRecord
  <1>2. s.rpc \in [Channels -> ClientRecord] /\ s.rpc[c] \in ClientRecord
    BY DEF HandleRecord
  <1>3. [s.rpc[c] EXCEPT !.open = FALSE, !.pinging = FALSE] \in ClientRecord
    BY <1>2 DEF ClientRecord
  <1>4. r \in [Channels -> ClientRecord]
    BY <1>2, <1>3
  <1>5. /\ ~r[c].open /\ r[c].seq = s.rpc[c].seq /\ r[c].pending = s.rpc[c].pending
        /\ r[c].nextId = s.rpc[c].nextId /\ \A d \in Channels : d # c => r[d] = s.rpc[d]
    BY <1>2 DEF ClientRecord
  <1> HIDE DEF r
  <1>6. [s EXCEPT !.rpc = r] \in HandleRecord
    BY <1>4 DEF HandleRecord
  <1>7. /\ [s EXCEPT !.rpc = r].rpc = r /\ [s EXCEPT !.rpc = r].owned = s.owned
        /\ [s EXCEPT !.rpc = r].wire = s.wire /\ [s EXCEPT !.rpc = r].lastSeq = s.lastSeq
        /\ [s EXCEPT !.rpc = r].epoch = s.epoch /\ [s EXCEPT !.rpc = r].attempt = s.attempt
    BY DEF HandleRecord
  <1>8. QED BY <1>1, <1>5, <1>6, <1>7 DEF Quiet, OnlyRpc, SameClient, MaySettle, Halts

\* teardownChannel: the handle drops its client and closes it.
LEMMA TearsDown ==
  ASSUME NEW s \in HandleRecord
  PROVE  /\ Quiet(s, TeardownChannel(s))
         /\ TeardownChannel(s).client = None
         /\ OnlyClients(s, TeardownChannel(s))
         /\ s.client # None => ~TeardownChannel(s).rpc[s.client].open
         /\ \A d \in Channels : d # s.client => TeardownChannel(s).rpc[d] = s.rpc[d]
  <1>1. CASE s.client = None
    BY <1>1 DEF TeardownChannel, Quiet, Halts, OnlyClients, SameClient, MaySettle, HandleRecord
  <1>2. CASE s.client # None
    <2> DEFINE t == CloseClient(s, s.client)
    <2>1. s.client \in Channels
      BY <1>2 DEF HandleRecord
    <2>2. /\ Quiet(s, t) /\ OnlyRpc(s, t) /\ ~t.rpc[s.client].open
          /\ \A d \in Channels : d # s.client => t.rpc[d] = s.rpc[d]
      BY <2>1, Closes
    <2>3. TeardownChannel(s) = [t EXCEPT !.client = None]
      BY <1>2 DEF TeardownChannel
    <2> HIDE DEF t
    <2>4. Quiet(t, [t EXCEPT !.client = None]) /\ [t EXCEPT !.client = None].rpc = t.rpc
      BY <2>2 DEF Quiet, Halts, SameClient, MaySettle, HandleRecord
    <2>5. OnlyClients(s, TeardownChannel(s)) /\ TeardownChannel(s).client = None
      BY <2>2, <2>3 DEF HandleRecord, OnlyRpc, OnlyClients, Quiet
    <2>6. Quiet(s, TeardownChannel(s))
      BY <2>2, <2>3, <2>4, QuietTrans
    <2>7. QED BY <2>2, <2>3, <2>4, <2>5, <2>6
  <1>3. QED BY <1>1, <1>2

\* onConnectionLost is quiet.
LEMMA LosesConnection ==
  ASSUME NEW s \in HandleRecord
  PROVE  Quiet(s, OnConnectionLost(s))
  <1>1. CASE s.stopped \/ s.reconnecting
    BY <1>1, QuietSelf DEF OnConnectionLost
  <1>2. CASE ~(s.stopped \/ s.reconnecting)
    <2> DEFINE f == [s.attempt EXCEPT ![Loop] = [Idle EXCEPT !.pc = "waiting"]]
    <2>1. f \in AttemptSet /\ Halts(s.attempt, f)
      BY Attempting, IdleTypes, Callers DEF HandleRecord
    <2>2. OnConnectionLost(s)
            = [s EXCEPT !.state = "reconnecting", !.reconnecting = TRUE, !.tries = 0, !.attempt = f]
      BY <1>2 DEF OnConnectionLost, HandleRecord
    <2> HIDE DEF f
    <2> DEFINE n == OnConnectionLost(s)
    <2>3. \A b \in BOOLEAN :
            [s EXCEPT !.state = "reconnecting", !.reconnecting = b, !.tries = 0, !.attempt = f]
              \in HandleRecord
      BY <2>1 DEF HandleRecord, States
    <2>4. n \in HandleRecord
      BY <2>2, <2>3, TRUE \in BOOLEAN
    <2>5. /\ n.wire = s.wire /\ n.lastSeq = s.lastSeq /\ n.epoch = s.epoch
          /\ n.rpc = s.rpc /\ n.owned = s.owned /\ n.attempt = f
      BY <2>2 DEF HandleRecord
    <2> HIDE DEF n
    <2>6. Quiet(s, n)
      BY <2>1, <2>4, <2>5 DEF Quiet, SameClient, MaySettle
    <2>7. QED BY <2>6 DEF n
  <1>3. QED BY <1>1, <1>2

\* The end of reconnectLoop is quiet.
LEMMA LoopStops ==
  ASSUME NEW s \in HandleRecord
  PROVE  Quiet(s, LoopEnds(s))
  <1> DEFINE t == [s EXCEPT !.reconnecting = FALSE, !.attempt[Loop] = Idle]
  <1>1. Quiet(s, t)
    <2> DEFINE f == [s.attempt EXCEPT ![Loop] = Idle]
    <2>1. f \in AttemptSet /\ Halts(s.attempt, f)
      BY Attempting, IdleTypes, Callers DEF HandleRecord
    <2>2. t = [s EXCEPT !.reconnecting = FALSE, !.attempt = f]
      BY DEF HandleRecord
    <2> HIDE DEF f, t
    <2>3. QED BY <2>1, <2>2 DEF Quiet, SameClient, MaySettle, HandleRecord
  <1>2. t \in HandleRecord
    BY <1>1 DEF Quiet
  <1>3. LoopEnds(s) = IF s.stopped THEN t
                      ELSE [ExpireOwned(t) EXCEPT !.state = "auth-required", !.sweep = TRUE]
    BY DEF LoopEnds
  <1> HIDE DEF t
  <1>4. Quiet(t, ExpireOwned(t)) /\ ExpireOwned(t) \in HandleRecord
    BY <1>2, Expires DEF Quiet
  <1> DEFINE u == ExpireOwned(t)
  <1> HIDE DEF u
  <1>5. u \in HandleRecord => Quiet(u, [u EXCEPT !.state = "auth-required", !.sweep = TRUE])
    BY DEF Quiet, Halts, SameClient, MaySettle, HandleRecord, States
  <1>6. QED BY <1>1, <1>3, <1>4, <1>5, QuietTrans DEF u

\* What the caller of a failed attempt does is quiet.
LEMMA CallersFail ==
  ASSUME NEW s \in HandleRecord, NEW a \in Attempts
  PROVE  Quiet(s, CallerFails(s, a))
  <1>0. s.attempt \in AttemptSet
    BY DEF HandleRecord
  <1>1. CASE a = Loop /\ (s.stopped \/ s.tries + 1 = MaxTries)
    <2>1. CallerFails(s, a) = LoopEnds(s)
      BY <1>0, <1>1 DEF CallerFails, AttemptSet
    <2>2. QED BY <2>1, LoopStops
  <1>2. CASE a = Loop /\ ~(s.stopped \/ s.tries + 1 = MaxTries)
    <2> DEFINE f == [s.attempt EXCEPT ![Loop] = [Idle EXCEPT !.pc = "waiting"]]
    <2>1. f \in AttemptSet /\ Halts(s.attempt, f)
      BY <1>0, Attempting, IdleTypes, Callers
    <2>2. CallerFails(s, a) = [s EXCEPT !.tries = @ + 1, !.attempt = f]
      BY <1>0, <1>2 DEF CallerFails, HandleRecord, AttemptSet
    <2> HIDE DEF f
    <2>3. s.tries + 1 \in Nat
      BY DEF HandleRecord
    <2> DEFINE n == CallerFails(s, a)
    <2>4. n \in HandleRecord
      BY <2>1, <2>2, <2>3 DEF HandleRecord
    <2>5. /\ n.wire = s.wire /\ n.lastSeq = s.lastSeq /\ n.epoch = s.epoch
          /\ n.rpc = s.rpc /\ n.owned = s.owned /\ n.attempt = f
      BY <2>2 DEF HandleRecord
    <2> HIDE DEF n
    <2>6. Quiet(s, n)
      BY <2>1, <2>4, <2>5 DEF Quiet, SameClient, MaySettle
    <2>7. QED BY <2>6 DEF n
  <1>3. CASE a # Loop
    <2> DEFINE f == [s.attempt EXCEPT ![a] = Idle]
    <2>1. f \in AttemptSet /\ Halts(s.attempt, f)
      BY <1>0, Attempting, IdleTypes
    <2>2. \/ CallerFails(s, a) = [s EXCEPT !.state = "auth-required", !.attempt = f]
          \/ CallerFails(s, a) = [s EXCEPT !.attempt = f]
      BY <1>3 DEF CallerFails, HandleRecord
    <2> HIDE DEF f
    <2>3. QED BY <2>1, <2>2, ZenonT(60) DEF Quiet, SameClient, MaySettle, HandleRecord, States
  <1>4. QED BY <1>1, <1>2, <1>3

\* The attempts of one channel failing together are quiet.
LEMMA AllFail ==
  ASSUME NEW s \in HandleRecord, NEW as \in SUBSET Attempts
  PROVE  Quiet(s, FailAll(s, as))
  <1>1. CASE as = {}
    BY <1>1 DEF FailAll, Quiet, Halts, SameClient, MaySettle
  <1>2. CASE as # {}
    <2>1. (CHOOSE a \in as : TRUE) \in Attempts
      BY <1>2
    <2>2. QED BY <1>2, <2>1, CallersFail DEF FailAll
  <1>3. QED BY <1>1, <1>2

\* A failing connectInner, with what its caller does then, is quiet.
LEMMA ConnectFailing ==
  ASSUME NEW s \in HandleRecord, NEW a \in Attempts
  PROVE  Quiet(s, ConnectFails(s, a))
  <1> DEFINE t == TeardownChannel(s)
             u == CallerFails(t, a)
             as == WaitingOn(s, s.client) \ {a}
  <1>1. Quiet(s, t) /\ t \in HandleRecord
    BY TearsDown DEF Quiet
  <1>2. ConnectFails(s, a) = FailAll(u, as)
    BY DEF ConnectFails
  <1>3. as \in SUBSET Attempts
    BY DEF WaitingOn
  <1> HIDE DEF as, t
  <1>4. Quiet(t, u) /\ u \in HandleRecord
    BY <1>1, CallersFail DEF Quiet
  <1> HIDE DEF u
  <1>5. Quiet(u, FailAll(u, as))
    BY <1>3, <1>4, AllFail
  <1>6. QED BY <1>1, <1>2, <1>4, <1>5, QuietTrans
----------------------------------------------------------------------------
(* Queues and ranks.                                                       *)

\* The elements of a sequence and its range.
LEMMA Elements ==
  ASSUME NEW S, NEW q \in Seq(S)
  PROVE  /\ Range(q) \subseteq S
         /\ \A k \in DOMAIN q : q[k] \in Range(q)
         /\ \A x \in Range(q) : \E k \in DOMAIN q : q[k] = x
  BY DEF Range

\* Concatenation, under a name that the provers leave alone.
Joined(q, r) == q \o r

\* The range of a concatenation.
LEMMA Appends ==
  ASSUME NEW S, NEW q \in Seq(S), NEW r \in Seq(S)
  PROVE  q \o r \in Seq(S) /\ Range(q \o r) = Range(q) \cup Range(r)
  <1>1. /\ q \o r \in Seq(S) /\ Len(q \o r) = Len(q) + Len(r) /\ Len(q) \in Nat /\ Len(r) \in Nat
        /\ \A k \in 1 .. Len(q \o r) :
             (q \o r)[k] = IF k <= Len(q) THEN q[k] ELSE r[k - Len(q)]
    OBVIOUS
  <1>2. DOMAIN (q \o r) = 1 .. Len(q) + Len(r) /\ DOMAIN q = 1 .. Len(q) /\ DOMAIN r = 1 .. Len(r)
    BY <1>1
  <1>3. ASSUME NEW x \in Range(q \o r) PROVE x \in Range(q) \cup Range(r)
    <2>1. PICK k \in 1 .. Len(q) + Len(r) : x = (q \o r)[k]
      BY <1>2, <1>3 DEF Range
    <2>2. CASE k <= Len(q)
      BY <1>1, <1>2, <2>1, <2>2 DEF Range
    <2>3. CASE ~(k <= Len(q))
      <3>1. k - Len(q) \in 1 .. Len(r) /\ x = r[k - Len(q)]
        BY <1>1, <2>1, <2>3
      <3>2. QED BY <1>2, <3>1 DEF Range
    <2>4. QED BY <2>2, <2>3
  <1>4. ASSUME NEW k \in 1 .. Len(q) PROVE q[k] \in Range(q \o r)
    <2>1. k \in 1 .. Len(q) + Len(r) /\ (q \o r)[k] = q[k]
      BY <1>1
    <2>2. QED BY <1>2, <2>1 DEF Range
  <1>5. ASSUME NEW k \in 1 .. Len(r) PROVE r[k] \in Range(q \o r)
    <2>1. Len(q) + k \in 1 .. Len(q) + Len(r) /\ (q \o r)[Len(q) + k] = r[k]
      BY <1>1
    <2>2. QED BY <1>2, <2>1 DEF Range
  <1>6. QED BY <1>1, <1>2, <1>3, <1>4, <1>5 DEF Range

\* What Head and Tail take from a sequence.
LEMMA Takes ==
  ASSUME NEW S, NEW q \in Seq(S), q # <<>>
  PROVE  /\ Tail(q) \in Seq(S) /\ Head(q) \in S
         /\ Range(q) = Range(Tail(q)) \cup {Head(q)}
         /\ Len(Tail(q)) = Len(q) - 1 /\ Len(q) \in Nat \ {0}
         /\ \A k \in DOMAIN Tail(q) : k + 1 \in DOMAIN q /\ Tail(q)[k] = q[k + 1]
  <1>1. /\ Tail(q) \in Seq(S) /\ Head(q) \in S /\ Len(q) \in Nat \ {0}
        /\ Len(Tail(q)) = Len(q) - 1 /\ Head(q) = q[1]
        /\ \A k \in 1 .. Len(q) - 1 : Tail(q)[k] = q[k + 1]
    OBVIOUS
  <1>2. DOMAIN Tail(q) = 1 .. Len(q) - 1 /\ DOMAIN q = 1 .. Len(q)
    BY <1>1
  <1>3. ASSUME NEW k \in 1 .. Len(q) PROVE q[k] \in Range(Tail(q)) \cup {Head(q)}
    <2>1. CASE k = 1
      BY <1>1, <2>1
    <2>2. CASE k # 1
      <3>1. k - 1 \in 1 .. Len(q) - 1 /\ Tail(q)[k - 1] = q[k]
        BY <1>1, <2>2
      <3>2. QED BY <1>2, <3>1 DEF Range
    <2>3. QED BY <2>1, <2>2
  <1>4. \A k \in 1 .. Len(q) - 1 : k + 1 \in 1 .. Len(q)
    BY <1>1
  <1>5. Range(Tail(q)) \subseteq Range(q) /\ Head(q) \in Range(q)
    BY <1>1, <1>2, <1>4 DEF Range
  <1>6. QED BY <1>1, <1>2, <1>3, <1>4, <1>5 DEF Range

\* The empty sequence.
LEMMA Nothing == Range(<<>>) = {} /\ \A S : <<>> \in Seq(S)
  BY DEF Range

\* A sequence of one element.
LEMMA One ==
  ASSUME NEW S, NEW x \in S
  PROVE  <<x>> \in Seq(S) /\ Range(<<x>>) = {x} /\ DOMAIN <<x>> = {1} /\ <<x>>[1] = x
  BY DEF Range

\* Ranks in a finite set of naturals are 1 .. its size, each taken once.
LEMMA Ranked ==
  ASSUME NEW S \in SUBSET Nat, IsFiniteSet(S)
  PROVE  /\ Cardinality(S) \in Nat
         /\ \A k \in 1 .. Cardinality(S) : \E i \in S : Cardinality({j \in S : j <= i}) = k
         /\ \A i \in S : Cardinality({j \in S : j <= i}) \in 1 .. Cardinality(S)
         /\ \A i, j \in S : Cardinality({x \in S : x <= i}) = Cardinality({x \in S : x <= j}) => i = j
  <1> DEFINE upTo(i) == {j \in S : j <= i}
             rank(i) == Cardinality(upTo(i))
             n == Cardinality(S)
  <1>1. n \in Nat
    BY FS_CardinalityType
  <1>0. \A i, y : y \in upTo(i) <=> y \in S /\ y <= i
    OBVIOUS
  <1>2. \A i \in S : IsFiniteSet(upTo(i)) /\ rank(i) \in Nat /\ rank(i) <= n
    BY FS_Subset, FS_CardinalityType
  <1>3. \A i \in S : rank(i) \in 1 .. n
    <2> TAKE i \in S
    <2>1. i \in upTo(i)
      OBVIOUS
    <2>2. rank(i) # 0
      BY <1>2, <2>1, FS_EmptySet
    <2>3. QED BY <1>1, <1>2, <2>2
  <1>4. ASSUME NEW i \in S, NEW j \in S, i < j PROVE rank(i) < rank(j)
    <2>0. i \in Nat /\ j \in Nat /\ \A y \in S : y \in Nat
      OBVIOUS
    <2>1. upTo(i) \in SUBSET upTo(j) /\ j \in upTo(j) /\ j \notin upTo(i)
      <3> HIDE DEF upTo
      <3>1. \A y \in S : y <= i => y <= j
        BY <1>4, <2>0
      <3>2. ~(j <= i) /\ j <= j
        BY <1>4, <2>0
      <3>3. QED BY <1>0, <3>1, <3>2
    <2>2. rank(i) <= rank(j) /\ (rank(i) = rank(j) => upTo(i) = upTo(j))
      <3> HIDE DEF upTo
      <3>1. QED BY <1>2, <2>1, FS_Subset
    <2>3. QED BY <1>2, <2>1, <2>2
  <1>5. ASSUME NEW i \in S, NEW j \in S, rank(i) = rank(j) PROVE i = j
    <2>1. i \in Nat /\ j \in Nat
      OBVIOUS
    <2>2. ~(i < j) /\ ~(j < i)
      <3>1. rank(i) \in Nat /\ rank(j) \in Nat
        BY <1>2
      <3>2. (i < j => rank(i) < rank(j)) /\ (j < i => rank(j) < rank(i))
        BY <1>4
      <3> HIDE DEF rank
      <3>3. QED BY <1>5, <3>1, <3>2
    <2>3. QED BY <2>1, <2>2
  <1> DEFINE bad == {k \in 1 .. n : ~\E i \in S : rank(i) = k}
  <1>6. bad = {}
    <2>1. SUFFICES ASSUME bad # {} PROVE FALSE
      OBVIOUS
    <2>2. bad \in SUBSET Nat
      OBVIOUS
    <2>3. PICK k \in bad : \A y \in bad : k <= y
      <3> HIDE DEF bad
      <3>1. QED BY <2>1, <2>2, LeastElement
    <2>4. k \in 1 .. n /\ ~\E i \in S : rank(i) = k
      OBVIOUS
    <2>5. CASE k = 1
      <3>1. S # {}
        BY <1>1, <2>4, FS_EmptySet
      <3>2. PICK i \in S : \A y \in S : i <= y
        BY <3>1, LeastElement
      <3>3. upTo(i) = {i}
        <4>1. i \in Nat /\ \A y \in S : y \in Nat /\ i <= y
          BY <3>2
        <4>2. \A y \in S : y <= i <=> y = i
          BY <4>1
        <4> HIDE DEF upTo
        <4>3. QED BY <1>0, <4>2
      <3>4. rank(i) = 1
        BY <3>3, FS_Singleton
      <3>5. QED BY <2>4, <2>5, <3>4
    <2>6. CASE k # 1
      <3>1. k - 1 \in 1 .. n /\ k - 1 < k /\ k \in Nat
        BY <1>1, <2>4, <2>6
      <3>2. ~(k - 1 \in bad)
        BY <2>2, <2>3, <3>1
      <3>3. PICK i \in S : rank(i) = k - 1
        BY <3>1, <3>2
      <3> DEFINE U == S \ upTo(i)
      <3>4. U # {}
        <4>1. rank(i) # n
          BY <1>1, <2>4, <3>1, <3>3
        <4>2. upTo(i) # S
          BY <4>1
        <4>3. QED BY <4>2
      <3>5. PICK j \in U : \A y \in U : j <= y
        BY <3>4, LeastElement
      <3>6. upTo(j) = upTo(i) \cup {j} /\ j \notin upTo(i)
        <4>1. i \in Nat /\ j \in Nat /\ \A y \in S : y \in Nat
          OBVIOUS
        <4>2. j \in S /\ i < j /\ j \notin upTo(i)
          BY <4>1
        <4>3. \A y \in S : y <= i \/ j <= y
          BY <3>5
        <4>4. \A y \in S : y <= j <=> y <= i \/ y = j
          BY <4>1, <4>2, <4>3
        <4> HIDE DEF upTo
        <4>5. QED BY <1>0, <4>2, <4>4
      <3>7. rank(j) = rank(i) + 1
        <4>1. IsFiniteSet(upTo(i))
          BY <1>2
        <4> HIDE DEF upTo
        <4>2. QED BY <3>6, <4>1, FS_AddElement
      <3>8. rank(j) = k /\ j \in S
        BY <3>1, <3>3, <3>7
      <3>9. QED BY <2>4, <3>8
    <2>7. QED BY <2>5, <2>6
  <1>7. \A k \in 1 .. n : \E i \in S : rank(i) = k
    BY <1>6
  <1>8. QED BY <1>1, <1>3, <1>5, <1>7

\* Picked lists the retained settlements of the places it is given.
LEMMA Picks ==
  ASSUME NEW S, retained \in Seq(S), NEW at \in SUBSET DOMAIN retained
  PROVE  /\ Picked(at) \in Seq(S)
         /\ Range(Picked(at)) = {retained[i] : i \in at}
  <1>1. DOMAIN retained = 1 .. Len(retained) /\ Len(retained) \in Nat
    OBVIOUS
  <1>2. at \in SUBSET Nat /\ IsFiniteSet(at)
    <2>1. IsFiniteSet(1 .. Len(retained))
      BY <1>1, FS_Interval
    <2>2. QED BY <1>1, <2>1, FS_Subset
  <1> DEFINE n == Cardinality(at)
             nth(k) == CHOOSE i \in at : Rank(at, i) = k
  <1>3. /\ n \in Nat
        /\ \A k \in 1 .. n : \E i \in at : Rank(at, i) = k
        /\ \A i \in at : Rank(at, i) \in 1 .. n
        /\ \A i, j \in at : Rank(at, i) = Rank(at, j) => i = j
    BY <1>2, Ranked DEF Rank
  <1>4. \A k \in 1 .. n : nth(k) \in at
    BY <1>3
  <1>5. \A i \in at : nth(Rank(at, i)) = i
    BY <1>3
  <1>6. Picked(at) = [k \in 1 .. n |-> retained[nth(k)]]
    BY DEF Picked
  <1>7. \A i \in at : retained[i] \in S
    BY <1>1
  <1> HIDE DEF n, nth
  <1>8. Picked(at) \in Seq(S) /\ DOMAIN Picked(at) = 1 .. n /\ \A k \in 1 .. n : Picked(at)[k] = retained[nth(k)]
    BY <1>3, <1>4, <1>6, <1>7
  <1>9. Range(Picked(at)) \subseteq {retained[i] : i \in at}
    BY <1>4, <1>8 DEF Range
  <1>10. \A i \in at : retained[i] \in Range(Picked(at))
    BY <1>3, <1>5, <1>8 DEF Range
  <1>11. QED BY <1>8, <1>9, <1>10
\* A suffix of a sequence.
LEMMA SubRange ==
  ASSUME NEW S, NEW q \in Seq(S), NEW m \in 1 .. Len(q) + 1
  PROVE  /\ SubSeq(q, m, Len(q)) \in Seq(S)
         /\ Range(SubSeq(q, m, Len(q))) \subseteq Range(q)
         /\ DOMAIN SubSeq(q, m, Len(q)) = 1 .. Len(q) + 1 - m
         /\ \A k \in 1 .. Len(q) + 1 - m : SubSeq(q, m, Len(q))[k] = q[m + k - 1] /\ m + k - 1 \in DOMAIN q
  <1> DEFINE t == SubSeq(q, m, Len(q))
  <1>1. /\ Len(q) \in Nat /\ t \in Seq(S) /\ Len(t) = Len(q) + 1 - m
        /\ \A k \in 1 .. Len(q) + 1 - m : t[k] = q[m + k - 1]
    OBVIOUS
  <1>2. DOMAIN t = 1 .. Len(q) + 1 - m /\ DOMAIN q = 1 .. Len(q)
    BY <1>1
  <1>3. \A k \in 1 .. Len(q) + 1 - m : m + k - 1 \in 1 .. Len(q)
    BY <1>1
  <1> HIDE DEF t
  <1>4. Range(t) \subseteq Range(q)
    BY <1>1, <1>2, <1>3 DEF Range
  <1>5. QED BY <1>1, <1>2, <1>3, <1>4 DEF t

\* RecordResponse keeps only old settlements and the new one.
LEMMA Records ==
  ASSUME NEW S, retained \in Seq(S), NEW r \in S, RecordResponse(r)
  PROVE  /\ retained' \in Seq(S)
         /\ Range(retained') \subseteq Range(retained) \cup {r}
  <1> DEFINE t == Without(r.id)
             u == Append(t, r)
  <1>1. t \in Seq(S) /\ Range(t) \subseteq Range(retained)
    <2> DEFINE at == {i \in DOMAIN retained : retained[i].id # r.id}
    <2>1. at \in SUBSET DOMAIN retained /\ t = Picked(at)
      BY DEF Without
    <2> HIDE DEF at, t
    <2>2. t \in Seq(S) /\ Range(t) = {retained[i] : i \in at}
      BY <2>1, Picks
    <2>3. QED BY <2>1, <2>2 DEF Range
  <1>2. u = t \o <<r>> /\ u \in Seq(S)
    BY <1>1
  <1>3. Range(u) = Range(t) \cup {r}
    <2>1. <<r>> \in Seq(S) /\ Range(<<r>>) = {r}
      BY One
    <2> DEFINE last == <<r>>
    <2> HIDE DEF t, last
    <2>2. t \in Seq(S) /\ last \in Seq(S)
      BY <1>1, <2>1 DEF last
    <2>3. Range(t \o last) = Range(t) \cup Range(last)
      BY <2>2, Appends
    <2>4. QED BY <1>2, <2>1, <2>3 DEF last
  <1>4. retained' = NewestOf(u)
    BY DEF RecordResponse
  <1>5. NewestOf(u) \in Seq(S) /\ Range(NewestOf(u)) \subseteq Range(u)
    <2> HIDE DEF u
    <2>1. CASE Len(u) > MaxResponses
      <3>1. Len(u) - MaxResponses + 1 \in 1 .. Len(u) + 1
        BY <1>2, <2>1, StoreAssumption
      <3>2. QED BY <1>2, <2>1, <3>1, SubRange DEF NewestOf
    <2>2. CASE ~(Len(u) > MaxResponses)
      BY <1>2, <2>2 DEF NewestOf
    <2>3. QED BY <2>1, <2>2
  <1>6. QED BY <1>1, <1>3, <1>4, <1>5

\* Writing to channels keeps their queues' type.
LEMMA WritesAll ==
  ASSUME NEW S, NEW q \in [Channels -> Seq(S)], NEW out \in [Channels -> Seq(S)]
  PROVE  Written(q, out) \in [Channels -> Seq(S)]
  <1>1. \A c \in Channels : q[c] \in Seq(S) /\ q[c] \o out[c] \in Seq(S)
    BY Appends
  <1>2. QED BY <1>1 DEF Written

\* A channel that is not up, or is written nothing, keeps its queue.
LEMMA WritesNot ==
  ASSUME NEW S, NEW q \in [Channels -> Seq(S)], NEW out, NEW c \in Channels,
         link[c] # "up" \/ out[c] = <<>>
  PROVE  Written(q, out)[c] = q[c]
  <1>1. q[c] \o <<>> = q[c]
    OBVIOUS
  <1>2. QED BY <1>1 DEF Written

\* What a write does to one channel's queue.
LEMMA WritesTo ==
  ASSUME NEW q, NEW out, NEW c \in Channels
  PROVE  /\ link[c] = "up" => Written(q, out)[c] = Joined(q[c], out[c])
         /\ link[c] # "up" => Written(q, out)[c] = q[c]
  BY DEF Written, Joined

\* Joined has the messages of both.
LEMMA Joins ==
  ASSUME NEW S, NEW q \in Seq(S), NEW r \in Seq(S)
  PROVE  Joined(q, r) \in Seq(S) /\ Range(Joined(q, r)) = Range(q) \cup Range(r)
  BY Appends DEF Joined

\* A write to one channel leaves the other queues alone.
LEMMA WritesOther ==
  ASSUME NEW S, NEW q \in [Channels -> Seq(S)], NEW c, NEW ms, NEW d \in Channels,
         d # c \/ link[d] # "up"
  PROVE  Written(q, OnlyTo(c, ms))[d] = q[d]
  <1>1. q[d] \o <<>> = q[d]
    OBVIOUS
  <1>2. QED BY <1>1 DEF Written, OnlyTo

\* A write to one channel appends to its queue.
LEMMA WritesHere ==
  ASSUME NEW q, NEW c \in Channels, NEW ms, link[c] = "up"
  PROVE  Written(q, OnlyTo(c, ms))[c] = Joined(q[c], ms)
  BY DEF Written, OnlyTo, Joined

\* A write to one channel: type and range of the queues.
LEMMA WritesOne ==
  ASSUME NEW S, NEW q \in [Channels -> Seq(S)], NEW c \in Channels, NEW ms \in Seq(S)
  PROVE  /\ Written(q, OnlyTo(c, ms)) \in [Channels -> Seq(S)]
         /\ link[c] = "up" => Range(Written(q, OnlyTo(c, ms))[c]) = Range(q[c]) \cup Range(ms)
  <1>1. \A d \in Channels : q[d] \o <<>> = q[d]
    OBVIOUS
  <1>2. q[c] \o ms \in Seq(S) /\ Range(q[c] \o ms) = Range(q[c]) \cup Range(ms)
    BY Appends
  <1>3. QED BY <1>1, <1>2 DEF Written, OnlyTo, Joined

\* Emptied clears the queues of cs only.
LEMMA Empties ==
  ASSUME NEW S, NEW q \in [Channels -> Seq(S)], NEW cs
  PROVE  /\ Emptied(q, cs) \in [Channels -> Seq(S)]
         /\ \A c \in Channels : Emptied(q, cs)[c] = IF c \in cs THEN <<>> ELSE q[c]
  BY DEF Emptied

\* Taking the head of one channel's queue.
LEMMA TakesOne ==
  ASSUME NEW S, NEW q \in [Channels -> Seq(S)], NEW c \in Channels, q[c] # <<>>
  PROVE  /\ [q EXCEPT ![c] = Tail(@)] \in [Channels -> Seq(S)]
         /\ \A d \in Channels : d # c => [q EXCEPT ![c] = Tail(@)][d] = q[d]
         /\ [q EXCEPT ![c] = Tail(@)][c] = Tail(q[c])
         /\ Head(q[c]) \in S
         /\ Range(q[c]) = Range(Tail(q[c])) \cup {Head(q[c])}
  BY Takes
----------------------------------------------------------------------------
(* The shell's steps.                                                      *)

\* A step that settles promises, closes clients and ends or begins attempts.
QuietStep == Quiet(h, h') /\ Becomes(h') /\ UNCHANGED ghostVars

\* Giving an attempt without a channel another step is quiet.
LEMMA Aims ==
  ASSUME NEW s \in HandleRecord, NEW a \in Attempts, NEW r \in AttemptRecord, ~Moving(r),
         IF a = Loop THEN r.why # "retry" ELSE r.pc # "waiting"
  PROVE  Quiet(s, [s EXCEPT !.attempt[a] = r])
  <1> DEFINE f == [s.attempt EXCEPT ![a] = r]
  <1>1. f \in AttemptSet /\ Halts(s.attempt, f)
    BY Attempting DEF HandleRecord
  <1>2. [s EXCEPT !.attempt[a] = r] = [s EXCEPT !.attempt = f]
    BY DEF HandleRecord
  <1> HIDE DEF f
  <1>3. QED BY <1>1, <1>2 DEF Quiet, Halts, SameClient, MaySettle, HandleRecord

\* Changing the state the handle shows is quiet.
LEMMA Says ==
  ASSUME NEW s \in HandleRecord, NEW st \in States
  PROVE  Quiet(s, [s EXCEPT !.state = st])
  BY DEF Quiet, Halts, SameClient, MaySettle, HandleRecord

\* Arming or disarming the sweep, and stopping, are quiet.
LEMMA Marks ==
  ASSUME NEW s \in HandleRecord, NEW b \in BOOLEAN, NEW d \in BOOLEAN
  PROVE  /\ Quiet(s, [s EXCEPT !.sweep = b])
         /\ Quiet(s, [s EXCEPT !.stopped = d, !.sweep = b])
  BY DEF Quiet, Halts, SameClient, MaySettle, HandleRecord

\* A quiet method ends in a handle's record.
LEMMA QuietIs ==
  ASSUME NEW s, NEW n, Quiet(s, n)
  PROVE  n \in HandleRecord
  BY DEF Quiet

\* Starting an attempt is quiet.
LEMMA Opens ==
  ASSUME NEW s \in HandleRecord, NEW a \in Attempts, NEW why \in {"start", "retry", "loop"},
         (a = Loop) <=> (why = "loop")
  PROVE  Quiet(s, [s EXCEPT !.attempt[a] = Opening(why)])
  BY Aims, IdleTypes

\* start() is quiet.
LEMMA StartQuiet ==
  ASSUME h \in HandleRecord, NEW a \in Foreground, Start(a)
  PROVE  QuietStep
  <1> DEFINE t == [h EXCEPT !.state = "connecting"]
             n == [t EXCEPT !.attempt[a] = Opening("start")]
  <1>1. Becomes(n) /\ UNCHANGED ghostVars
    <2>1. n = [h EXCEPT !.state = "connecting", !.attempt[a] = Opening("start")]
      BY DEF HandleRecord
    <2>2. QED BY <2>1 DEF Start
  <1>2. Quiet(h, t) /\ t \in HandleRecord
    BY Says, QuietIs DEF States
  <1>3. a \in Attempts /\ a # Loop
    BY Callers
  <1> HIDE DEF t
  <1>4. Quiet(t, n)
    BY <1>2, <1>3, Opens
  <1> HIDE DEF n
  <1>5. Quiet(h, n)
    BY <1>2, <1>4, QuietTrans
  <1>6. QED BY <1>1, <1>5 DEF QuietStep, Becomes

\* retryNow() is quiet.
LEMMA RetryQuiet ==
  ASSUME h \in HandleRecord, NEW a \in Foreground, RetryNow(a)
  PROVE  QuietStep
  <1> DEFINE s == [h EXCEPT !.state = "connecting"]
             t == TeardownChannel(s)
             u == [t EXCEPT !.attempt[a] = Opening("retry")]
             as == WaitingOn(h, h.client)
             n == FailAll(u, as)
  <1>1. Becomes(n) /\ UNCHANGED ghostVars
    BY DEF RetryNow
  <1>2. Quiet(h, s) /\ s \in HandleRecord
    BY Says, QuietIs DEF States
  <1>3. a \in Attempts /\ a # Loop /\ as \in SUBSET Attempts
    BY Callers DEF WaitingOn
  <1> HIDE DEF s, as
  <1>4. Quiet(s, t) /\ t \in HandleRecord
    BY <1>2, TearsDown, QuietIs
  <1> HIDE DEF t
  <1>5. Quiet(t, u) /\ u \in HandleRecord
    BY <1>3, <1>4, Opens, QuietIs
  <1> HIDE DEF u
  <1>6. Quiet(u, n)
    BY <1>3, <1>5, AllFail
  <1> HIDE DEF n
  <1>7. Quiet(h, n)
    BY <1>2, <1>4, <1>5, <1>6, QuietTrans
  <1>8. QED BY <1>1, <1>7 DEF QuietStep, Becomes

\* A turn of the reconnect loop is quiet.
LEMMA LoopQuiet ==
  ASSUME h \in HandleRecord, LoopTimer
  PROVE  QuietStep
  <1>1. CASE h.stopped
    <2> DEFINE n == LoopEnds(h)
    <2>1. Becomes(n) /\ UNCHANGED ghostVars
      BY <1>1 DEF LoopTimer
    <2>2. Quiet(h, n)
      BY LoopStops
    <2> HIDE DEF n
    <2>3. QED BY <2>1, <2>2 DEF QuietStep, Becomes
  <1>2. CASE ~h.stopped
    <2> DEFINE t == TeardownChannel(h)
               u == [t EXCEPT !.attempt[Loop] = Opening("loop")]
               as == WaitingOn(h, h.client)
               n == FailAll(u, as)
    <2>1. Becomes(n) /\ UNCHANGED ghostVars
      BY <1>2 DEF LoopTimer
    <2>2. Quiet(h, t) /\ t \in HandleRecord /\ as \in SUBSET Attempts
      BY TearsDown, QuietIs DEF WaitingOn
    <2> HIDE DEF t, as
    <2>3. Quiet(t, u) /\ u \in HandleRecord
      BY <2>2, Callers, Opens, QuietIs
    <2> HIDE DEF u
    <2>4. Quiet(u, n)
      BY <2>2, <2>3, AllFail
    <2> HIDE DEF n
    <2>5. Quiet(h, n)
      BY <2>2, <2>3, <2>4, QuietTrans
    <2>6. QED BY <2>1, <2>5 DEF QuietStep, Becomes
  <1>3. QED BY <1>1, <1>2

\* A failing attempt is quiet.
LEMMA FailsQuiet ==
  ASSUME h \in HandleRecord, NEW a \in Attempts,
         OpenFails(a) \/ HelloTimeout(a) \/ \E c \in Channels : ReceiveRefused(c)
  PROVE  QuietStep
  <1>1. PICK b \in Attempts : Becomes(ConnectFails(h, b)) /\ UNCHANGED ghostVars
    BY DEF OpenFails, HelloTimeout, ReceiveRefused
  <1> DEFINE n == ConnectFails(h, b)
  <1>2. Quiet(h, n)
    BY ConnectFailing
  <1>3. Becomes(n)
    BY <1>1
  <1> HIDE DEF n
  <1>4. QED BY <1>1, <1>2, <1>3 DEF QuietStep, Becomes

\* A closing client is quiet.
LEMMA ClosesQuiet ==
  ASSUME h \in HandleRecord, NEW c \in Channels, ClientCloses(c)
  PROVE  QuietStep
  <1> DEFINE s == CloseClient(h, c)
             t == IF h.client = c THEN OnConnectionLost(s) ELSE s
             as == WaitingOn(h, c)
             n == IF as = {} THEN t ELSE ConnectFails(t, CHOOSE a \in as : TRUE)
  <1>1. Becomes(n) /\ UNCHANGED ghostVars
    BY DEF ClientCloses
  <1>2. Quiet(h, s) /\ s \in HandleRecord
    BY Closes, QuietIs
  <1>3. as \in SUBSET Attempts /\ (as # {} => (CHOOSE a \in as : TRUE) \in Attempts)
    BY DEF WaitingOn
  <1> HIDE DEF s, as
  <1>4. Quiet(s, t) /\ t \in HandleRecord
    BY <1>2, LosesConnection, QuietSelf, QuietIs
  <1> HIDE DEF t
  <1>5. Quiet(t, n)
    BY <1>3, <1>4, ConnectFailing, QuietSelf
  <1> HIDE DEF n
  <1>6. Quiet(h, n)
    BY <1>2, <1>4, <1>5, QuietTrans
  <1>7. QED BY <1>1, <1>6 DEF QuietStep, Becomes

\* The sweep is quiet.
LEMMA SweepQuiet ==
  ASSUME h \in HandleRecord, SweepTick
  PROVE  QuietStep
  <1> DEFINE s == ExpireOwned(h)
             n == [s EXCEPT !.sweep = Owned(s) # {}]
  <1>1. Becomes(n) /\ UNCHANGED ghostVars
    BY DEF SweepTick
  <1>2. Quiet(h, s) /\ s \in HandleRecord
    BY Expires, QuietIs
  <1> HIDE DEF s
  <1>3. Quiet(s, n)
    <2>1. (Owned(s) # {}) \in BOOLEAN
      OBVIOUS
    <2> DEFINE b == Owned(s) # {}
    <2> HIDE DEF b
    <2>2. b \in BOOLEAN
      BY <2>1 DEF b
    <2>3. Quiet(s, [s EXCEPT !.sweep = b])
      BY <1>2, <2>2, Marks
    <2>4. QED BY <2>3 DEF b
  <1> HIDE DEF n
  <1>4. Quiet(h, n)
    BY <1>2, <1>3, QuietTrans
  <1>5. QED BY <1>1, <1>4 DEF QuietStep, Becomes

\* disconnect() is quiet.
LEMMA DisconnectQuiet ==
  ASSUME h \in HandleRecord, Disconnect
  PROVE  QuietStep
  <1> DEFINE r == [h EXCEPT !.stopped = TRUE, !.sweep = FALSE]
             s == FailOwned(r)
             t == TeardownChannel(s)
             u == [t EXCEPT !.state = "disconnected"]
             as == WaitingOn(h, h.client)
             n == FailAll(u, as)
  <1>1. Becomes(n) /\ UNCHANGED ghostVars
    BY DEF Disconnect
  <1>2. Quiet(h, r) /\ r \in HandleRecord /\ as \in SUBSET Attempts
    BY Marks, QuietIs DEF WaitingOn
  <1> HIDE DEF r, as
  <1>3. Quiet(r, s) /\ s \in HandleRecord
    BY <1>2, Fails, QuietIs
  <1> HIDE DEF s
  <1>4. Quiet(s, t) /\ t \in HandleRecord
    BY <1>3, TearsDown, QuietIs
  <1> HIDE DEF t
  <1>5. Quiet(t, u) /\ u \in HandleRecord
    BY <1>4, Says, QuietIs DEF States
  <1> HIDE DEF u
  <1>6. Quiet(u, n)
    BY <1>2, <1>5, AllFail
  <1> HIDE DEF n
  <1>7. Quiet(h, n)
    BY <1>2, <1>3, <1>4, <1>5, <1>6, QuietTrans
  <1>8. QED BY <1>1, <1>7 DEF QuietStep, Becomes

\* A message is taken off the channel by a client that is open.
Reads(c) ==
  /\ h.rpc[c].open /\ toClient[c] # <<>>
  /\ LET m == Head(toClient[c])
     IN  \/ m.type = "hello" /\ ReceiveHello(c)
         \/ m.type = "attached" /\ ReceiveAttached(c, m)
         \/ m.type = "push" /\ ReceivePush(c, m)
         \/ m.type = "response" /\ ReceiveResponse(c, m)
         \/ m.type = "superseded" /\ ReceiveSuperseded(c)

\* A step of the shell is quiet, reads a message, sends an invoke, lets one age,
\* or continues an attach.
LEMMA ShellSteps ==
  ASSUME h \in HandleRecord, ShellStep
  PROVE  \/ QuietStep
         \/ \E c \in Channels : Reads(c)
         \/ \E i \in MyInvokes : Invoke(i) \/ Age(i)
         \/ \E a \in Attempts : Continue(a)
  <1>1. ASSUME NEW a \in Foreground, Start(a) \/ RetryNow(a) PROVE QuietStep
    BY <1>1, StartQuiet, RetryQuiet
  <1>2. ASSUME NEW a \in Attempts, OpenFails(a) \/ HelloTimeout(a) PROVE QuietStep
    BY <1>2, FailsQuiet
  <1>3. ASSUME LoopTimer \/ SweepTick \/ Disconnect PROVE QuietStep
    BY <1>3, LoopQuiet, SweepQuiet, DisconnectQuiet
  <1>4. ASSUME NEW c \in Channels, NoticesClose(c) \/ Unresponsive(c) PROVE QuietStep
    BY <1>4, ClosesQuiet DEF NoticesClose, Unresponsive
  <1>5. ASSUME NEW c \in Channels, Receive(c)
        PROVE  QuietStep \/ Reads(c)
    <2>1. CASE ReceiveRefused(c)
      BY <2>1, Callers, FailsQuiet
    <2>2. CASE ~ReceiveRefused(c)
      BY <1>5, <2>2 DEF Receive, Reads
    <2>3. QED BY <2>1, <2>2
  <1>6. QED BY <1>1, <1>2, <1>3, <1>4, <1>5, Callers DEF ShellStep
\* A step that leaves the journal alone keeps its invariants.
LEMMA JournalSame ==
  ASSUME JournalTypeOK, RingInv, UNCHANGED <<ring, nextSeq, retainedBytes, journalled>>
  PROVE  JournalTypeOK' /\ RingInv'
  BY JournalTypeStep, RingInvStep DEF journalVars

\* CutLinks cuts the channels it is given only.
LEMMA LinkTypes ==
  ASSUME link \in [Channels -> Links], NEW cs, CutLinks(cs)
  PROVE  /\ link' \in [Channels -> Links]
         /\ \A c \in Channels : link'[c] = IF c \in cs THEN "cut" ELSE link[c]
  BY DEF CutLinks, Links

\* A quiet step keeps the types.
LEMMA QuietTypes ==
  ASSUME Types, QuietStep, UNCHANGED <<storeVars, hostVars>>
  PROVE  Types'
  <1> DEFINE closing == {c \in Channels : h.rpc[c].open /\ ~h'.rpc[c].open}
  <1>1. /\ CutLinks(closing) /\ toClient' = Emptied(toClient, closing) /\ toServer' = toServer
        /\ Quiet(h, h') /\ promised' = promised
    BY DEF QuietStep, Becomes, ghostVars
  <1>2. closing \subseteq Channels /\ \A c \in closing : h.rpc[c].open
    OBVIOUS
  <1> HIDE DEF closing
  <1>3. /\ link' \in [Channels -> Links]
        /\ \A c \in Channels : link'[c] = IF c \in closing THEN "cut" ELSE link[c]
    BY <1>1, LinkTypes DEF Types, WireTypes
  <1>4. /\ toClient' \in [Channels -> Seq(ToClientMessage)]
        /\ \A c \in Channels : toClient'[c] = IF c \in closing THEN <<>> ELSE toClient[c]
    BY <1>1 DEF Types, WireTypes, Emptied
  <1>5. JournalTypeOK' /\ RingInv'
    BY JournalSame DEF Types, storeVars
  <1>6. HostTypes'
    BY DEF Types, HostTypes, storeVars, hostVars, Connected
  <1>7. WireTypes' /\ GhostTypes' /\ h' \in HandleRecord
    BY <1>1, <1>3, <1>4 DEF Types, WireTypes, GhostTypes, Quiet
  <1>8. ChannelInv'
    <2> SUFFICES ASSUME NEW c \in Channels
                 PROVE  /\ link'[c] = "unused" <=> conn'[c] = "unused"
                        /\ link'[c] = "unused" =>
                             /\ toClient'[c] = <<>> /\ toServer'[c] = <<>> /\ due'[c] = <<>>
                             /\ ~h'.rpc[c].open /\ h'.rpc[c].pending = {} /\ h'.rpc[c].nextId = 0
                             /\ promised'[c] = {}
                        /\ link'[c] = "up" => c \in Connected'
                        /\ c \notin Connected' => toServer'[c] = <<>> /\ due'[c] = <<>>
                        /\ \A a \in Attempts : Moving(h'.attempt[a]) /\ h'.attempt[a].ch = c => link'[c] # "unused"
      BY DEF ChannelInv
    <2>1. conn' = conn /\ due' = due /\ Connected' = Connected
      BY DEF hostVars, Connected
    <2>2. /\ link[c] = "unused" <=> conn[c] = "unused"
          /\ link[c] = "unused" =>
               /\ toClient[c] = <<>> /\ toServer[c] = <<>> /\ due[c] = <<>>
               /\ ~h.rpc[c].open /\ h.rpc[c].pending = {} /\ h.rpc[c].nextId = 0 /\ promised[c] = {}
          /\ link[c] = "up" => c \in Connected
          /\ c \notin Connected => toServer[c] = <<>> /\ due[c] = <<>>
          /\ \A a \in Attempts : Moving(h.attempt[a]) /\ h.attempt[a].ch = c => link[c] # "unused"
      BY DEF Types, ChannelInv
    <2>3. SameClient(h, h', c) /\ Halts(h.attempt, h'.attempt)
      BY <1>1 DEF Quiet
    <2>4. link'[c] = "unused" <=> link[c] = "unused"
      BY <1>2, <1>3, <2>2
    <2>5. \A a \in Attempts : Moving(h'.attempt[a]) /\ h'.attempt[a].ch = c => link'[c] # "unused"
      BY <2>2, <2>3, <2>4 DEF Halts
    <2>6. link'[c] = "unused" => ~h'.rpc[c].open /\ h'.rpc[c].pending = {} /\ h'.rpc[c].nextId = 0
      BY <2>2, <2>3, <2>4 DEF SameClient
    <2>7. QED BY <1>1, <1>3, <1>4, <2>1, <2>2, <2>4, <2>5, <2>6
  <1>9. QED BY <1>5, <1>6, <1>7, <1>8 DEF Types
----------------------------------------------------------------------------
(* Dispatching and reconciling.                                            *)

\* The places of a set of invokes are 1 .. its size, each taken once.
LEMMA Numbers ==
  ASSUME NEW is \in SUBSET MyInvokes
  PROVE  /\ Cardinality(is) \in Nat
         /\ \A k \in 1 .. Cardinality(is) : \E i \in is : Place(is, i) = k
         /\ \A i \in is : Place(is, i) \in 1 .. Cardinality(is)
         /\ \A i, j \in is : Place(is, i) = Place(is, j) => i = j
  <1>1. is \in SUBSET Nat /\ IsFiniteSet(is)
    <2>1. IsFiniteSet(1 .. NInvokes)
      BY Callers, FS_Interval
    <2>2. QED BY <2>1, Callers, FS_Subset DEF MyInvokes
  <1>2. QED BY <1>1, Ranked DEF Place

\* The wire ids a dispatch hands out are new and distinct.
LEMMA WireIds ==
  ASSUME NEW s \in HandleRecord, s.client # None, NEW is \in SUBSET MyInvokes, NEW i \in is
  PROVE  /\ WireFor(s, is, i) \in CallId
         /\ WireFor(s, is, i).ch = s.client
         /\ WireFor(s, is, i).n > s.rpc[s.client].nextId
         /\ WireFor(s, is, i).n <= s.rpc[s.client].nextId + Cardinality(is)
         /\ \A j \in is : WireFor(s, is, i) = WireFor(s, is, j) => i = j
  <1>1. /\ Cardinality(is) \in Nat /\ \A j \in is : Place(is, j) \in 1 .. Cardinality(is)
        /\ \A j \in is : Place(is, i) = Place(is, j) => i = j
    BY Numbers
  <1>2. s.client \in Channels /\ s.rpc[s.client].nextId \in Nat
    BY DEF HandleRecord, ClientRecord
  <1> DEFINE n(j) == s.rpc[s.client].nextId + Place(is, j)
  <1>3. /\ \A j \in is : n(j) \in Nat \ {0} /\ n(j) > s.rpc[s.client].nextId
                         /\ n(j) <= s.rpc[s.client].nextId + Cardinality(is)
        /\ \A j \in is : n(i) = n(j) => i = j
    BY <1>1, <1>2
  <1>4. \A j : WireFor(s, is, j) = [ch |-> s.client, n |-> n(j)]
    BY DEF WireFor
  <1> HIDE DEF n
  <1>5. QED BY <1>2, <1>3, <1>4 DEF CallId

\* The invokes is leave through the client, each with an id of its own.
Leaves(s, n, is) ==
  LET c == s.client
  IN  /\ n = [s EXCEPT !.wire = n.wire, !.rpc = n.rpc]
      /\ n.wire = [i \in MyInvokes |-> IF i \in is THEN WireFor(s, is, i) ELSE s.wire[i]]
      /\ \A d \in Channels : d # c => n.rpc[d] = s.rpc[d]
      /\ n.rpc[c].open = s.rpc[c].open /\ n.rpc[c].seq = s.rpc[c].seq
      /\ n.rpc[c].pinging = s.rpc[c].pinging
      /\ n.rpc[c].nextId = s.rpc[c].nextId + Cardinality(is)
      /\ n.rpc[c].pending = s.rpc[c].pending \cup {[id |-> WireFor(s, is, i), inv |-> i] : i \in is}

\* dispatchOwned: quiet with no live client, else every invoke of is gets an id.
LEMMA Dispatches ==
  ASSUME NEW s \in HandleRecord, NEW is \in SUBSET Owned(s)
  PROVE  LET n == Dispatched(s, is)
         IN  /\ n \in HandleRecord
             /\ s.client = None \/ ~s.rpc[s.client].open => Quiet(s, n) /\ OnlyOwned(s, n)
             /\ s.client # None /\ s.rpc[s.client].open => Leaves(s, n, is)
  <1> DEFINE n == Dispatched(s, is)
  <1>0. is \in SUBSET MyInvokes
    BY DEF Owned
  <1>1. CASE s.client = None
    <2>1. n = s
      BY <1>1 DEF Dispatched
    <2> HIDE DEF n
    <2>2. Quiet(s, n) /\ OnlyOwned(s, n)
      BY <2>1, QuietSelf DEF OnlyOwned, HandleRecord
    <2>3. QED BY <1>1, <2>1, <2>2 DEF n
  <1>2. CASE s.client # None /\ ~s.rpc[s.client].open
    <2>1. n = Settle(s, is, "failed")
      BY <1>2 DEF Dispatched
    <2>2. Quiet(s, n) /\ OnlyOwned(s, n)
      BY <2>1, Settles
    <2>3. QED BY <1>2, <2>2, QuietIs
  <1>3. CASE s.client # None /\ s.rpc[s.client].open
    <2> DEFINE c == s.client
               new == {[id |-> WireFor(s, is, i), inv |-> i] : i \in is}
               w == [i \in MyInvokes |-> IF i \in is THEN WireFor(s, is, i) ELSE s.wire[i]]
               p == [s.rpc[c] EXCEPT !.nextId = @ + Cardinality(is), !.pending = @ \cup new]
               r == [s.rpc EXCEPT ![c] = p]
    <2>1. /\ c \in Channels /\ s.rpc \in [Channels -> ClientRecord] /\ s.rpc[c] \in ClientRecord
          /\ s.wire \in [MyInvokes -> CallId \cup {NoWire}]
      BY <1>3 DEF HandleRecord
    <2>2. n = [s EXCEPT !.wire = w, !.rpc = r]
      BY <1>3, <2>1 DEF Dispatched, HandleRecord, ClientRecord
    <2>3. \A i \in is : WireFor(s, is, i) \in CallId
      BY <1>0, <1>3, WireIds
    <2>4. w \in [MyInvokes -> CallId \cup {NoWire}]
      BY <2>1, <2>3
    <2>5. new \in SUBSET Pending
      BY <1>0, <2>3 DEF Pending
    <2>6. Cardinality(is) \in Nat
      BY <1>0, Numbers
    <2> HIDE DEF w, new
    <2>7. p \in ClientRecord
      <3> DEFINE k == s.rpc[c].nextId + Cardinality(is)
                 q == s.rpc[c].pending \cup new
      <3>1. k \in Nat /\ q \in SUBSET Pending
        BY <2>1, <2>5, <2>6 DEF ClientRecord
      <3>2. p = [s.rpc[c] EXCEPT !.nextId = k, !.pending = q]
        OBVIOUS
      <3> HIDE DEF k, q, p
      <3>3. QED BY <2>1, <3>1, <3>2 DEF ClientRecord
    <2>8. /\ p.open = s.rpc[c].open /\ p.seq = s.rpc[c].seq /\ p.pinging = s.rpc[c].pinging
          /\ p.nextId = s.rpc[c].nextId + Cardinality(is) /\ p.pending = s.rpc[c].pending \cup new
      BY <2>1 DEF ClientRecord
    <2> HIDE DEF p
    <2>9. r \in [Channels -> ClientRecord] /\ r[c] = p /\ \A d \in Channels : d # c => r[d] = s.rpc[d]
      BY <2>1, <2>7
    <2> HIDE DEF r
    <2>10. n \in HandleRecord
      BY <2>2, <2>4, <2>9 DEF HandleRecord
    <2>11. n.wire = w /\ n.rpc = r /\ n = [s EXCEPT !.wire = n.wire, !.rpc = n.rpc]
      BY <2>2 DEF HandleRecord
    <2> HIDE DEF n
    <2>12. Leaves(s, n, is)
      BY <2>8, <2>9, <2>11 DEF Leaves, w, new
    <2>13. QED BY <1>3, <2>10, <2>12 DEF n
  <1>4. QED BY <1>1, <1>2, <1>3

\* Each of the invokes is has a request in q.
Covers(q, is) == \A i \in is : \E k \in DOMAIN q : q[k].inv = i

\* What is written when they do.
LEMMA RequestsAre ==
  ASSUME NEW s \in HandleRecord, s.client # None, NEW is \in SUBSET MyInvokes
  PROVE  LET q == Requests(s, is)
         IN  /\ q \in Seq(InvokeMessages)
             /\ \A k \in DOMAIN q : q[k].type = "invoke" /\ q[k].inv \in is /\ q[k].id = WireFor(s, is, q[k].inv)
             /\ \A k, l \in DOMAIN q : q[k].inv = q[l].inv => k = l
             /\ Covers(q, is)
  <1> DEFINE n == Cardinality(is)
             sent(k) == CHOOSE i \in is : Place(is, i) = k
             msg(k) == [type |-> "invoke", id |-> WireFor(s, is, sent(k)), inv |-> sent(k)]
  <1>1. n \in Nat /\ \A k \in 1 .. n : sent(k) \in is /\ Place(is, sent(k)) = k
    BY Numbers
  <1>2. \A k \in 1 .. n : WireFor(s, is, sent(k)) \in CallId
    BY <1>1, WireIds
  <1>3. Requests(s, is) = [k \in 1 .. n |-> msg(k)]
    BY DEF Requests
  <1>4. \A k, l \in 1 .. n : sent(k) = sent(l) => k = l
    BY <1>1
  <1>7. \A i \in is : \E k \in 1 .. n : sent(k) = i
    <2> TAKE i \in is
    <2>1. Place(is, i) \in 1 .. n
      BY Numbers
    <2>2. sent(Place(is, i)) \in is /\ Place(is, sent(Place(is, i))) = Place(is, i)
      BY <1>1, <2>1
    <2> DEFINE j == sent(Place(is, i))
    <2> HIDE DEF j
    <2>3. j = i
      BY <2>2, Numbers DEF j
    <2>4. QED BY <2>1, <2>3 DEF j
  <1> HIDE DEF n, sent
  <1>5. \A k \in 1 .. n : msg(k) \in InvokeMessages
    BY <1>1, <1>2 DEF InvokeMessages
  <1>6. QED BY <1>1, <1>3, <1>4, <1>5, <1>7 DEF Covers

\* The cursor of the session is the one the daemon reported, or later.
CursorAdopted(s, n, c, r) ==
  /\ n \in HandleRecord
  /\ n = [s EXCEPT !.rpc = n.rpc, !.epoch = r.epoch, !.lastSeq = n.lastSeq]
  /\ n.lastSeq = IF r.status = "ok" /\ s.lastSeq > r.seq THEN s.lastSeq ELSE r.seq
  /\ \A d \in Channels :
       /\ n.rpc[d].open = s.rpc[d].open /\ n.rpc[d].nextId = s.rpc[d].nextId
       /\ n.rpc[d].pending = s.rpc[d].pending /\ n.rpc[d].pinging = s.rpc[d].pinging
       /\ n.rpc[d].seq = IF r.status # "ok" /\ d = c THEN r.seq ELSE s.rpc[d].seq

\* What AdoptCursor changes.
LEMMA AdoptsCursor ==
  ASSUME NEW s \in HandleRecord, NEW c \in Channels, NEW r \in Results
  PROVE  CursorAdopted(s, AdoptCursor(s, c, r), c, r)
  <1> DEFINE n == AdoptCursor(s, c, r)
             q == IF r.status = "ok" THEN s.rpc[c].seq ELSE r.seq
             p == [s.rpc[c] EXCEPT !.seq = q]
             f == [s.rpc EXCEPT ![c] = p]
             l == IF r.status = "ok" /\ s.lastSeq > r.seq THEN s.lastSeq ELSE r.seq
  <1>1. /\ s.rpc \in [Channels -> ClientRecord] /\ s.rpc[c] \in ClientRecord
        /\ r.epoch \in 0 .. MaxEpoch /\ r.seq \in Cursor /\ s.lastSeq \in Cursor
    BY DEF HandleRecord, Results
  <1>2. n = [s EXCEPT !.epoch = r.epoch, !.lastSeq = l, !.rpc = f]
    BY <1>1 DEF AdoptCursor, HandleRecord, ClientRecord
  <1>3. q \in Cursor /\ l \in Cursor
    BY <1>1 DEF ClientRecord
  <1> HIDE DEF q
  <1>4. /\ p \in ClientRecord /\ p.open = s.rpc[c].open /\ p.nextId = s.rpc[c].nextId
        /\ p.pending = s.rpc[c].pending /\ p.pinging = s.rpc[c].pinging /\ p.seq = q
    BY <1>1, <1>3 DEF ClientRecord
  <1> HIDE DEF p
  <1>5. f \in [Channels -> ClientRecord] /\ f[c] = p /\ \A d \in Channels : d # c => f[d] = s.rpc[d]
    BY <1>1, <1>4
  <1> HIDE DEF f, l
  <1>6. /\ n \in HandleRecord /\ n.rpc = f /\ n.lastSeq = l
        /\ n = [s EXCEPT !.rpc = n.rpc, !.epoch = r.epoch, !.lastSeq = n.lastSeq]
    BY <1>1, <1>2, <1>3, <1>5 DEF HandleRecord
  <1> HIDE DEF n
  <1>7. \A d \in Channels :
          /\ n.rpc[d].open = s.rpc[d].open /\ n.rpc[d].nextId = s.rpc[d].nextId
          /\ n.rpc[d].pending = s.rpc[d].pending /\ n.rpc[d].pinging = s.rpc[d].pinging
          /\ n.rpc[d].seq = IF r.status # "ok" /\ d = c THEN r.seq ELSE s.rpc[d].seq
    BY <1>4, <1>5, <1>6 DEF q
  <1>8. QED BY <1>6, <1>7 DEF l, n, CursorAdopted

\* adopt: each adopted invoke is waited for, or fails with the client.
Adopts(s, n, r) ==
  /\ n = [s EXCEPT !.owned = n.owned, !.rpc = n.rpc]
  /\ s.client # None /\ s.rpc[s.client].open =>
       /\ n.owned = s.owned
       /\ n.rpc[s.client].pending = s.rpc[s.client].pending \cup {[id |-> s.wire[i], inv |-> i] : i \in Adopted(s, r)}
  /\ ~(s.client # None /\ s.rpc[s.client].open) =>
       /\ n.rpc = s.rpc
       /\ \A i \in MyInvokes : n.owned[i] = IF i \in Adopted(s, r) THEN "failed" ELSE s.owned[i]
  /\ \A d \in Channels :
       /\ n.rpc[d].open = s.rpc[d].open /\ n.rpc[d].nextId = s.rpc[d].nextId
       /\ n.rpc[d].seq = s.rpc[d].seq /\ n.rpc[d].pinging = s.rpc[d].pinging
       /\ d # s.client => n.rpc[d].pending = s.rpc[d].pending

\* What becomes of the handle when the verdicts of an attach result are in,
\* before the requests that may be are sent again.
Reconciled(s, n, r) ==
  LET again == SentAgain(s, r)
  IN  /\ n = [s EXCEPT !.owned = n.owned, !.wire = n.wire, !.rpc = n.rpc]
      /\ \A i \in MyInvokes :
           /\ MaySettle(s, n, i)
           /\ n.wire[i] = IF i \in again THEN NoWire ELSE s.wire[i]
           /\ n.owned[i] = "owned" /\ i \notin again =>
                /\ s.client # None /\ s.rpc[s.client].open /\ s.wire[i] \in DOMAIN r.verdict
                /\ r.verdict[s.wire[i]] # "unknown"
                /\ [id |-> s.wire[i], inv |-> i] \in n.rpc[s.client].pending
      /\ again \subseteq Owned(n) /\ again \subseteq Owned(s)
      /\ \A i \in again : i \notin Mutations \/ s.wire[i] = NoWire
      /\ \A d \in Channels :
           /\ n.rpc[d].open = s.rpc[d].open /\ n.rpc[d].nextId = s.rpc[d].nextId
           /\ n.rpc[d].seq = s.rpc[d].seq
           /\ s.rpc[d].pending \subseteq n.rpc[d].pending
           /\ \A p \in n.rpc[d].pending :
                \/ p \in s.rpc[d].pending
                \/ d = s.client /\ s.rpc[d].open /\ s.wire[p.inv] = p.id
                   /\ s.owned[p.inv] = "owned" /\ p.inv \in MyInvokes \ again

\* What Adopt changes.
LEMMA AdoptsAll ==
  ASSUME NEW s \in HandleRecord, NEW r \in Results
  PROVE  Adopt(s, r) \in HandleRecord /\ Adopts(s, Adopt(s, r), r)
  <1> DEFINE n == Adopt(s, r)
             is == Adopted(s, r)
  <1>1. is \in SUBSET Owned(s)
    BY DEF Adopted
  <1>2. CASE s.client = None
    <2>1. n = s /\ is = {}
      BY <1>2 DEF Adopt, Adopted
    <2>2. QED BY <1>2, <2>1 DEF Adopts, HandleRecord
  <1>3. CASE s.client # None /\ ~s.rpc[s.client].open
    <2>1. n = Settle(s, is, "failed")
      BY <1>3 DEF Adopt
    <2>2. /\ n \in HandleRecord /\ OnlyOwned(s, n)
          /\ \A i \in MyInvokes : n.owned[i] = IF i \in is THEN "failed" ELSE s.owned[i]
      BY <1>1, <2>1, Settles, QuietIs
    <2> HIDE DEF n, is
    <2>3. n.rpc = s.rpc /\ n = [s EXCEPT !.owned = n.owned, !.rpc = n.rpc]
      BY <2>2 DEF OnlyOwned, HandleRecord
    <2>4. QED BY <1>3, <2>2, <2>3 DEF Adopts, n, is
  <1>4. CASE s.client # None /\ s.rpc[s.client].open
    <2> DEFINE c == s.client
               new == {[id |-> s.wire[i], inv |-> i] : i \in is}
               q == s.rpc[c].pending \cup new
               p == [s.rpc[c] EXCEPT !.pending = q]
               f == [s.rpc EXCEPT ![c] = p]
    <2>1. /\ c \in Channels /\ s.rpc \in [Channels -> ClientRecord] /\ s.rpc[c] \in ClientRecord
          /\ s.wire \in [MyInvokes -> CallId \cup {NoWire}]
      BY <1>4 DEF HandleRecord
    <2>2. n = [s EXCEPT !.rpc = f]
      BY <1>4, <2>1 DEF Adopt, HandleRecord, ClientRecord
    <2>3. \A i \in is : i \in MyInvokes /\ s.wire[i] \in CallId
      <3>1. \A i \in is : i \in MyInvokes /\ s.wire[i] \in DOMAIN r.verdict
        BY <1>4 DEF Adopted, Owned
      <3>2. DOMAIN r.verdict \subseteq CallId
        BY DEF Results, Verdicts
      <3>3. QED BY <3>1, <3>2
    <2>4. q \in SUBSET Pending
      BY <2>1, <2>3 DEF Pending, ClientRecord
    <2> HIDE DEF q
    <2>5. /\ p \in ClientRecord /\ p.open = s.rpc[c].open /\ p.nextId = s.rpc[c].nextId
          /\ p.seq = s.rpc[c].seq /\ p.pinging = s.rpc[c].pinging /\ p.pending = q
      BY <2>1, <2>4 DEF ClientRecord
    <2> HIDE DEF p
    <2>6. f \in [Channels -> ClientRecord] /\ f[c] = p /\ \A d \in Channels : d # c => f[d] = s.rpc[d]
      BY <2>1, <2>5
    <2> HIDE DEF f
    <2>7. /\ n \in HandleRecord /\ n.rpc = f /\ n.owned = s.owned
          /\ n = [s EXCEPT !.owned = n.owned, !.rpc = n.rpc]
      BY <2>2, <2>6 DEF HandleRecord
    <2> HIDE DEF n
    <2>8. n.rpc[c].pending = s.rpc[c].pending \cup {[id |-> s.wire[i], inv |-> i] : i \in Adopted(s, r)}
      BY <2>5, <2>6, <2>7 DEF q
    <2>9. Adopts(s, n, r)
      BY <1>4, <2>5, <2>6, <2>7, <2>8 DEF Adopts
    <2>10. QED BY <2>7, <2>9 DEF n
  <1>5. QED BY <1>2, <1>3, <1>4

\* What reconcile changes before it dispatches again.
LEMMA Reconciles ==
  ASSUME NEW s \in HandleRecord, NEW r \in Results
  PROVE  LET n == Forgotten(Lost(Adopt(s, r), r), SentAgain(s, r))
         IN  n \in HandleRecord /\ Reconciled(s, n, r)
  <1> DEFINE again == SentAgain(s, r)
             t == Adopt(s, r)
             u == Lost(t, r)
             w == [i \in MyInvokes |-> IF i \in again THEN NoWire ELSE u.wire[i]]
             n == Forgotten(u, again)
  <1>1. t \in HandleRecord /\ Adopts(s, t, r)
    BY AdoptsAll
  <1> HIDE DEF t
  <1>2. /\ t.wire = s.wire /\ t.client = s.client
        /\ \A i \in MyInvokes : t.owned[i] = s.owned[i] \/ (i \in Adopted(s, r) /\ t.owned[i] = "failed"
                                                            /\ ~s.rpc[s.client].open)
    BY <1>1 DEF Adopts, HandleRecord, Adopted
  <1>3. Owned(t) \subseteq Owned(s)
    BY <1>2 DEF Owned
  <1>4. \A i \in Owned(t) : i \in Adopted(t, r) <=> i \in Adopted(s, r)
    BY <1>2, <1>3 DEF Adopted
  <1>5. \A i \in Owned(t) : i \in SentAgain(t, r) <=> i \in again
    BY <1>2, <1>3, <1>4 DEF SentAgain
  <1>6. again \subseteq Owned(t) /\ again \subseteq Owned(s)
        /\ \A i \in again : i \notin Mutations \/ s.wire[i] = NoWire
    BY <1>2 DEF SentAgain, Owned
  <1> DEFINE lost == Owned(t) \ (Adopted(t, r) \cup SentAgain(t, r))
  <1>7. lost \in SUBSET Owned(t) /\ lost \subseteq Mutations /\ lost \cap again = {}
    <2>1. lost \subseteq Mutations
      BY DEF SentAgain
    <2>2. QED BY <2>1, <1>5
  <1>8. u = Settle(t, lost, "lost")
    BY DEF Lost
  <1>9. \A i \in Owned(t) \ lost : i \in Adopted(s, r) \/ i \in again
    BY <1>4, <1>5
  <1> HIDE DEF lost, again, u
  <1>10. /\ Quiet(t, u) /\ OnlyOwned(t, u) /\ u \in HandleRecord
         /\ \A i \in MyInvokes : u.owned[i] = IF i \in lost THEN "lost" ELSE t.owned[i]
    <2>1. lost \in SUBSET Owned(t) /\ lost \subseteq Mutations
      BY <1>7
    <2> DEFINE v == Settle(t, lost, "lost")
    <2>2. /\ Quiet(t, v) /\ OnlyOwned(t, v)
          /\ \A i \in MyInvokes : v.owned[i] = IF i \in lost THEN "lost" ELSE t.owned[i]
      BY <1>1, <2>1, Settles
    <2>3. u = v
      BY <1>8
    <2> HIDE DEF v
    <2>4. QED BY <2>2, <2>3, QuietIs
  <1>11. w \in [MyInvokes -> CallId \cup {NoWire}]
    BY <1>10 DEF HandleRecord
  <1>12. n = [u EXCEPT !.wire = w]
    BY DEF Forgotten
  <1>13. u.wire = s.wire
    BY <1>2, <1>10 DEF Quiet
  <1>14. \A i \in MyInvokes : w[i] = IF i \in again THEN NoWire ELSE s.wire[i]
    BY <1>13
  <1> HIDE DEF w
  <1>15. /\ n \in HandleRecord /\ n.wire = w /\ n.owned = u.owned /\ n.rpc = u.rpc
    BY <1>10, <1>11, <1>12 DEF HandleRecord
  <1> HIDE DEF n
  <1>16. n = [s EXCEPT !.owned = n.owned, !.wire = n.wire, !.rpc = n.rpc] /\ n.rpc = t.rpc
    <2>1. u = [t EXCEPT !.owned = u.owned] /\ t = [s EXCEPT !.owned = t.owned, !.rpc = t.rpc]
      BY <1>1, <1>10 DEF OnlyOwned, Adopts
    <2>2. u = [s EXCEPT !.owned = u.owned, !.rpc = t.rpc] /\ u.rpc = t.rpc
      BY <1>1, <2>1 DEF HandleRecord
    <2>3. QED BY <1>10, <1>12, <1>15, <2>2 DEF HandleRecord
  <1>17. \A i \in MyInvokes : MaySettle(s, n, i)
    BY <1>2, <1>7, <1>10, <1>15 DEF MaySettle, Owned, Adopted
  <1>18. ASSUME NEW i \in MyInvokes, n.owned[i] = "owned", i \notin again
         PROVE  /\ s.client # None /\ s.rpc[s.client].open /\ s.wire[i] \in DOMAIN r.verdict
                /\ r.verdict[s.wire[i]] # "unknown"
                /\ [id |-> s.wire[i], inv |-> i] \in n.rpc[s.client].pending
    <2>1. i \in Owned(t) \ lost
      BY <1>10, <1>15, <1>18 DEF Owned
    <2>2. i \in Adopted(s, r) /\ t.owned[i] = "owned"
      BY <1>9, <1>18, <2>1 DEF Owned
    <2>3. s.client # None /\ s.rpc[s.client].open
      <3>1. s.client # None
        BY <2>2 DEF Adopted
      <3>2. s.rpc[s.client].open
        BY <1>1, <2>2, <3>1 DEF Adopts
      <3>3. QED BY <3>1, <3>2
    <2>4. [id |-> s.wire[i], inv |-> i] \in t.rpc[s.client].pending
      BY <1>1, <2>2, <2>3 DEF Adopts
    <2>5. QED BY <1>16, <2>2, <2>3, <2>4 DEF Adopted
  <1>19. again \subseteq Owned(n)
    BY <1>6, <1>7, <1>10, <1>15 DEF Owned
  <1>20. ASSUME NEW d \in Channels
         PROVE  /\ n.rpc[d].open = s.rpc[d].open /\ n.rpc[d].nextId = s.rpc[d].nextId
                /\ n.rpc[d].seq = s.rpc[d].seq
                /\ s.rpc[d].pending \subseteq n.rpc[d].pending
                /\ \A p \in n.rpc[d].pending :
                     \/ p \in s.rpc[d].pending
                     \/ d = s.client /\ s.rpc[d].open /\ s.wire[p.inv] = p.id
                        /\ s.owned[p.inv] = "owned" /\ p.inv \in MyInvokes \ again
    <2>1. /\ t.rpc[d].open = s.rpc[d].open /\ t.rpc[d].nextId = s.rpc[d].nextId
          /\ t.rpc[d].seq = s.rpc[d].seq
      BY <1>1 DEF Adopts
    <2>2. CASE d = s.client /\ s.client # None /\ s.rpc[s.client].open
      <3>1. t.rpc[d].pending = s.rpc[d].pending \cup {[id |-> s.wire[i], inv |-> i] : i \in Adopted(s, r)}
        BY <1>1, <2>2 DEF Adopts
      <3>2. \A i \in Adopted(s, r) : s.owned[i] = "owned" /\ i \in MyInvokes \ again
        BY DEF Adopted, Owned, SentAgain, again
      <3>3. QED BY <1>16, <2>1, <2>2, <3>1, <3>2
    <2>3. CASE ~(d = s.client /\ s.client # None /\ s.rpc[s.client].open)
      <3>1. t.rpc[d].pending = s.rpc[d].pending
        BY <1>1, <2>3 DEF Adopts
      <3>2. QED BY <1>16, <2>1, <3>1
    <2>4. QED BY <2>2, <2>3
  <1>21. Reconciled(s, n, r)
    BY <1>6, <1>14, <1>15, <1>16, <1>17, <1>18, <1>19, <1>20 DEF Reconciled, again
  <1>22. QED BY <1>15, <1>21 DEF n, u, t, again

\* A step that dispatches the invokes is, written as q if the client is open.
Up == h.client # None /\ h.rpc[h.client].open
Calls(is, q) ==
  /\ is \in SUBSET MyInvokes /\ q \in Seq(InvokeMessages) /\ (~Up => q = <<>>)
  /\ toServer' \in [Channels -> Seq(ToServerMessage)]
  /\ \A d \in Channels :
       toServer'[d] = IF Up /\ d = h.client /\ link[d] = "up" THEN Joined(toServer[d], q) ELSE toServer[d]
  /\ link' = link /\ toClient' = toClient
  /\ h' \in HandleRecord /\ h'.client = h.client
  /\ \A k \in DOMAIN q : q[k].type = "invoke" /\ q[k].inv \in is /\ q[k].id = h'.wire[q[k].inv]
  /\ \A k, l \in DOMAIN q : q[k].inv = q[l].inv => k = l
  /\ (Up => Covers(q, is))
  /\ \A i \in MyInvokes \ is : h'.wire[i] = h.wire[i]
  /\ ~Up => \A i \in is : h'.wire[i] \in {NoWire, h.wire[i]}
  /\ Up => \A i \in is :
       /\ h'.wire[i] \in CallId /\ h'.wire[i].ch = h.client
       /\ h'.wire[i].n > h.rpc[h.client].nextId /\ h'.wire[i].n <= h'.rpc[h.client].nextId
       /\ \A j \in is : h'.wire[i] = h'.wire[j] => i = j
  /\ \A d \in Channels :
       /\ h'.rpc[d].open = h.rpc[d].open /\ h.rpc[d].nextId <= h'.rpc[d].nextId
       /\ ~h.rpc[d].open => h'.rpc[d].nextId = h.rpc[d].nextId
       /\ h.rpc[d].pending \subseteq h'.rpc[d].pending
       /\ \A p \in h'.rpc[d].pending \ h.rpc[d].pending :
            d = h.client /\ h.rpc[d].open /\ p.inv \in MyInvokes /\ p.id = h'.wire[p.inv]

\* The same of the handle's dispatch alone, from s to n.
Dispatch(s, n, is) ==
  LET up == s.client # None /\ s.rpc[s.client].open
  IN  /\ n \in HandleRecord
      /\ n = [s EXCEPT !.owned = n.owned, !.wire = n.wire, !.rpc = n.rpc]
      /\ \A i \in MyInvokes \ is : n.wire[i] = s.wire[i] /\ n.owned[i] = s.owned[i]
      /\ ~up => \A i \in is : n.wire[i] = s.wire[i] /\ n.owned[i] \in {s.owned[i], "failed"}
      /\ up => \A i \in is :
           /\ n.owned[i] = s.owned[i]
           /\ n.wire[i] = WireFor(s, is, i)
           /\ n.wire[i] \in CallId /\ n.wire[i].ch = s.client
           /\ n.wire[i].n > s.rpc[s.client].nextId /\ n.wire[i].n <= n.rpc[s.client].nextId
           /\ \A j \in is : n.wire[i] = n.wire[j] => i = j
      /\ \A d \in Channels :
           /\ n.rpc[d].open = s.rpc[d].open /\ n.rpc[d].seq = s.rpc[d].seq
           /\ n.rpc[d].pinging = s.rpc[d].pinging
           /\ s.rpc[d].nextId <= n.rpc[d].nextId
           /\ ~s.rpc[d].open => n.rpc[d].nextId = s.rpc[d].nextId
           /\ s.rpc[d].pending \subseteq n.rpc[d].pending
           /\ \A p \in n.rpc[d].pending \ s.rpc[d].pending :
                d = s.client /\ s.rpc[d].open /\ p.inv \in is /\ p.id = n.wire[p.inv]

\* What the promises and ids of a dispatch become.
LEMMA Dispatching ==
  ASSUME NEW s \in HandleRecord, NEW is \in SUBSET Owned(s)
  PROVE  Dispatch(s, Dispatched(s, is), is)
  <1> DEFINE n == Dispatched(s, is)
  <1>0. is \in SUBSET MyInvokes
    BY DEF Owned
  <1>1. CASE s.client = None \/ ~s.rpc[s.client].open
    <2>1. n \in HandleRecord /\ Quiet(s, n) /\ OnlyOwned(s, n)
      BY <1>1, Dispatches
    <2>2. \A i \in MyInvokes \ is : n.owned[i] = s.owned[i]
      <3>1. CASE s.client = None
        BY <3>1 DEF Dispatched
      <3>2. CASE s.client # None
        <4>1. n = Settle(s, is, "failed")
          BY <1>1, <3>2 DEF Dispatched
        <4>2. QED BY <4>1, Settles
      <3>3. QED BY <3>1, <3>2
    <2>3. \A i \in is : n.owned[i] \in {s.owned[i], "failed"}
      <3>1. CASE s.client = None
        BY <3>1 DEF Dispatched
      <3>2. CASE s.client # None
        <4>1. n = Settle(s, is, "failed")
          BY <1>1, <3>2 DEF Dispatched
        <4>2. QED BY <1>0, <4>1, Settles
      <3>3. QED BY <3>1, <3>2
    <2> HIDE DEF n
    <2>4. n.rpc = s.rpc /\ n.wire = s.wire /\ n = [s EXCEPT !.owned = n.owned, !.wire = n.wire, !.rpc = n.rpc]
      BY <2>1 DEF OnlyOwned, HandleRecord
    <2>5. \A d \in Channels : s.rpc[d].nextId \in Nat
      BY DEF HandleRecord, ClientRecord
    <2>6. QED BY <1>0, <1>1, <2>1, <2>2, <2>3, <2>4, <2>5 DEF Dispatch, n
  <1>2. CASE s.client # None /\ s.rpc[s.client].open
    <2>1. n \in HandleRecord /\ Leaves(s, n, is)
      BY <1>2, Dispatches
    <2> HIDE DEF n
    <2> DEFINE c == s.client
    <2>2. c \in Channels /\ Cardinality(is) \in Nat /\ \A d \in Channels : s.rpc[d].nextId \in Nat
      BY <1>0, <1>2, Numbers DEF HandleRecord, ClientRecord
    <2>3. /\ n.rpc[c].nextId = s.rpc[c].nextId + Cardinality(is)
          /\ \A d \in Channels : d # c => n.rpc[d] = s.rpc[d]
          /\ n.rpc[c].open = s.rpc[c].open /\ n.rpc[c].seq = s.rpc[c].seq
          /\ n.rpc[c].pinging = s.rpc[c].pinging
          /\ n.rpc[c].pending = s.rpc[c].pending \cup {[id |-> WireFor(s, is, i), inv |-> i] : i \in is}
          /\ \A i \in MyInvokes : n.wire[i] = IF i \in is THEN WireFor(s, is, i) ELSE s.wire[i]
      BY <2>1 DEF Leaves
    <2>4. n = [s EXCEPT !.owned = n.owned, !.wire = n.wire, !.rpc = n.rpc] /\ n.owned = s.owned
      BY <2>1 DEF Leaves, HandleRecord
    <2>5. \A i \in is :
            /\ n.wire[i] = WireFor(s, is, i)
            /\ n.wire[i] \in CallId /\ n.wire[i].ch = c
            /\ n.wire[i].n > s.rpc[c].nextId /\ n.wire[i].n <= n.rpc[c].nextId
            /\ \A j \in is : n.wire[i] = n.wire[j] => i = j
      <3>1. ASSUME NEW i \in is
            PROVE  /\ n.wire[i] = WireFor(s, is, i)
                   /\ WireFor(s, is, i) \in CallId /\ WireFor(s, is, i).ch = c
                   /\ WireFor(s, is, i).n > s.rpc[c].nextId /\ WireFor(s, is, i).n <= n.rpc[c].nextId
                   /\ \A j \in is : WireFor(s, is, i) = WireFor(s, is, j) => i = j
        BY <1>0, <1>2, <2>3, WireIds
      <3>2. QED BY <3>1
    <2>6. ASSUME NEW d \in Channels
          PROVE  /\ n.rpc[d].open = s.rpc[d].open /\ n.rpc[d].seq = s.rpc[d].seq
                 /\ n.rpc[d].pinging = s.rpc[d].pinging
                 /\ s.rpc[d].nextId <= n.rpc[d].nextId
                 /\ ~s.rpc[d].open => n.rpc[d].nextId = s.rpc[d].nextId
                 /\ s.rpc[d].pending \subseteq n.rpc[d].pending
                 /\ \A p \in n.rpc[d].pending \ s.rpc[d].pending :
                      d = s.client /\ s.rpc[d].open /\ p.inv \in is /\ p.id = n.wire[p.inv]
      <3>1. CASE d = c
        <4>1. ASSUME NEW p \in n.rpc[c].pending \ s.rpc[c].pending
              PROVE  p.inv \in is /\ p.id = n.wire[p.inv]
          <5>1. PICK i \in is : p = [id |-> WireFor(s, is, i), inv |-> i]
            BY <2>3, <4>1
          <5>2. n.wire[i] = WireFor(s, is, i)
            BY <2>5
          <5>3. QED BY <5>1, <5>2
        <4>2. s.rpc[c].pending \subseteq n.rpc[c].pending
          BY <2>3
        <4>3. s.rpc[c].nextId <= n.rpc[c].nextId
          BY <2>2, <2>3
        <4> HIDE DEF c
        <4>4. QED BY <1>2, <2>3, <3>1, <4>1, <4>2, <4>3 DEF c
      <3>2. CASE d # c
        BY <2>2, <2>3, <3>2
      <3>3. QED BY <3>1, <3>2
    <2>7. \A i \in MyInvokes \ is : n.wire[i] = s.wire[i]
      BY <2>3
    <2>8. QED BY <1>0, <1>2, <2>1, <2>4, <2>5, <2>6, <2>7 DEF Dispatch, n
  <1>3. QED BY <1>1, <1>2

\* What a dispatch writes, and where.
LEMMA WritesUp ==
  ASSUME h \in HandleRecord, toServer \in [Channels -> Seq(ToServerMessage)],
         NEW q \in Seq(ToServerMessage),
         toServer' = IF Up THEN Written(toServer, OnlyTo(h.client, q)) ELSE toServer
  PROVE  /\ toServer' \in [Channels -> Seq(ToServerMessage)]
         /\ \A d \in Channels :
              toServer'[d] = IF Up /\ d = h.client /\ link[d] = "up" THEN Joined(toServer[d], q) ELSE toServer[d]
  <1>1. CASE Up
    <2> DEFINE c == h.client
               w == Written(toServer, OnlyTo(c, q))
    <2>1. c \in Channels
      BY <1>1 DEF Up, HandleRecord
    <2>2. w \in [Channels -> Seq(ToServerMessage)]
      BY <2>1, WritesOne
    <2>3. \A d \in Channels : d # c \/ link[d] # "up" => w[d] = toServer[d]
      BY WritesOther
    <2>4. link[c] = "up" => w[c] = Joined(toServer[c], q)
      BY <2>1, WritesHere
    <2>5. toServer' = w
      BY <1>1
    <2> HIDE DEF w
    <2>6. QED BY <1>1, <2>2, <2>3, <2>4, <2>5
  <1>2. CASE ~Up
    BY <1>2
  <1>3. QED BY <1>1, <1>2

\* invoke() as a dispatch of one.
LEMMA InvokeCalls ==
  ASSUME Types, NEW i \in MyInvokes, Invoke(i)
  PROVE  /\ \E q : Calls({i}, q)
         /\ h' = [h EXCEPT !.owned = h'.owned, !.wire = h'.wire, !.rpc = h'.rpc]
         /\ h.owned[i] = "new" /\ h'.owned[i] \in {"owned", "failed"}
         /\ \A j \in MyInvokes \ {i} : h'.owned[j] = h.owned[j]
         /\ \A d \in Channels : h'.rpc[d].seq = h.rpc[d].seq
         /\ UNCHANGED ghostVars
  <1> DEFINE s == [h EXCEPT !.owned[i] = "owned"]
             o == [h.owned EXCEPT ![i] = "owned"]
             is == {i}
             q == IF Up THEN Requests(h, is) ELSE <<>>
  <1>1. h \in HandleRecord /\ h.owned[i] = "new" /\ h' = Dispatched(s, is) /\ Sends(h, is) /\ UNCHANGED ghostVars
    BY DEF Types, Invoke
  <1>2. s = [h EXCEPT !.owned = o]
    BY <1>1 DEF HandleRecord
  <1>3. o \in [MyInvokes -> Promises] /\ o[i] = "owned" /\ \A j \in MyInvokes \ {i} : o[j] = h.owned[j]
    BY <1>1 DEF HandleRecord, Promises
  <1> HIDE DEF o
  <1>4. /\ s \in HandleRecord /\ s.owned = o /\ s.wire = h.wire /\ s.rpc = h.rpc /\ s.client = h.client
    BY <1>1, <1>2, <1>3 DEF HandleRecord
  <1> HIDE DEF s
  <1>5. is \in SUBSET MyInvokes /\ is \in SUBSET Owned(s)
    BY <1>3, <1>4 DEF Owned
  <1> HIDE DEF is
  <1>6. Dispatch(s, h', is)
    BY <1>1, <1>4, <1>5, Dispatching
  <1>7. /\ h' \in HandleRecord
        /\ h' = [s EXCEPT !.owned = h'.owned, !.wire = h'.wire, !.rpc = h'.rpc]
    BY <1>6 DEF Dispatch
  <1>8. h' = [h EXCEPT !.owned = h'.owned, !.wire = h'.wire, !.rpc = h'.rpc] /\ h'.client = h.client
    BY <1>1, <1>2, <1>7 DEF HandleRecord
  <1>9. q \in Seq(InvokeMessages) /\ (Up => q = Requests(h, is)) /\ (~Up => q = <<>>)
    BY <1>1, <1>5, RequestsAre DEF Up
  <1>10. Calls(is, q)
    <2>1. /\ Up => /\ \A k \in DOMAIN q : q[k].type = "invoke" /\ q[k].inv \in is /\ q[k].id = WireFor(h, is, q[k].inv)
                   /\ \A k, l \in DOMAIN q : q[k].inv = q[l].inv => k = l
      BY <1>1, <1>5, <1>9, RequestsAre DEF Up
    <2>2. \A j : WireFor(h, is, j) = WireFor(s, is, j)
      BY <1>4 DEF WireFor
    <2>3. Up <=> s.client # None /\ s.rpc[s.client].open
      BY <1>4 DEF Up
    <2>4. /\ \A k \in DOMAIN q : q[k].type = "invoke" /\ q[k].inv \in is /\ q[k].id = h'.wire[q[k].inv]
          /\ \A k, l \in DOMAIN q : q[k].inv = q[l].inv => k = l
      <3>1. CASE Up
        <4>1. \A j \in is : h'.wire[j] = WireFor(s, is, j)
          BY <1>6, <2>3, <3>1 DEF Dispatch
        <4>2. QED BY <2>1, <2>2, <3>1, <4>1
      <3>2. CASE ~Up
        BY <1>9, <3>2
      <3>3. QED BY <3>1, <3>2
    <2>5. /\ link' = link /\ toClient' = toClient
          /\ toServer' = IF Up THEN Written(toServer, OnlyTo(h.client, q)) ELSE toServer
      BY <1>1, <1>9 DEF Sends, Up
    <2>6. /\ toServer' \in [Channels -> Seq(ToServerMessage)]
          /\ \A d \in Channels :
               toServer'[d] = IF Up /\ d = h.client /\ link[d] = "up" THEN Joined(toServer[d], q) ELSE toServer[d]
      <3>1. toServer \in [Channels -> Seq(ToServerMessage)] /\ q \in Seq(ToServerMessage)
        BY <1>9 DEF Types, WireTypes, ToServerMessage
      <3> HIDE DEF q
      <3>2. QED BY <1>1, <2>5, <3>1, WritesUp
    <2>7. /\ \A j \in MyInvokes \ is : h'.wire[j] = h.wire[j]
          /\ ~Up => \A j \in is : h'.wire[j] \in {NoWire, h.wire[j]}
          /\ Up => \A j \in is :
               /\ h'.wire[j] \in CallId /\ h'.wire[j].ch = h.client
               /\ h'.wire[j].n > h.rpc[h.client].nextId /\ h'.wire[j].n <= h'.rpc[h.client].nextId
               /\ \A k \in is : h'.wire[j] = h'.wire[k] => j = k
      BY <1>4, <1>6, <2>3 DEF Dispatch
    <2>8. \A d \in Channels :
           /\ h'.rpc[d].open = h.rpc[d].open /\ h.rpc[d].nextId <= h'.rpc[d].nextId
           /\ ~h.rpc[d].open => h'.rpc[d].nextId = h.rpc[d].nextId
           /\ h.rpc[d].pending \subseteq h'.rpc[d].pending
           /\ \A p \in h'.rpc[d].pending \ h.rpc[d].pending :
                d = h.client /\ h.rpc[d].open /\ p.inv \in MyInvokes /\ p.id = h'.wire[p.inv]
      BY <1>4, <1>5, <1>6 DEF Dispatch
    <2>10. Up => Covers(q, is)
      BY <1>1, <1>5, <1>9, RequestsAre DEF Up
    <2> HIDE DEF q
    <2>9. QED BY <1>5, <1>7, <1>8, <1>9, <2>10, <2>4, <2>5, <2>6, <2>7, <2>8 DEF Calls
  <1>11. h'.owned[i] \in {"owned", "failed"} /\ \A j \in MyInvokes \ {i} : h'.owned[j] = h.owned[j]
    <2>1. i \in is /\ \A j \in MyInvokes \ {i} : j \notin is
      BY DEF is
    <2>2. QED BY <1>3, <1>4, <1>6, <2>1 DEF Dispatch
  <1>12. \A d \in Channels : h'.rpc[d].seq = h.rpc[d].seq
    BY <1>4, <1>6 DEF Dispatch
  <1>13. QED BY <1>1, <1>8, <1>10, <1>11, <1>12 DEF is

\* The attempt a is over, and the handle connected.
Connecting(s, n, a) ==
  /\ n \in HandleRecord
  /\ n.owned = s.owned /\ n.wire = s.wire /\ n.client = s.client /\ n.epoch = s.epoch
  /\ n.lastSeq = s.lastSeq /\ n.stopped = s.stopped /\ n.state = "connected"
  /\ n.attempt = [s.attempt EXCEPT ![a] = Idle]
  /\ n.reconnecting = IF a = Loop THEN FALSE ELSE s.reconnecting
  /\ \A d \in Channels :
       /\ n.rpc[d].open = s.rpc[d].open /\ n.rpc[d].seq = s.rpc[d].seq
       /\ n.rpc[d].pending = s.rpc[d].pending /\ n.rpc[d].nextId = s.rpc[d].nextId

\* What a successful attach does to its attempt and to the handle's state.
LEMMA ConnectsAll ==
  ASSUME NEW s \in HandleRecord, NEW a \in Attempts, NEW c \in Channels
  PROVE  Connecting(s, Connects(s, a, c), a)
  <1> DEFINE n == Connects(s, a, c)
             b1 == s.started \/ s.attempt[a].why = "start"
             b2 == IF a = Loop THEN FALSE ELSE s.reconnecting
             p == [s.rpc[c] EXCEPT !.pinging = s.rpc[c].open]
             f == [s.rpc EXCEPT ![c] = p]
             g == [s.attempt EXCEPT ![a] = Idle]
  <1>1. /\ s.rpc \in [Channels -> ClientRecord] /\ s.rpc[c] \in ClientRecord
        /\ s.started \in BOOLEAN /\ s.reconnecting \in BOOLEAN /\ s.attempt \in AttemptSet
    BY DEF HandleRecord
  <1>2. g \in AttemptSet
    BY <1>1, Attempting, IdleTypes
  <1>3. n = [s EXCEPT !.sweep = FALSE, !.state = "connected", !.started = b1, !.rpc = f,
                      !.reconnecting = b2, !.attempt = g]
    BY <1>1 DEF Connects, HandleRecord, ClientRecord
  <1>4. b1 \in BOOLEAN /\ b2 \in BOOLEAN
    BY <1>1
  <1>5. /\ p \in ClientRecord /\ p.open = s.rpc[c].open /\ p.seq = s.rpc[c].seq
        /\ p.pending = s.rpc[c].pending /\ p.nextId = s.rpc[c].nextId
    BY <1>1 DEF ClientRecord
  <1> HIDE DEF p, g, b1, b2
  <1>6. f \in [Channels -> ClientRecord] /\ f[c] = p /\ \A d \in Channels : d # c => f[d] = s.rpc[d]
    BY <1>1, <1>5
  <1> HIDE DEF f
  <1>7. \A b, d, e \in BOOLEAN :
          [s EXCEPT !.sweep = b, !.state = "connected", !.started = d, !.rpc = f,
                    !.reconnecting = e, !.attempt = g] \in HandleRecord
    BY <1>2, <1>6 DEF HandleRecord, States
  <1>8. n \in HandleRecord
    BY <1>3, <1>4, <1>7, FALSE \in BOOLEAN
  <1>9. /\ n.owned = s.owned /\ n.wire = s.wire /\ n.client = s.client /\ n.epoch = s.epoch
        /\ n.lastSeq = s.lastSeq /\ n.stopped = s.stopped /\ n.state = "connected"
        /\ n.attempt = g /\ n.reconnecting = b2 /\ n.rpc = f
    BY <1>3 DEF HandleRecord
  <1> HIDE DEF n
  <1>10. QED BY <1>5, <1>6, <1>8, <1>9 DEF g, b2, n, Connecting

\* The step in which an attach result is acted upon.
Reattaches(a, again) ==
  LET c == h.attempt[a].ch
      r == h.attempt[a].result
  IN  /\ h.attempt[a].pc = "reconciling"
      /\ c \in Channels /\ r \in Results /\ link[c] # "unused"
      /\ again \subseteq Owned(h) /\ \A i \in again : i \notin Mutations \/ h.wire[i] = NoWire
      /\ \A i \in MyInvokes :
           /\ MaySettle(h, h', i)
           /\ h'.owned[i] = "owned" /\ i \notin again =>
                Up /\ h.wire[i] \in DOMAIN r.verdict /\ r.verdict[h.wire[i]] # "unknown"
      /\ \A d \in Channels : h'.rpc[d].seq = IF r.status # "ok" /\ d = c THEN r.seq ELSE h.rpc[d].seq
      /\ h'.epoch = r.epoch
      /\ h'.lastSeq = IF r.status = "ok" /\ h.lastSeq > r.seq THEN h.lastSeq ELSE r.seq
      /\ h'.state = "connected" /\ h'.stopped = h.stopped
      /\ h'.attempt = [h.attempt EXCEPT ![a] = Idle]
      /\ h'.reconnecting = IF a = Loop THEN FALSE ELSE h.reconnecting
      /\ promised' = [promised EXCEPT ![c] =
           IF r.status = "ok" THEN {<<r.epoch, n>> : n \in h.rpc[c].seq + 1 .. r.seq} ELSE {}]
      /\ accounted' = IF r.status = "ok" THEN accounted
                      ELSE accounted \cup {<<r.epoch, n>> : n \in 0 .. r.seq}
      /\ UNCHANGED <<got, repeated, blind, dropped>>

\* Continue as a reattach that dispatches again.
LEMMA ContinueCalls ==
  ASSUME Types, NEW a \in Attempts, Continue(a)
  PROVE  \E again, q : Reattaches(a, again) /\ Calls(again, q)
  <1> DEFINE c == h.attempt[a].ch
             r == h.attempt[a].result
             s == AdoptCursor(h, c, r)
             again == SentAgain(s, r)
             k == Forgotten(Lost(Adopt(s, r), r), again)
             d == Dispatched(k, again)
             q == IF Up THEN Requests(k, again) ELSE <<>>
  <1>1. /\ h \in HandleRecord /\ h.attempt[a].pc = "reconciling" /\ h.attempt \in AttemptSet
        /\ h' = Connects(d, a, c) /\ Sends(k, again)
        /\ promised' = [promised EXCEPT ![c] =
             IF r.status = "ok" THEN {<<r.epoch, n>> : n \in h.rpc[c].seq + 1 .. r.seq} ELSE {}]
        /\ accounted' = IF r.status = "ok" THEN accounted
                        ELSE accounted \cup {<<r.epoch, n>> : n \in 0 .. r.seq}
        /\ UNCHANGED <<got, repeated, blind, dropped>>
    BY DEF Types, Continue, HandleRecord
  <1>2. c \in Channels /\ r \in Results
    BY <1>1 DEF AttemptSet, AttemptRecord, Moving
  <1>3. link[c] # "unused"
    BY <1>1, <1>2 DEF Types, ChannelInv, Moving
  <1> HIDE DEF c, r
  <1>0. CursorAdopted(h, s, c, r)
    BY <1>1, <1>2, AdoptsCursor
  <1> HIDE DEF s
  <1>4. /\ s \in HandleRecord
        /\ s = [h EXCEPT !.rpc = s.rpc, !.epoch = r.epoch, !.lastSeq = s.lastSeq]
        /\ s.lastSeq = IF r.status = "ok" /\ h.lastSeq > r.seq THEN h.lastSeq ELSE r.seq
        /\ \A x \in Channels :
             /\ s.rpc[x].open = h.rpc[x].open /\ s.rpc[x].nextId = h.rpc[x].nextId
             /\ s.rpc[x].pending = h.rpc[x].pending /\ s.rpc[x].pinging = h.rpc[x].pinging
             /\ s.rpc[x].seq = IF r.status # "ok" /\ x = c THEN r.seq ELSE h.rpc[x].seq
    BY <1>0 DEF CursorAdopted
  <1>5. k \in HandleRecord /\ Reconciled(s, k, r)
    BY <1>2, <1>4, Reconciles
  <1> HIDE DEF k
  <1>6. again \in SUBSET Owned(k) /\ again \subseteq Owned(s)
    BY <1>5 DEF Reconciled
  <1>7. Dispatch(k, d, again)
    BY <1>5, <1>6, Dispatching
  <1> HIDE DEF d, again
  <1>8. d \in HandleRecord /\ d = [k EXCEPT !.owned = d.owned, !.wire = d.wire, !.rpc = d.rpc]
    BY <1>7 DEF Dispatch
  <1>9. /\ s.owned = h.owned /\ s.wire = h.wire /\ s.client = h.client /\ s.epoch = r.epoch
        /\ s.stopped = h.stopped /\ s.attempt = h.attempt /\ s.reconnecting = h.reconnecting
    BY <1>1, <1>4 DEF HandleRecord
  <1>10. /\ k.client = h.client /\ k.epoch = r.epoch /\ k.lastSeq = s.lastSeq
         /\ k.stopped = h.stopped /\ k.attempt = h.attempt /\ k.reconnecting = h.reconnecting
    <2>1. k = [s EXCEPT !.owned = k.owned, !.wire = k.wire, !.rpc = k.rpc]
      BY <1>5 DEF Reconciled
    <2>2. QED BY <1>4, <1>9, <2>1 DEF HandleRecord
  <1>11. /\ d.client = h.client /\ d.epoch = r.epoch /\ d.lastSeq = s.lastSeq
         /\ d.stopped = h.stopped /\ d.attempt = h.attempt /\ d.reconnecting = h.reconnecting
    BY <1>5, <1>8, <1>10 DEF HandleRecord
  <1>28. Connecting(d, h', a)
    BY <1>1, <1>2, <1>8, ConnectsAll
  <1>12. /\ h' \in HandleRecord
         /\ h'.owned = d.owned /\ h'.wire = d.wire /\ h'.client = h.client /\ h'.epoch = r.epoch
         /\ h'.lastSeq = s.lastSeq /\ h'.stopped = h.stopped /\ h'.state = "connected"
         /\ h'.attempt = [h.attempt EXCEPT ![a] = Idle]
         /\ h'.reconnecting = IF a = Loop THEN FALSE ELSE h.reconnecting
         /\ \A x \in Channels :
              /\ h'.rpc[x].open = d.rpc[x].open /\ h'.rpc[x].seq = d.rpc[x].seq
              /\ h'.rpc[x].pending = d.rpc[x].pending /\ h'.rpc[x].nextId = d.rpc[x].nextId
    BY <1>11, <1>28 DEF Connecting
  <1>13. Up <=> k.client # None /\ k.rpc[k.client].open
    <2>1. \A x \in Channels : k.rpc[x].open = h.rpc[x].open
      BY <1>4, <1>5 DEF Reconciled
    <2>2. h.client \in Channels \cup {None}
      BY <1>1 DEF HandleRecord
    <2>3. QED BY <1>10, <2>1, <2>2 DEF Up
  <1>14. \A i \in MyInvokes :
           /\ MaySettle(h, h', i)
           /\ h'.owned[i] = "owned" /\ i \notin again =>
                Up /\ h.wire[i] \in DOMAIN r.verdict /\ r.verdict[h.wire[i]] # "unknown"
    <2> TAKE i \in MyInvokes
    <2>1. /\ MaySettle(s, k, i)
          /\ k.owned[i] = "owned" /\ i \notin again =>
               /\ s.client # None /\ s.rpc[s.client].open /\ s.wire[i] \in DOMAIN r.verdict
               /\ r.verdict[s.wire[i]] # "unknown"
      BY <1>5 DEF Reconciled, again
    <2>2. /\ i \notin again => d.owned[i] = k.owned[i]
          /\ i \in again => d.owned[i] \in {k.owned[i], "failed"}
      BY <1>7 DEF Dispatch
    <2>3. i \in again => k.owned[i] = "owned" /\ s.owned[i] = "owned"
      BY <1>6 DEF Owned
    <2>4. MaySettle(h, h', i)
      BY <1>9, <1>12, <2>1, <2>2, <2>3 DEF MaySettle
    <2>5. s.client # None /\ s.rpc[s.client].open => Up
      <3>1. h.client \in Channels \cup {None}
        BY <1>1 DEF HandleRecord
      <3>2. QED BY <1>4, <1>9, <3>1 DEF Up
    <2>6. QED BY <1>9, <1>12, <2>1, <2>2, <2>4, <2>5
  <1>15. again \subseteq Owned(h) /\ again \in SUBSET MyInvokes /\ \A i \in again : i \notin Mutations \/ h.wire[i] = NoWire
    BY <1>5, <1>6, <1>9 DEF Reconciled, Owned, again
  <1>16. \A x \in Channels :
           /\ h'.rpc[x].open = h.rpc[x].open
           /\ h'.rpc[x].seq = IF r.status # "ok" /\ x = c THEN r.seq ELSE h.rpc[x].seq
    BY <1>4, <1>5, <1>7, <1>12 DEF Reconciled, Dispatch
  <1>17. Reattaches(a, again)
    BY <1>1, <1>2, <1>3, <1>4, <1>12, <1>14, <1>15, <1>16 DEF Reattaches, c, r
  <1>18. /\ q \in Seq(InvokeMessages) /\ (~Up => q = <<>>)
         /\ \A x \in DOMAIN q : q[x].type = "invoke" /\ q[x].inv \in again /\ q[x].id = WireFor(k, again, q[x].inv)
         /\ \A x, y \in DOMAIN q : q[x].inv = q[y].inv => x = y
         /\ (Up => Covers(q, again))
    <2>1. CASE Up
      BY <1>5, <1>13, <1>15, <2>1, RequestsAre
    <2>2. CASE ~Up
      BY <2>2
    <2>3. QED BY <2>1, <2>2
  <1>19. /\ link' = link /\ toClient' = toClient
         /\ toServer' = IF Up THEN Written(toServer, OnlyTo(h.client, q)) ELSE toServer
    <2>1. Up => q = Requests(k, again)
      OBVIOUS
    <2> HIDE DEF q
    <2>2. QED BY <1>1, <1>10, <1>13, <2>1 DEF Sends
  <1> HIDE DEF q
  <1>20. \A x \in DOMAIN q : q[x].id = h'.wire[q[x].inv]
    <2>1. CASE Up
      BY <1>7, <1>12, <1>13, <1>18, <2>1 DEF Dispatch
    <2>2. CASE ~Up
      BY <1>18, <2>2
    <2>3. QED BY <2>1, <2>2
  <1>21. /\ toServer' \in [Channels -> Seq(ToServerMessage)]
         /\ \A x \in Channels :
              toServer'[x] = IF Up /\ x = h.client /\ link[x] = "up" THEN Joined(toServer[x], q) ELSE toServer[x]
    <2>1. toServer \in [Channels -> Seq(ToServerMessage)] /\ q \in Seq(ToServerMessage)
      BY <1>18 DEF Types, WireTypes, ToServerMessage
    <2>2. QED BY <1>1, <1>19, <2>1, WritesUp
  <1>22. /\ \A i \in MyInvokes \ again : h'.wire[i] = h.wire[i]
         /\ ~Up => \A i \in again : h'.wire[i] \in {NoWire, h.wire[i]}
    <2>1. \A i \in MyInvokes : k.wire[i] = IF i \in again THEN NoWire ELSE s.wire[i]
      BY <1>5 DEF Reconciled, again
    <2>2. \A i \in MyInvokes \ again : h'.wire[i] = h.wire[i]
      BY <1>7, <1>9, <1>12, <2>1 DEF Dispatch
    <2>3. ~Up => \A i \in again : h'.wire[i] = NoWire
      BY <1>7, <1>12, <1>13, <1>15, <2>1 DEF Dispatch
    <2>4. QED BY <2>2, <2>3
  <1>23. Up => h.client \in Channels
    BY <1>1 DEF HandleRecord, Up
  <1>24. Up => \A i \in again :
       /\ h'.wire[i] \in CallId /\ h'.wire[i].ch = h.client
       /\ h'.wire[i].n > h.rpc[h.client].nextId /\ h'.wire[i].n <= h'.rpc[h.client].nextId
       /\ \A j \in again : h'.wire[i] = h'.wire[j] => i = j
    <2>1. Up => k.rpc[h.client].nextId = h.rpc[h.client].nextId /\ h'.rpc[h.client].nextId = d.rpc[h.client].nextId
      BY <1>4, <1>5, <1>12, <1>23 DEF Reconciled
    <2>2. QED BY <1>7, <1>10, <1>12, <1>13, <2>1 DEF Dispatch
  <1>25. ASSUME NEW x \in Channels
         PROVE  /\ h.rpc[x].nextId <= h'.rpc[x].nextId
                /\ ~h.rpc[x].open => h'.rpc[x].nextId = h.rpc[x].nextId
                /\ h.rpc[x].pending \subseteq h'.rpc[x].pending
                /\ \A p \in h'.rpc[x].pending \ h.rpc[x].pending :
                     x = h.client /\ h.rpc[x].open /\ p.inv \in MyInvokes /\ p.id = h'.wire[p.inv]
    <2>1. /\ s.rpc[x].open = h.rpc[x].open /\ s.rpc[x].nextId = h.rpc[x].nextId
          /\ s.rpc[x].pending = h.rpc[x].pending
      BY <1>4
    <2>2. /\ k.rpc[x].open = s.rpc[x].open /\ k.rpc[x].nextId = s.rpc[x].nextId
          /\ s.rpc[x].pending \subseteq k.rpc[x].pending
          /\ \A p \in k.rpc[x].pending :
               \/ p \in s.rpc[x].pending
               \/ x = s.client /\ s.rpc[x].open /\ s.wire[p.inv] = p.id
                  /\ s.owned[p.inv] = "owned" /\ p.inv \in MyInvokes \ again
      BY <1>5 DEF Reconciled, again
    <2>3. /\ k.rpc[x].nextId <= d.rpc[x].nextId
          /\ ~k.rpc[x].open => d.rpc[x].nextId = k.rpc[x].nextId
          /\ k.rpc[x].pending \subseteq d.rpc[x].pending
          /\ \A p \in d.rpc[x].pending \ k.rpc[x].pending :
               x = k.client /\ k.rpc[x].open /\ p.inv \in again /\ p.id = d.wire[p.inv]
      BY <1>7 DEF Dispatch
    <2>4. /\ h'.rpc[x].nextId = d.rpc[x].nextId /\ h'.rpc[x].pending = d.rpc[x].pending
      BY <1>12
    <2>5. ASSUME NEW p \in h'.rpc[x].pending \ h.rpc[x].pending
          PROVE  x = h.client /\ h.rpc[x].open /\ p.inv \in MyInvokes /\ p.id = h'.wire[p.inv]
      <3>1. CASE p \in k.rpc[x].pending
        BY <1>9, <1>22, <2>1, <2>2, <2>5, <3>1
      <3>2. CASE p \notin k.rpc[x].pending
        BY <1>10, <1>12, <1>15, <2>1, <2>2, <2>3, <2>4, <2>5, <3>2
      <3>3. QED BY <3>1, <3>2
    <2>6. QED BY <2>1, <2>2, <2>3, <2>4, <2>5
  <1>26. Calls(again, q)
    BY <1>12, <1>15, <1>16, <1>18, <1>19, <1>20, <1>21, <1>22, <1>24, <1>25 DEF Calls
  <1>27. QED BY <1>17, <1>26

----------------------------------------------------------------------------
(* Every step keeps the types.                                             *)

\* ChannelInv, channel by channel.
LEMMA ChannelFacts ==
  ASSUME Types, NEW c \in Channels
  PROVE  /\ link[c] = "unused" <=> conn[c] = "unused"
         /\ link[c] = "unused" =>
              /\ toClient[c] = <<>> /\ toServer[c] = <<>> /\ due[c] = <<>>
              /\ ~h.rpc[c].open /\ h.rpc[c].pending = {} /\ h.rpc[c].nextId = 0 /\ promised[c] = {}
         /\ link[c] = "up" => c \in Connected
         /\ c \notin Connected => toServer[c] = <<>> /\ due[c] = <<>>
         /\ \A a \in Attempts : Moving(h.attempt[a]) /\ h.attempt[a].ch = c => link[c] # "unused"
  BY DEF Types, ChannelInv

\* A step of the shell keeps the daemon's types.
LEMMA HostSame ==
  ASSUME Types, UNCHANGED <<storeVars, hostVars>>
  PROVE  JournalTypeOK' /\ RingInv' /\ HostTypes' /\ conn' = conn /\ due' = due /\ Connected' = Connected
  <1>1. JournalTypeOK' /\ RingInv'
    BY JournalSame DEF Types, storeVars
  <1>2. HostTypes' /\ conn' = conn /\ due' = due /\ Connected' = Connected
    BY DEF Types, HostTypes, storeVars, hostVars, Connected
  <1>3. QED BY <1>1, <1>2

\* A dispatch keeps the types.
LEMMA CallTypes ==
  ASSUME Types, NEW is, NEW q, Calls(is, q), UNCHANGED <<storeVars, hostVars>>,
         Halts(h.attempt, h'.attempt), promised' \in [Channels -> SUBSET (Nat \X Nat)],
         \A c \in Channels : link[c] = "unused" => promised'[c] = {}
  PROVE  Types'
  <1>1. JournalTypeOK' /\ RingInv' /\ HostTypes' /\ conn' = conn /\ due' = due /\ Connected' = Connected
    BY HostSame
  <1>2. /\ link' = link /\ toClient' = toClient /\ h' \in HandleRecord
        /\ toServer' \in [Channels -> Seq(ToServerMessage)]
        /\ \A d \in Channels :
             toServer'[d] = IF Up /\ d = h.client /\ link[d] = "up" THEN Joined(toServer[d], q) ELSE toServer[d]
        /\ \A d \in Channels :
             /\ h'.rpc[d].open = h.rpc[d].open
             /\ ~h.rpc[d].open => h'.rpc[d].nextId = h.rpc[d].nextId
    BY DEF Calls
  <1>6. ASSUME NEW d \in Channels, ~h.rpc[d].open PROVE h'.rpc[d].pending = h.rpc[d].pending
    <2>1. h.rpc[d].pending \subseteq h'.rpc[d].pending
      BY DEF Calls
    <2>2. \A p \in h'.rpc[d].pending : p \in h.rpc[d].pending
      BY <1>6 DEF Calls
    <2>3. QED BY <2>1, <2>2
  <1>3. WireTypes' /\ GhostTypes' /\ h' \in HandleRecord
    BY <1>2 DEF Types, WireTypes, GhostTypes
  <1>4. ChannelInv'
    <2> SUFFICES ASSUME NEW c \in Channels
                 PROVE  /\ link'[c] = "unused" <=> conn'[c] = "unused"
                        /\ link'[c] = "unused" =>
                             /\ toClient'[c] = <<>> /\ toServer'[c] = <<>> /\ due'[c] = <<>>
                             /\ ~h'.rpc[c].open /\ h'.rpc[c].pending = {} /\ h'.rpc[c].nextId = 0
                             /\ promised'[c] = {}
                        /\ link'[c] = "up" => c \in Connected'
                        /\ c \notin Connected' => toServer'[c] = <<>> /\ due'[c] = <<>>
                        /\ \A a \in Attempts : Moving(h'.attempt[a]) /\ h'.attempt[a].ch = c => link'[c] # "unused"
      BY DEF ChannelInv
    <2>1. \A a \in Attempts : Moving(h'.attempt[a]) /\ h'.attempt[a].ch = c => link[c] # "unused"
      BY ChannelFacts DEF Halts
    <2>2. link[c] # "up" => toServer'[c] = toServer[c]
      BY <1>2
    <2> HIDE DEF Calls, Halts
    <2>3. QED BY <1>1, <1>2, <1>6, <2>1, <2>2, ChannelFacts
  <1>5. QED BY <1>1, <1>3, <1>4 DEF Types

\* invoke() keeps the types.
LEMMA InvokeTypes ==
  ASSUME Types, NEW i \in MyInvokes, Invoke(i), UNCHANGED <<storeVars, hostVars>>
  PROVE  Types'
  <1>1. PICK q : Calls({i}, q)
    BY InvokeCalls
  <1>2. /\ h' = [h EXCEPT !.owned = h'.owned, !.wire = h'.wire, !.rpc = h'.rpc]
        /\ promised' = promised /\ h \in HandleRecord
    BY InvokeCalls DEF ghostVars, Types
  <1>3. Halts(h.attempt, h'.attempt)
    <2>1. h'.attempt = h.attempt
      BY <1>2 DEF HandleRecord
    <2>2. QED BY <2>1 DEF Halts
  <1>4. promised \in [Channels -> SUBSET (Nat \X Nat)] /\ \A c \in Channels : link[c] = "unused" => promised[c] = {}
    BY DEF Types, GhostTypes, ChannelInv
  <1>5. QED BY <1>1, <1>2, <1>3, <1>4, CallTypes

\* Continuing an attach keeps the types.
LEMMA ContinueTypes ==
  ASSUME Types, NEW a \in Attempts, Continue(a), UNCHANGED <<storeVars, hostVars>>
  PROVE  Types'
  <1>1. PICK again, q : Reattaches(a, again) /\ Calls(again, q)
    BY ContinueCalls
  <1>2. h.attempt \in AttemptSet /\ promised \in [Channels -> SUBSET (Nat \X Nat)]
    BY DEF Types, HandleRecord, GhostTypes
  <1>3. Halts(h.attempt, h'.attempt)
    <2>1. h'.attempt = [h.attempt EXCEPT ![a] = Idle]
      BY <1>1 DEF Reattaches
    <2>2. QED BY <1>2, <2>1, IdleTypes DEF Halts, AttemptSet
  <1> DEFINE c == h.attempt[a].ch
             r == h.attempt[a].result
             new == IF r.status = "ok" THEN {<<r.epoch, n>> : n \in h.rpc[c].seq + 1 .. r.seq} ELSE {}
  <1>4. c \in Channels /\ r \in Results /\ link[c] # "unused" /\ promised' = [promised EXCEPT ![c] = new]
    BY <1>1 DEF Reattaches
  <1>5. new \in SUBSET (Nat \X Nat)
    <2>1. h.rpc[c].seq \in Cursor /\ r.seq \in Cursor /\ r.epoch \in Nat
      BY <1>4 DEF Types, HandleRecord, ClientRecord, Results
    <2>2. \A n \in h.rpc[c].seq + 1 .. r.seq : n \in Nat
      BY <2>1 DEF Cursor
    <2>3. QED BY <2>1, <2>2
  <1> HIDE DEF new, c, r
  <1>6. promised' \in [Channels -> SUBSET (Nat \X Nat)]
    BY <1>2, <1>4, <1>5
  <1>7. \A d \in Channels : link[d] = "unused" => promised'[d] = {}
    BY <1>2, <1>4, ChannelFacts
  <1>8. QED BY <1>1, <1>3, <1>6, <1>7, CallTypes

\* An invoke that ages is quiet.
LEMMA AgeQuiet ==
  ASSUME Types, NEW i \in MyInvokes, Age(i)
  PROVE  QuietStep
  <1>1. /\ h \in HandleRecord /\ h' = [h EXCEPT !.aged = @ \cup {i}]
        /\ link' = link /\ toClient' = toClient /\ toServer' = toServer /\ UNCHANGED ghostVars
        /\ link \in [Channels -> Links] /\ toClient \in [Channels -> Seq(ToClientMessage)]
    BY DEF Age, wireVars, Types, WireTypes
  <1> DEFINE n == [h EXCEPT !.aged = h.aged \cup {i}]
  <1>2. Quiet(h, n) /\ n.rpc = h.rpc
    <2>1. h.aged \cup {i} \in SUBSET MyInvokes
      BY <1>1 DEF HandleRecord
    <2> DEFINE g == h.aged \cup {i}
    <2> HIDE DEF g
    <2>2. g \in SUBSET MyInvokes
      BY <2>1 DEF g
    <2>3. Quiet(h, [h EXCEPT !.aged = g]) /\ [h EXCEPT !.aged = g].rpc = h.rpc
      BY <1>1, <2>2 DEF Quiet, Halts, SameClient, MaySettle, HandleRecord
    <2>4. QED BY <2>3 DEF g
  <1>3. h' = n
    BY <1>1
  <1> HIDE DEF n
  <1>4. Becomes(h')
    <2>1. {c \in Channels : h.rpc[c].open /\ ~h'.rpc[c].open} = {}
      BY <1>2, <1>3
    <2>2. CutLinks({}) /\ toClient = Emptied(toClient, {})
      BY <1>1 DEF CutLinks, Emptied
    <2>3. QED BY <1>1, <2>1, <2>2 DEF Becomes
  <1>5. QED BY <1>1, <1>2, <1>3, <1>4 DEF QuietStep

\* A message taken off toClient, with the daemon, the links and the journal as they were.
LEMMA ReadTypes ==
  ASSUME Types, NEW c \in Channels, h.rpc[c].open, toClient[c] # <<>>,
         toClient' = [toClient EXCEPT ![c] = Tail(@)], link' = link, promised' = promised,
         toServer' \in [Channels -> Seq(ToServerMessage)],
         \A d \in Channels : link[d] # "up" => toServer'[d] = toServer[d],
         h' \in HandleRecord,
         \A d \in Channels : /\ h'.rpc[d].open => h.rpc[d].open
                             /\ h'.rpc[d].nextId = h.rpc[d].nextId
                             /\ h'.rpc[d].pending \subseteq h.rpc[d].pending,
         \A a \in Attempts : \/ h'.attempt[a] = h.attempt[a]
                             \/ Moving(h.attempt[a]) /\ h'.attempt[a].ch = h.attempt[a].ch,
         UNCHANGED <<storeVars, hostVars>>
  PROVE  Types'
  <1>1. JournalTypeOK' /\ RingInv' /\ HostTypes' /\ conn' = conn /\ due' = due /\ Connected' = Connected
    BY HostSame
  <1>2. /\ toClient' \in [Channels -> Seq(ToClientMessage)]
        /\ \A d \in Channels : d # c => toClient'[d] = toClient[d]
    <2>1. toClient \in [Channels -> Seq(ToClientMessage)]
      BY DEF Types, WireTypes
    <2>2. Tail(toClient[c]) \in Seq(ToClientMessage)
      BY <2>1, Takes
    <2>3. QED BY <2>1, <2>2
  <1>3. WireTypes' /\ GhostTypes'
    BY <1>2 DEF Types, WireTypes, GhostTypes
  <1>4. link[c] # "unused"
    BY ChannelFacts
  <1>5. ChannelInv'
    <2> SUFFICES ASSUME NEW d \in Channels
                 PROVE  /\ link'[d] = "unused" <=> conn'[d] = "unused"
                        /\ link'[d] = "unused" =>
                             /\ toClient'[d] = <<>> /\ toServer'[d] = <<>> /\ due'[d] = <<>>
                             /\ ~h'.rpc[d].open /\ h'.rpc[d].pending = {} /\ h'.rpc[d].nextId = 0
                             /\ promised'[d] = {}
                        /\ link'[d] = "up" => d \in Connected'
                        /\ d \notin Connected' => toServer'[d] = <<>> /\ due'[d] = <<>>
                        /\ \A a \in Attempts : Moving(h'.attempt[a]) /\ h'.attempt[a].ch = d => link'[d] # "unused"
      BY DEF ChannelInv
    <2>1. \A a \in Attempts : Moving(h'.attempt[a]) /\ h'.attempt[a].ch = d => link[d] # "unused"
      <3>1. \A a \in Attempts : Moving(h.attempt[a]) /\ h.attempt[a].ch = d => link[d] # "unused"
        BY ChannelFacts
      <3>2. QED BY <3>1
    <2>2. QED BY <1>1, <1>2, <1>4, <2>1, ChannelFacts, ZenonT(60)
  <1>6. QED BY <1>1, <1>3, <1>5 DEF Types

\* A hello keeps the types.
LEMMA HelloTypes ==
  ASSUME Types, NEW c \in Channels, h.rpc[c].open, toClient[c] # <<>>, ReceiveHello(c),
         UNCHANGED <<storeVars, hostVars>>
  PROVE  Types'
  <1>1. PICK a \in Attempts :
          /\ h.attempt[a].ch = c /\ h.attempt[a].pc = "hello"
          /\ h' = [h EXCEPT !.attempt[a].pc = "attaching"]
          /\ toServer' = Written(toServer, OnlyTo(c, <<AttachRequest>>))
          /\ toClient' = [toClient EXCEPT ![c] = Tail(@)]
          /\ UNCHANGED <<link, ghostVars>>
    BY DEF ReceiveHello
  <1> DEFINE m == AttachRequest
  <1>2. h \in HandleRecord /\ h.attempt \in AttemptSet /\ toServer \in [Channels -> Seq(ToServerMessage)]
    BY DEF Types, HandleRecord, WireTypes
  <1>3. m \in ToServerMessage
    <2>1. \A i \in Owned(h) : h.wire[i] \in CallId \cup {NoWire}
      BY <1>2 DEF HandleRecord, Owned
    <2> DEFINE p == {h.wire[i] : i \in Owned(h)} \ {NoWire}
    <2>2. p \in SUBSET CallId
      BY <2>1
    <2>3. h.epoch \in 0 .. MaxEpoch /\ h.lastSeq \in Cursor
      BY <1>2 DEF HandleRecord
    <2>4. m = [type |-> "attach", epoch |-> h.epoch, seq |-> h.lastSeq, pending |-> p, protocol |-> ClientProtocol]
      BY DEF AttachRequest
    <2> HIDE DEF p, m
    <2>5. QED BY <2>2, <2>3, <2>4 DEF ToServerMessage, Attaches
  <1> HIDE DEF m
  <1>4. <<m>> \in Seq(ToServerMessage)
    BY <1>3
  <1> DEFINE w == Written(toServer, OnlyTo(c, <<m>>))
             f == [h.attempt EXCEPT ![a] = [h.attempt[a] EXCEPT !.pc = "attaching"]]
  <1>5. w \in [Channels -> Seq(ToServerMessage)]
    BY <1>2, <1>4, WritesOne
  <1>6. \A d \in Channels : link[d] # "up" => w[d] = toServer[d]
    BY <1>2, WritesOther
  <1>7. toServer' = w
    BY <1>1 DEF m
  <1>8. f \in AttemptSet /\ f[a].ch = h.attempt[a].ch /\ \A b \in Attempts : b # a => f[b] = h.attempt[b]
    <2>1. h.attempt[a] \in AttemptRecord
      BY <1>2 DEF AttemptSet
    <2> DEFINE r == [h.attempt[a] EXCEPT !.pc = "attaching"]
    <2>2. r \in AttemptRecord /\ r.ch = h.attempt[a].ch /\ r.pc = "attaching" /\ r.why = h.attempt[a].why
      BY <1>1, <2>1 DEF AttemptRecord, Moving, Steps
    <2> HIDE DEF r
    <2>3. f = [h.attempt EXCEPT ![a] = r]
      BY DEF r
    <2>4. QED BY <1>2, <2>2, <2>3, Callers DEF AttemptSet
  <1>9. h' = [h EXCEPT !.attempt = f]
    BY <1>1, <1>2 DEF HandleRecord, AttemptSet
  <1> HIDE DEF f, w
  <1>10. h' \in HandleRecord /\ h'.rpc = h.rpc /\ h'.attempt = f
    BY <1>2, <1>8, <1>9 DEF HandleRecord
  <1>11. Moving(h.attempt[a]) /\ promised' = promised /\ link' = link
    BY <1>1 DEF Moving, ghostVars
  <1>12. QED BY <1>1, <1>5, <1>6, <1>7, <1>8, <1>10, <1>11, ReadTypes, ZenonT(60)

\* An attach result keeps the types.
LEMMA AttachedTypes ==
  ASSUME Types, NEW c \in Channels, h.rpc[c].open, toClient[c] # <<>>,
         NEW m, m = Head(toClient[c]), m.type = "attached", ReceiveAttached(c, m),
         UNCHANGED <<storeVars, hostVars>>
  PROVE  Types'
  <1>1. PICK a \in Attempts :
          /\ h.attempt[a].ch = c /\ h.attempt[a].pc = "attaching"
          /\ h' = [h EXCEPT !.attempt[a].pc = "reconciling", !.attempt[a].result = m]
          /\ toClient' = [toClient EXCEPT ![c] = Tail(@)]
          /\ UNCHANGED <<link, toServer, ghostVars>>
    BY DEF ReceiveAttached
  <1>2. h \in HandleRecord /\ h.attempt \in AttemptSet /\ toServer \in [Channels -> Seq(ToServerMessage)]
        /\ toClient[c] \in Seq(ToClientMessage)
    BY DEF Types, HandleRecord, WireTypes
  <1>3. m \in Results
    <2>1. m \in ToClientMessage
      BY <1>2, Takes
    <2>2. QED BY <2>1 DEF ToClientMessage, PlainMessage, PushMessages, Responses, Results
  <1> DEFINE f == [h.attempt EXCEPT ![a] = [h.attempt[a] EXCEPT !.pc = "reconciling", !.result = m]]
  <1>8. f \in AttemptSet /\ f[a].ch = h.attempt[a].ch /\ \A b \in Attempts : b # a => f[b] = h.attempt[b]
    <2>1. h.attempt[a] \in AttemptRecord
      BY <1>2 DEF AttemptSet
    <2> DEFINE r == [h.attempt[a] EXCEPT !.pc = "reconciling", !.result = m]
    <2>2. r \in AttemptRecord /\ r.ch = h.attempt[a].ch /\ r.pc = "reconciling" /\ r.why = h.attempt[a].why
      <3>1. h.attempt[a].ch \in Channels
        BY <1>1
      <3>2. QED BY <1>3, <2>1, <3>1 DEF AttemptRecord, Moving, Steps
    <2> HIDE DEF r
    <2>3. f = [h.attempt EXCEPT ![a] = r]
      BY DEF r
    <2>4. QED BY <1>2, <2>2, <2>3, Callers DEF AttemptSet
  <1>9. h' = [h EXCEPT !.attempt = f]
    BY <1>1, <1>2 DEF HandleRecord, AttemptSet
  <1> HIDE DEF f
  <1>10. h' \in HandleRecord /\ h'.rpc = h.rpc /\ h'.attempt = f
    BY <1>2, <1>8, <1>9 DEF HandleRecord
  <1>11. Moving(h.attempt[a]) /\ promised' = promised /\ link' = link /\ toServer' = toServer
    BY <1>1 DEF Moving, ghostVars
  <1>12. QED BY <1>1, <1>2, <1>8, <1>10, <1>11, ReadTypes

\* The other messages leave the attempts alone.
LEMMA PushTypes ==
  ASSUME Types, NEW c \in Channels, h.rpc[c].open, toClient[c] # <<>>,
         NEW m, m = Head(toClient[c]), m.type = "push", ReceivePush(c, m),
         UNCHANGED <<storeVars, hostVars>>
  PROVE  /\ Types'
         /\ h' \in HandleRecord /\ m \in PushMessages
         /\ h'.lastSeq \in {h.lastSeq, m.seq} /\ h' = [h EXCEPT !.rpc = h'.rpc, !.lastSeq = h'.lastSeq]
         /\ \A d \in Channels :
              /\ h'.rpc[d].open = h.rpc[d].open /\ h'.rpc[d].nextId = h.rpc[d].nextId
              /\ h'.rpc[d].pending = h.rpc[d].pending
              /\ h'.rpc[d].seq = IF d = c /\ m.seq > h.rpc[c].seq THEN m.seq ELSE h.rpc[d].seq
  <1> DEFINE q == IF m.seq > h.rpc[c].seq THEN m.seq ELSE h.rpc[c].seq
             l == IF m.event = "reserved" THEN h.lastSeq ELSE m.seq
             p == [h.rpc[c] EXCEPT !.seq = q]
             f == [h.rpc EXCEPT ![c] = p]
  <1>1. /\ h' = [h EXCEPT !.rpc[c].seq = q, !.lastSeq = l]
        /\ toClient' = [toClient EXCEPT ![c] = Tail(@)]
        /\ link' = link /\ toServer' = toServer /\ promised' = promised
    BY DEF ReceivePush
  <1>2. /\ h \in HandleRecord /\ h.rpc \in [Channels -> ClientRecord] /\ h.rpc[c] \in ClientRecord
        /\ h.lastSeq \in Cursor /\ toServer \in [Channels -> Seq(ToServerMessage)]
        /\ toClient[c] \in Seq(ToClientMessage)
    BY DEF Types, HandleRecord, WireTypes
  <1>3. m \in PushMessages
    <2>1. m \in ToClientMessage
      BY <1>2, Takes
    <2>2. QED BY <2>1 DEF ToClientMessage, PlainMessage, PushMessages, Responses, Results
  <1>4. q \in Cursor /\ l \in Cursor /\ l \in {h.lastSeq, m.seq}
    BY <1>2, <1>3 DEF ClientRecord, PushMessages, Cursor
  <1>5. h' = [h EXCEPT !.rpc = f, !.lastSeq = l]
    BY <1>1, <1>2 DEF HandleRecord, ClientRecord
  <1>6. q = IF m.seq > h.rpc[c].seq THEN m.seq ELSE h.rpc[c].seq
    OBVIOUS
  <1> HIDE DEF q, l
  <1>7. /\ p \in ClientRecord /\ p.open = h.rpc[c].open /\ p.nextId = h.rpc[c].nextId
        /\ p.pending = h.rpc[c].pending /\ p.seq = q
    BY <1>2, <1>4 DEF ClientRecord
  <1> HIDE DEF p
  <1>8. f \in [Channels -> ClientRecord] /\ f[c] = p /\ \A d \in Channels : d # c => f[d] = h.rpc[d]
    BY <1>2, <1>7
  <1> HIDE DEF f
  <1>9. /\ h' \in HandleRecord /\ h'.rpc = f /\ h'.lastSeq = l /\ h'.attempt = h.attempt
        /\ h' = [h EXCEPT !.rpc = h'.rpc, !.lastSeq = h'.lastSeq]
    BY <1>2, <1>4, <1>5, <1>8 DEF HandleRecord
  <1>10. \A d \in Channels :
           /\ h'.rpc[d].open = h.rpc[d].open /\ h'.rpc[d].nextId = h.rpc[d].nextId
           /\ h'.rpc[d].pending = h.rpc[d].pending
           /\ h'.rpc[d].seq = IF d = c /\ m.seq > h.rpc[c].seq THEN m.seq ELSE h.rpc[d].seq
    BY <1>6, <1>7, <1>8, <1>9
  <1>11. Types'
    BY <1>1, <1>2, <1>9, <1>10, ReadTypes
  <1>12. QED BY <1>3, <1>4, <1>9, <1>10, <1>11

\* A response keeps the types, and settles the promise it is for.
LEMMA ResponseTypes ==
  ASSUME Types, NEW c \in Channels, h.rpc[c].open, toClient[c] # <<>>,
         NEW m, m = Head(toClient[c]), m.type = "response", ReceiveResponse(c, m),
         UNCHANGED <<storeVars, hostVars>>
  PROVE  /\ Types'
         /\ h' \in HandleRecord /\ m \in Responses
         /\ h' = [h EXCEPT !.rpc = h'.rpc, !.owned = h'.owned]
         /\ \A d \in Channels :
              /\ h'.rpc[d].open = h.rpc[d].open /\ h'.rpc[d].nextId = h.rpc[d].nextId
              /\ h'.rpc[d].pending \subseteq h.rpc[d].pending
              /\ h'.rpc[d].seq = h.rpc[d].seq
         /\ \A i \in MyInvokes :
              \/ h'.owned[i] = h.owned[i]
              \/ /\ h.owned[i] = "owned" /\ h'.owned[i] = "ok"
                 /\ \E p \in h.rpc[c].pending : p.id = m.id /\ p.inv = i
         /\ \A i \in MyInvokes : (\E p \in h.rpc[c].pending : p.id = m.id /\ p.inv = i) => h'.owned[i] # "owned"
  <1> DEFINE mine == {p \in h.rpc[c].pending : p.id = m.id}
             is == {p.inv : p \in mine} \cap Owned(h)
             s == Settle(h, is, "ok")
             o == [i \in MyInvokes |-> IF i \in is THEN "ok" ELSE h.owned[i]]
             g == [h.rpc[c] EXCEPT !.pending = @ \ mine]
             f == [h.rpc EXCEPT ![c] = g]
  <1>1. /\ h' = [s EXCEPT !.rpc[c].pending = @ \ mine]
        /\ toClient' = [toClient EXCEPT ![c] = Tail(@)]
        /\ link' = link /\ toServer' = toServer /\ promised' = promised
    BY DEF ReceiveResponse
  <1>2. /\ h \in HandleRecord /\ h.rpc \in [Channels -> ClientRecord] /\ h.rpc[c] \in ClientRecord
        /\ h.owned \in [MyInvokes -> Promises] /\ toServer \in [Channels -> Seq(ToServerMessage)]
        /\ toClient[c] \in Seq(ToClientMessage)
    BY DEF Types, HandleRecord, WireTypes
  <1>3. m \in Responses
    <2>1. m \in ToClientMessage
      BY <1>2, Takes
    <2>2. QED BY <2>1 DEF ToClientMessage, PlainMessage, PushMessages, Responses, Results
  <1>4. s = [h EXCEPT !.owned = o]
    BY DEF Settle
  <1>5. h' = [h EXCEPT !.owned = o, !.rpc = f]
    BY <1>1, <1>2, <1>4 DEF HandleRecord, ClientRecord
  <1>6. o \in [MyInvokes -> Promises]
    BY <1>2 DEF Promises
  <1>7. /\ g \in ClientRecord /\ g.open = h.rpc[c].open /\ g.nextId = h.rpc[c].nextId
        /\ g.pending \subseteq h.rpc[c].pending /\ g.seq = h.rpc[c].seq
    <2> HIDE DEF mine
    <2>1. QED BY <1>2 DEF ClientRecord
  <1>8. \A i \in MyInvokes : /\ i \in is <=> h.owned[i] = "owned" /\ \E p \in h.rpc[c].pending : p.id = m.id /\ p.inv = i
                             /\ o[i] = IF i \in is THEN "ok" ELSE h.owned[i]
    BY DEF Owned
  <1> HIDE DEF g, o, s, mine, is
  <1>9. f \in [Channels -> ClientRecord] /\ f[c] = g /\ \A d \in Channels : d # c => f[d] = h.rpc[d]
    BY <1>2, <1>7
  <1> HIDE DEF f
  <1>10. /\ h' \in HandleRecord /\ h'.rpc = f /\ h'.owned = o /\ h'.attempt = h.attempt
         /\ h' = [h EXCEPT !.rpc = h'.rpc, !.owned = h'.owned]
    BY <1>2, <1>5, <1>6, <1>9 DEF HandleRecord
  <1>11. \A d \in Channels :
           /\ h'.rpc[d].open = h.rpc[d].open /\ h'.rpc[d].nextId = h.rpc[d].nextId
           /\ h'.rpc[d].pending \subseteq h.rpc[d].pending
           /\ h'.rpc[d].seq = h.rpc[d].seq
    BY <1>7, <1>9, <1>10
  <1>12. Types'
    BY <1>1, <1>2, <1>10, <1>11, ReadTypes
  <1>13. \A i \in MyInvokes :
           /\ \/ h'.owned[i] = h.owned[i]
              \/ /\ h.owned[i] = "owned" /\ h'.owned[i] = "ok"
                 /\ \E p \in h.rpc[c].pending : p.id = m.id /\ p.inv = i
           /\ (\E p \in h.rpc[c].pending : p.id = m.id /\ p.inv = i) => h'.owned[i] # "owned"
    BY <1>8, <1>10
  <1>14. QED BY <1>3, <1>10, <1>11, <1>12, <1>13

\* A superseded notice keeps the types, and stops the handle.
LEMMA SupersededTypes ==
  ASSUME Types, NEW c \in Channels, h.rpc[c].open, toClient[c] # <<>>, ReceiveSuperseded(c),
         UNCHANGED <<storeVars, hostVars>>
  PROVE  Types' /\ Quiet(h, h') /\ h'.attempt = h.attempt /\ h'.rpc = h.rpc /\ h'.stopped
  <1> DEFINE s == FailOwned(h)
  <1>1. /\ h' = [s EXCEPT !.stopped = TRUE, !.state = "disconnected"]
        /\ toClient' = [toClient EXCEPT ![c] = Tail(@)]
        /\ link' = link /\ toServer' = toServer /\ promised' = promised
    BY DEF ReceiveSuperseded, ghostVars
  <1>2. h \in HandleRecord /\ toServer \in [Channels -> Seq(ToServerMessage)]
    BY DEF Types, WireTypes
  <1>3. Quiet(h, s) /\ OnlyOwned(h, s) /\ s \in HandleRecord
    BY <1>2, Fails, QuietIs
  <1> HIDE DEF s
  <1>4. \A b \in BOOLEAN : Quiet(s, [s EXCEPT !.stopped = b, !.state = "disconnected"])
    BY <1>3 DEF Quiet, Halts, SameClient, MaySettle, HandleRecord, States
  <1>5. Quiet(s, h')
    BY <1>1, <1>4, TRUE \in BOOLEAN
  <1>6. Quiet(h, h') /\ h' \in HandleRecord
    BY <1>3, <1>5, QuietTrans, QuietIs
  <1>7. h'.attempt = h.attempt /\ h'.rpc = h.rpc /\ h'.stopped
    <2>1. s.attempt = h.attempt /\ s.rpc = h.rpc
      BY <1>2, <1>3 DEF OnlyOwned, HandleRecord
    <2>2. QED BY <1>1, <1>3, <2>1 DEF HandleRecord
  <1>8. QED BY <1>1, <1>2, <1>6, <1>7, ReadTypes

\* Every step of the shell keeps the types.
LEMMA ShellTypes ==
  ASSUME Types, ShellStep, UNCHANGED <<storeVars, hostVars>>
  PROVE  Types'
  <1>1. h \in HandleRecord
    BY DEF Types
  <1>2. CASE QuietStep
    BY <1>2, QuietTypes
  <1>3. ASSUME NEW c \in Channels, Reads(c) PROVE Types'
    <2>1. h.rpc[c].open /\ toClient[c] # <<>>
      BY <1>3 DEF Reads
    <2>2. CASE ReceiveHello(c)
      BY <2>1, <2>2, HelloTypes
    <2>3. CASE ReceiveSuperseded(c)
      BY <2>1, <2>3, SupersededTypes
    <2> DEFINE m == Head(toClient[c])
    <2>4. \/ ReceiveHello(c) \/ ReceiveSuperseded(c)
          \/ m.type = "attached" /\ ReceiveAttached(c, m)
          \/ m.type = "push" /\ ReceivePush(c, m)
          \/ m.type = "response" /\ ReceiveResponse(c, m)
      BY <1>3 DEF Reads
    <2>5. m = Head(toClient[c])
      OBVIOUS
    <2> HIDE DEF m
    <2>6. CASE m.type = "attached" /\ ReceiveAttached(c, m)
      BY <2>1, <2>5, <2>6, AttachedTypes
    <2>7. CASE m.type = "push" /\ ReceivePush(c, m)
      BY <2>1, <2>5, <2>7, PushTypes
    <2>8. CASE m.type = "response" /\ ReceiveResponse(c, m)
      BY <2>1, <2>5, <2>8, ResponseTypes
    <2>9. QED BY <2>2, <2>3, <2>4, <2>6, <2>7, <2>8
  <1>4. ASSUME NEW i \in MyInvokes, Invoke(i) \/ Age(i) PROVE Types'
    BY <1>4, InvokeTypes, AgeQuiet, QuietTypes
  <1>5. ASSUME NEW a \in Attempts, Continue(a) PROVE Types'
    BY <1>5, ContinueTypes
  <1>6. QED BY <1>1, <1>2, <1>3, <1>4, <1>5, ShellSteps

----------------------------------------------------------------------------
\* What is left to show of a step that the handle has no part in.
LEMMA DaemonChannels ==
  ASSUME Types, UNCHANGED handleVars, WireTypes', HostTypes', JournalTypeOK', RingInv',
         \A c \in Channels :
           /\ link'[c] = "unused" <=> link[c] = "unused"
           /\ conn'[c] = "unused" <=> conn[c] = "unused"
           /\ link[c] = "unused" => toClient'[c] = <<>> /\ toServer'[c] = <<>> /\ due'[c] = <<>>
           /\ link'[c] = "up" => c \in Connected'
           /\ c \notin Connected' => toServer'[c] = <<>> /\ due'[c] = <<>>
  PROVE  Types'
  <1>1. h' = h /\ promised' = promised
    BY DEF handleVars, ghostVars
  <1>2. GhostTypes' /\ h' \in HandleRecord
    BY <1>1 DEF Types, GhostTypes
  <1>3. ChannelInv'
    <2> SUFFICES ASSUME NEW d \in Channels
                 PROVE  /\ link'[d] = "unused" <=> conn'[d] = "unused"
                        /\ link'[d] = "unused" =>
                             /\ toClient'[d] = <<>> /\ toServer'[d] = <<>> /\ due'[d] = <<>>
                             /\ ~h'.rpc[d].open /\ h'.rpc[d].pending = {} /\ h'.rpc[d].nextId = 0
                             /\ promised'[d] = {}
                        /\ link'[d] = "up" => d \in Connected'
                        /\ d \notin Connected' => toServer'[d] = <<>> /\ due'[d] = <<>>
                        /\ \A a \in Attempts : Moving(h'.attempt[a]) /\ h'.attempt[a].ch = d => link'[d] # "unused"
      BY DEF ChannelInv
    <2>1. QED BY <1>1, ChannelFacts
  <1>4. QED BY <1>2, <1>3 DEF Types

\* A connection the daemon forgets: the types are kept.
LEMMA ForgetTypes ==
  ASSUME Types, NEW c \in Connected, Forget({c}), toClient' = toClient,
         link' = link \/ CutLinks({c}), link'[c] # "up",
         UNCHANGED <<storeVars, epoch, running, ran, done, handleVars>>
  PROVE  Types'
  <1>1. /\ conn' = [d \in Channels |-> IF d = c THEN "gone" ELSE conn[d]]
        /\ active' = IF active = c THEN NoChannel ELSE active
        /\ doomed' = doomed \ {c}
        /\ due' = [d \in Channels |-> IF d = c THEN <<>> ELSE due[d]]
        /\ toServer' = [d \in Channels |-> IF d = c THEN <<>> ELSE toServer[d]]
    BY DEF Forget, Emptied
  <1>2. /\ link \in [Channels -> Links] /\ toClient \in [Channels -> Seq(ToClientMessage)]
        /\ toServer \in [Channels -> Seq(ToServerMessage)] /\ HostTypes
        /\ c \in Channels /\ conn[c] # "unused"
    BY DEF Types, WireTypes, Connected
  <1>3. link' \in [Channels -> Links] /\ \A d \in Channels : link'[d] = link[d] \/ (d = c /\ link'[d] = "cut")
    BY <1>2 DEF CutLinks, Links
  <1>4. Connected' = Connected \ {c}
    BY <1>1 DEF Connected
  <1>5. WireTypes'
    BY <1>1, <1>2, <1>3 DEF WireTypes
  <1>6. HostTypes'
    <2>1. conn' \in [Channels -> Conns] /\ due' \in [Channels -> Seq(DueMessage)]
      BY <1>1, <1>2 DEF HostTypes, Conns
    <2>2. /\ active' \in Channels \cup {NoChannel, Foreign}
          /\ active' \in Channels => active' \in Connected'
          /\ doomed' \subseteq Connected'
      BY <1>1, <1>2, <1>4, Callers DEF HostTypes, NoChannel, Foreign
    <2>3. QED BY <1>2, <2>1, <2>2 DEF HostTypes, storeVars
  <1>7. JournalTypeOK' /\ RingInv'
    BY JournalSame DEF Types, storeVars
  <1>8. link[c] # "unused"
    BY <1>2, ChannelFacts
  <1>9. QED
    <2>1. UNCHANGED handleVars
      OBVIOUS
    <2>2. ASSUME NEW d \in Channels
          PROVE  /\ link'[d] = "unused" <=> link[d] = "unused"
                 /\ conn'[d] = "unused" <=> conn[d] = "unused"
                 /\ link[d] = "unused" => toClient'[d] = <<>> /\ toServer'[d] = <<>> /\ due'[d] = <<>>
                 /\ link'[d] = "up" => d \in Connected'
                 /\ d \notin Connected' => toServer'[d] = <<>> /\ due'[d] = <<>>
      BY <1>1, <1>2, <1>3, <1>4, <1>8, ChannelFacts
    <2>3. QED BY <1>5, <1>6, <1>7, <2>1, <2>2, DaemonChannels

\* A channel that opens: the types are kept, and its client is new.
LEMMA ConnectTypes ==
  ASSUME Types, NEW a \in Attempts, NEW c \in Channels, Connect(a, c)
  PROVE  /\ Types'
         /\ h' = [h EXCEPT !.attempt = h'.attempt, !.client = c, !.rpc = h'.rpc]
         /\ h'.attempt[a].pc = "hello" /\ h'.attempt[a].ch = c
         /\ \A b \in Attempts : b # a => h'.attempt[b] = h.attempt[b]
         /\ h'.rpc[c] = [Unused EXCEPT !.open = TRUE, !.seq = h.lastSeq]
         /\ \A d \in Channels : d # c => h'.rpc[d] = h.rpc[d]
  <1> DEFINE r == [h.attempt[a] EXCEPT !.pc = "hello", !.ch = c]
             p == [Unused EXCEPT !.open = TRUE, !.seq = h.lastSeq]
             f == [h.attempt EXCEPT ![a] = r]
             g == [h.rpc EXCEPT ![c] = p]
  <1>1. /\ h.attempt[a].pc = "opening" /\ link[c] = "unused" /\ conn[c] = "unused"
        /\ h' = [h EXCEPT !.attempt[a].pc = "hello", !.attempt[a].ch = c, !.client = c,
                          !.rpc[c] = [Unused EXCEPT !.open = TRUE, !.seq = h.lastSeq]]
        /\ UNCHANGED ghostVars
        /\ conn' = [conn EXCEPT ![c] = "gated"] /\ link' = [link EXCEPT ![c] = "up"]
        /\ toClient' = [toClient EXCEPT ![c] = <<[type |-> "hello"]>>]
        /\ UNCHANGED <<storeVars, toServer, epoch, active, doomed, due, running, ran, done>>
    BY DEF Connect, ChannelOpens, Accept
  <1>2. /\ h \in HandleRecord /\ h.attempt \in AttemptSet /\ h.rpc \in [Channels -> ClientRecord]
        /\ h.lastSeq \in Cursor
        /\ link \in [Channels -> Links] /\ toClient \in [Channels -> Seq(ToClientMessage)]
        /\ toServer \in [Channels -> Seq(ToServerMessage)] /\ HostTypes
        /\ conn \in [Channels -> Conns]
    BY DEF Types, HandleRecord, WireTypes, HostTypes
  <1>3. h' = [h EXCEPT !.attempt = f, !.client = c, !.rpc = g]
    BY <1>1, <1>2 DEF HandleRecord, AttemptSet
  <1>4. f \in AttemptSet /\ f[a] = r /\ \A b \in Attempts : b # a => f[b] = h.attempt[b]
    <2>1. h.attempt[a] \in AttemptRecord
      BY <1>2 DEF AttemptSet
    <2>2. r \in AttemptRecord /\ r.pc = "hello" /\ r.why = h.attempt[a].why
      BY <2>1 DEF AttemptRecord, Moving, Steps
    <2> HIDE DEF r
    <2>3. QED BY <1>2, <2>2, Callers DEF AttemptSet
  <1>5. r.pc = "hello" /\ r.ch = c
    <2>1. h.attempt[a] \in AttemptRecord
      BY <1>2 DEF AttemptSet
    <2>2. QED BY <2>1 DEF AttemptRecord
  <1>6. p \in ClientRecord
    <2> DEFINE l == h.lastSeq
    <2> HIDE DEF l
    <2>1. l \in Cursor
      BY <1>2 DEF l
    <2>2. \A b \in BOOLEAN : [Unused EXCEPT !.open = b, !.seq = l] \in ClientRecord
      BY <2>1 DEF Unused, ClientRecord
    <2>3. QED BY <2>2, TRUE \in BOOLEAN DEF l
  <1> HIDE DEF r
  <1>7. g \in [Channels -> ClientRecord] /\ g[c] = p /\ \A d \in Channels : d # c => g[d] = h.rpc[d]
    <2> HIDE DEF p
    <2>1. QED BY <1>2, <1>6
  <1> HIDE DEF f, g, p
  <1>8. /\ h' \in HandleRecord /\ h'.attempt = f /\ h'.rpc = g
        /\ h' = [h EXCEPT !.attempt = h'.attempt, !.client = c, !.rpc = h'.rpc]
    BY <1>2, <1>3, <1>4, <1>7 DEF HandleRecord
  <1>9. Connected' = Connected \cup {c}
    BY <1>1, <1>2 DEF Connected
  <1>10. WireTypes'
    <2>1. <<[type |-> "hello"]>> \in Seq(ToClientMessage)
      <3>1. [type |-> "hello"] \in ToClientMessage
        BY DEF ToClientMessage, PlainMessage
      <3>2. QED BY <3>1
    <2>2. QED BY <1>1, <1>2, <2>1 DEF WireTypes, Links
  <1>11. HostTypes'
    BY <1>1, <1>2, <1>9 DEF HostTypes, Conns, storeVars
  <1>12. JournalTypeOK' /\ RingInv' /\ GhostTypes'
    BY <1>1, JournalSame DEF Types, GhostTypes, ghostVars, storeVars
  <1>13. ChannelInv'
    <2> SUFFICES ASSUME NEW d \in Channels
                 PROVE  /\ link'[d] = "unused" <=> conn'[d] = "unused"
                        /\ link'[d] = "unused" =>
                             /\ toClient'[d] = <<>> /\ toServer'[d] = <<>> /\ due'[d] = <<>>
                             /\ ~h'.rpc[d].open /\ h'.rpc[d].pending = {} /\ h'.rpc[d].nextId = 0
                             /\ promised'[d] = {}
                        /\ link'[d] = "up" => d \in Connected'
                        /\ d \notin Connected' => toServer'[d] = <<>> /\ due'[d] = <<>>
                        /\ \A b \in Attempts : Moving(h'.attempt[b]) /\ h'.attempt[b].ch = d => link'[d] # "unused"
      BY DEF ChannelInv
    <2>1. promised' = promised /\ toServer' = toServer /\ due' = due
      BY <1>1 DEF ghostVars
    <2>2. CASE d = c
      <3>1. link'[c] = "up" /\ conn'[c] = "gated" /\ c \in Connected'
        BY <1>1, <1>2, <1>9
      <3>2. QED BY <2>2, <3>1
    <2>3. CASE d # c
      <3>1. link'[d] = link[d] /\ conn'[d] = conn[d] /\ toClient'[d] = toClient[d] /\ (d \in Connected' <=> d \in Connected)
        BY <1>1, <1>2, <1>9, <2>3
      <3>2. h'.rpc[d] = h.rpc[d]
        BY <1>7, <1>8, <2>3
      <3>3. \A b \in Attempts : Moving(h'.attempt[b]) /\ h'.attempt[b].ch = d => link[d] # "unused"
        BY <1>4, <1>5, <1>8, <2>3, ChannelFacts
      <3>4. QED BY <2>1, <3>1, <3>2, <3>3, ChannelFacts
    <2>4. QED BY <2>2, <2>3
  <1>14. Types'
    BY <1>8, <1>10, <1>11, <1>12, <1>13 DEF Types
  <1>15. QED BY <1>4, <1>5, <1>7, <1>8, <1>14 DEF p

\* A channel that breaks keeps the types.
LEMMA CutTypes ==
  ASSUME Types, NEW c \in Channels, BreakChannel(c)
  PROVE  Types'
  <1>1. /\ link[c] = "up" /\ CutLinks({c}) /\ UNCHANGED <<toClient, toServer>>
        /\ UNCHANGED <<storeVars, hostVars>> /\ UNCHANGED handleVars
    BY DEF BreakChannel, Cut
  <1>2. JournalTypeOK' /\ RingInv' /\ HostTypes' /\ conn' = conn /\ due' = due /\ Connected' = Connected
    BY <1>1, HostSame
  <1>3. link' \in [Channels -> Links] /\ \A d \in Channels : link'[d] = IF d = c THEN "cut" ELSE link[d]
    BY <1>1, LinkTypes DEF Types, WireTypes
  <1>4. WireTypes'
    BY <1>1, <1>3 DEF Types, WireTypes
  <1>5. QED
    <2>1. ASSUME NEW d \in Channels
          PROVE  /\ link'[d] = "unused" <=> link[d] = "unused"
                 /\ conn'[d] = "unused" <=> conn[d] = "unused"
                 /\ link[d] = "unused" => toClient'[d] = <<>> /\ toServer'[d] = <<>> /\ due'[d] = <<>>
                 /\ link'[d] = "up" => d \in Connected'
                 /\ d \notin Connected' => toServer'[d] = <<>> /\ due'[d] = <<>>
      BY <1>1, <1>2, <1>3, ChannelFacts
    <2>2. QED BY <1>1, <1>2, <1>4, <2>1, DaemonChannels

\* An attach request's id is no invoke's id.
LEMMA IdsDiffer == CallId \cap AttachIds = {}
  BY DEF CallId, AttachIds

\* What the daemon answers an attach with: the result, the replay, and the
\* responses that were parked.
LEMMA AttachMessages ==
  ASSUME Types, NEW m \in Attaches
  PROVE  /\ AttachResult(m) \in Results
         /\ AttachDue(m) \in Seq(DueMessage)
         /\ AttachStatus(m) = "ok" => m.epoch = epoch
         /\ \A x \in Range(AttachDue(m)) :
              \/ x \in Responses /\ \E i \in DOMAIN retained : retained[i].id = x.id /\ retained[i].inv = x.inv
              \/ x \in PushMessages /\ x.epoch = epoch /\ x.seq < nextSeq
         /\ \A i \in DOMAIN retained :
              retained[i].id \in m.pending /\ Verdict(retained[i].id) = "completed" =>
                \E x \in Range(AttachDue(m)) : x.type = "response" /\ x.id = retained[i].id
  <1>1. /\ m.epoch \in 0 .. MaxEpoch /\ m.seq \in Cursor /\ m.pending \in SUBSET CallId
        /\ epoch \in 1 .. MaxEpoch /\ nextSeq \in Nat /\ retained \in Seq(Settlement)
        /\ JournalTypeOK /\ RingInv
    BY DEF Attaches, Types, HostTypes, JournalTypeOK
  <1>2. AttachStatus(m) \in {"no-cursor", "epoch-mismatch", "replay-gap", "ok"} /\ (AttachStatus(m) = "ok" => m.epoch = epoch)
    BY DEF AttachStatus
  <1> DEFINE v == [id \in m.pending |-> Verdict(id)]
             at == {i \in DOMAIN retained : retained[i].id \in {id \in m.pending : Verdict(id) = "completed"}}
             settled == SettlementsOf({id \in m.pending : Verdict(id) = "completed"})
             frames == FramesSince(m.seq)
             q == [i \in DOMAIN settled |-> Response(settled[i])]
             ps == IF AttachStatus(m) = "ok" THEN Pushes(frames) ELSE <<>>
  <1>3. AttachResult(m) \in Results
    <2>1. v \in [m.pending -> {"in-flight", "completed", "unknown"}]
      BY DEF Verdict
    <2>2. v \in Verdicts
      <3> HIDE DEF v
      <3>1. QED BY <1>1, <2>1 DEF Verdicts
    <2>3. LastSeq \in Cursor
      BY <1>1 DEF LastSeq, Cursor
    <2>4. AttachResult(m) = [type |-> "attached", status |-> AttachStatus(m), epoch |-> epoch, seq |-> LastSeq, verdict |-> v]
      BY DEF AttachResult
    <2> HIDE DEF v
    <2>5. QED BY <1>1, <1>2, <2>2, <2>3, <2>4 DEF Results
  <1>4. settled \in Seq(Settlement) /\ Range(settled) = {retained[i] : i \in at}
    <2>1. at \in SUBSET DOMAIN retained /\ settled = Picked(at)
      BY DEF SettlementsOf
    <2> HIDE DEF at, settled
    <2>2. QED BY <1>1, <2>1, Picks
  <1>5. \A i \in at : retained[i] \in [id : CallId, inv : MyInvokes] /\ retained[i].id \in m.pending
    <2>1. \A i \in at : retained[i] \in Settlement /\ retained[i].id \in CallId /\ retained[i].id \in m.pending
      BY <1>1
    <2>2. QED BY <2>1, IdsDiffer DEF Settlement
  <1>6. \A k \in DOMAIN settled : \E i \in at : settled[k] = retained[i]
    <2>1. \A k \in DOMAIN settled : settled[k] \in Range(settled)
      BY DEF Range
    <2> HIDE DEF settled, at
    <2>2. QED BY <1>4, <2>1
  <1>7. \A i \in at : \E k \in DOMAIN settled : settled[k] = retained[i]
    <2> HIDE DEF settled, at
    <2>1. \A i \in at : retained[i] \in Range(settled)
      BY <1>4
    <2>2. QED BY <2>1 DEF Range
  <1>8. at \subseteq DOMAIN retained /\ \A i \in DOMAIN retained : retained[i].id \in m.pending /\ Verdict(retained[i].id) = "completed" => i \in at
    OBVIOUS
  <1> HIDE DEF settled, at
  <1>9. q \in Seq(DueMessage) /\ DOMAIN q = DOMAIN settled
    <2>1. \A k \in DOMAIN settled : Response(settled[k]) \in DueMessage
      BY <1>5, <1>6 DEF Response, Responses, DueMessage
    <2>2. DOMAIN settled = 1 .. Len(settled) /\ Len(settled) \in Nat
      BY <1>4
    <2>3. QED BY <2>1, <2>2
  <1>10. \A k \in DOMAIN settled : q[k] = Response(settled[k])
    OBVIOUS
  <1> HIDE DEF q
  <1>11. frames \in Seq(Frame) /\ \A k \in DOMAIN frames : frames[k] \in Frame /\ frames[k].seq < nextSeq
    <2>1. m.seq \in Int
      BY <1>1 DEF Cursor
    <2>2. PICK first \in 1 .. Len(ring) + 1 :
           /\ frames \in Seq(Frame)
           /\ Len(frames) = Len(ring) + 1 - first
           /\ \A i \in 1 .. Len(ring) + 1 - first : frames[i] = ring[first + i - 1]
      BY <1>1, <2>1, FramesSinceShape
    <2>3. Len(ring) \in Nat /\ DOMAIN ring = 1 .. Len(ring)
      BY <1>1, RingFacts
    <2>4. \A i \in DOMAIN ring : ring[i].seq < nextSeq
      BY <1>1, <2>3 DEF RingInv
    <2> HIDE DEF frames
    <2>5. DOMAIN frames = 1 .. Len(ring) + 1 - first /\ \A k \in DOMAIN frames : first + k - 1 \in 1 .. Len(ring)
      BY <2>2, <2>3
    <2>6. QED BY <2>2, <2>3, <2>4, <2>5
  <1> HIDE DEF frames
  <1>12. /\ ps \in Seq(DueMessage)
         /\ \A k \in DOMAIN ps : ps[k] \in PushMessages /\ ps[k].epoch = epoch /\ ps[k].seq < nextSeq
    <2>1. CASE AttachStatus(m) = "ok"
      <3>1. DOMAIN frames = 1 .. Len(frames) /\ Len(frames) \in Nat
        BY <1>11
      <3>2. \A k \in DOMAIN frames : /\ PushMessage(frames[k]) \in PushMessages
                                     /\ PushMessage(frames[k]).epoch = epoch /\ PushMessage(frames[k]).seq < nextSeq
        BY <1>1, <1>11 DEF PushMessage, PushMessages, Frame
      <3>3. ps = [k \in DOMAIN frames |-> PushMessage(frames[k])]
        BY <2>1 DEF Pushes
      <3> HIDE DEF ps
      <3>4. DOMAIN ps = DOMAIN frames /\ \A k \in DOMAIN ps : ps[k] = PushMessage(frames[k])
        BY <3>3
      <3>5. ps \in Seq(PushMessages)
        BY <3>1, <3>2, <3>3
      <3>6. QED BY <3>2, <3>4, <3>5 DEF DueMessage
    <2>2. CASE AttachStatus(m) # "ok"
      BY <2>2
    <2>3. QED BY <2>1, <2>2
  <1>13. AttachDue(m) = Joined(q, ps)
    BY DEF AttachDue, q, settled, frames, Joined
  <1> HIDE DEF ps
  <1>14. AttachDue(m) \in Seq(DueMessage) /\ Range(AttachDue(m)) = Range(q) \cup Range(ps)
    BY <1>9, <1>12, <1>13, Joins
  <1>15. ASSUME NEW x \in Range(q)
         PROVE  x \in Responses /\ \E i \in DOMAIN retained : retained[i].id = x.id /\ retained[i].inv = x.inv
    <2>1. PICK k \in DOMAIN settled : x = Response(settled[k])
      BY <1>9, <1>10, <1>15 DEF Range
    <2>2. PICK i \in at : settled[k] = retained[i]
      BY <1>6
    <2>3. QED BY <1>5, <1>8, <2>1, <2>2 DEF Response, Responses
  <1>16. ASSUME NEW x \in Range(ps)
         PROVE  x \in PushMessages /\ x.epoch = epoch /\ x.seq < nextSeq
    BY <1>12, <1>16 DEF Range
  <1>17. ASSUME NEW i \in at
         PROVE  \E x \in Range(q) : x.type = "response" /\ x.id = retained[i].id
    <2>1. PICK k \in DOMAIN settled : settled[k] = retained[i]
      BY <1>7
    <2>2. q[k] \in Range(q) /\ q[k].type = "response" /\ q[k].id = retained[i].id
      BY <1>9, <1>10, <2>1 DEF Range, Response
    <2>3. QED BY <2>2
  <1>18. QED BY <1>2, <1>3, <1>8, <1>14, <1>15, <1>16, <1>17

----------------------------------------------------------------------------
\* What a message of a kind is.
LEMMA Kinds ==
  /\ \A m \in ToServerMessage : /\ m.type = "attach" => m \in Attaches
                                /\ m.type = "invoke" => m \in InvokeMessages
                                /\ m.type \in {"attach", "invoke"}
  /\ Results \subseteq ToClientMessage /\ Responses \subseteq ToClientMessage
  /\ PushMessages \subseteq ToClientMessage /\ DueMessage \subseteq ToClientMessage
  /\ [type |-> "refused"] \in ToClientMessage /\ [type |-> "superseded"] \in ToClientMessage
  /\ \A c \in Channels : [id |-> AttachId(c), inv |-> AttachCall] \in Settlement
  /\ \A w \in Handler : Response(w) \in Responses /\ [id |-> w.id, inv |-> w.inv] \in Settlement
  BY DEF ToServerMessage, Attaches, InvokeMessages, ToClientMessage, PlainMessage, DueMessage, Settlement,
         AttachIds, AttachId, Handler, Response, Responses

\* A write adds no messages but its own.
LEMMA WritesRange ==
  ASSUME NEW S, NEW q \in [Channels -> Seq(S)], NEW out \in [Channels -> Seq(S)], NEW c \in Channels
  PROVE  Range(Written(q, out)[c]) \subseteq Range(q[c]) \cup Range(out[c])
  <1>1. Range(q[c] \o out[c]) = Range(q[c]) \cup Range(out[c])
    BY Appends
  <1>2. QED BY <1>1 DEF Written

\* The types, one by one.
LEMMA HostFacts ==
  ASSUME Types
  PROVE  /\ link \in [Channels -> Links]
         /\ toClient \in [Channels -> Seq(ToClientMessage)] /\ toServer \in [Channels -> Seq(ToServerMessage)]
         /\ epoch \in 1 .. MaxEpoch /\ conn \in [Channels -> Conns]
         /\ active \in Channels \cup {NoChannel, Foreign} /\ (active \in Channels => active \in Connected)
         /\ doomed \subseteq Connected /\ due \in [Channels -> Seq(DueMessage)]
         /\ running \subseteq Handler /\ retained \in Seq(Settlement)
         /\ ran \in [Invokes -> Nat] /\ done \subseteq Invokes
         /\ JournalTypeOK /\ RingInv /\ h \in HandleRecord /\ Connected \subseteq Channels
  BY DEF Types, WireTypes, HostTypes, Connected

\* What the daemon does with a request it reads.
LEMMA ReceiveTypes ==
  ASSUME Types, NEW c \in Channels, ServerReceive(c), UNCHANGED handleVars
  PROVE  Types'
  <1> DEFINE m == Head(toServer[c])
  <1>1. /\ c \in Connected /\ toServer[c] # <<>> /\ toServer' = [toServer EXCEPT ![c] = Tail(@)]
        /\ \/ m.type = "attach" /\ ServeAttach(c, m)
           \/ m.type = "attach" /\ RefuseAttach(c, m)
           \/ m.type = "invoke" /\ DispatchInvoke(c, m)
        /\ UNCHANGED journalVars /\ link' = link /\ epoch' = epoch /\ done' = done
    BY DEF ServerReceive
  <1>2. m \in ToServerMessage /\ toServer' \in [Channels -> Seq(ToServerMessage)]
    BY <1>1, HostFacts, Takes
  <1>3. \A d \in Channels : d # c => toServer'[d] = toServer[d]
    BY <1>1
  <1>4. JournalTypeOK' /\ RingInv'
    BY <1>1, HostFacts, JournalSame DEF journalVars
  <1> HIDE DEF m
  <1>5. ASSUME conn' \in [Channels -> Conns], \A d \in Channels : d # c => conn'[d] = conn[d],
               conn'[c] \in {conn[c], "attached"},
               active' \in {active, c}, doomed' \subseteq doomed \cup Displaced(c),
               due' \in [Channels -> Seq(DueMessage)], \A d \in Channels : d # c => due'[d] = due[d],
               running' \subseteq Handler, retained' \in Seq(Settlement), ran' \in [Invokes -> Nat],
               toClient' \in [Channels -> Seq(ToClientMessage)],
               \A d \in Channels : link[d] # "up" => toClient'[d] = toClient[d]
        PROVE  Types'
    <2>1. Connected' = Connected /\ (conn'[c] # "unused" /\ conn[c] # "unused")
      BY <1>1, <1>5, HostFacts DEF Connected
    <2>2. HostTypes'
      <3>1. active' \in Channels \cup {NoChannel, Foreign} /\ (active' \in Channels => active' \in Connected')
        BY <1>1, <1>5, <2>1, HostFacts
      <3>2. doomed' \subseteq Connected'
        BY <1>5, <2>1, HostFacts DEF Displaced
      <3>3. QED BY <1>1, <1>5, <3>1, <3>2, HostFacts DEF HostTypes
    <2>3. WireTypes'
      BY <1>1, <1>2, <1>5, HostFacts DEF WireTypes
    <2>4. ASSUME NEW d \in Channels
          PROVE  /\ link'[d] = "unused" <=> link[d] = "unused"
                 /\ conn'[d] = "unused" <=> conn[d] = "unused"
                 /\ link[d] = "unused" => toClient'[d] = <<>> /\ toServer'[d] = <<>> /\ due'[d] = <<>>
                 /\ link'[d] = "up" => d \in Connected'
                 /\ d \notin Connected' => toServer'[d] = <<>> /\ due'[d] = <<>>
      <3>1. CASE d = c
        BY <1>1, <1>5, <2>1, <3>1, ChannelFacts
      <3>2. CASE d # c
        BY <1>1, <1>3, <1>5, <2>1, <3>2, ChannelFacts
      <3>3. QED BY <3>1, <3>2
    <2>5. QED BY <1>4, <2>2, <2>3, <2>4, DaemonChannels
  <1>6. CASE m.type = "attach" /\ ServeAttach(c, m)
    <2> DEFINE out == [x \in Channels |->
                         CASE x = c -> <<AttachResult(m)>>
                           [] x \in Displaced(c) -> <<[type |-> "superseded"]>>
                           [] OTHER -> <<>>]
    <2>1. m \in Attaches
      BY <1>2, <1>6, Kinds
    <2>2. /\ conn' = [conn EXCEPT ![c] = "attached"] /\ active' = c /\ doomed' = doomed \cup Displaced(c)
          /\ due' = [due EXCEPT ![c] = AttachDue(m)]
          /\ RecordResponse([id |-> AttachId(c), inv |-> AttachCall])
          /\ toClient' = Written(toClient, out)
          /\ running' = running /\ ran' = ran
      BY <1>6 DEF ServeAttach
    <2>3. out \in [Channels -> Seq(ToClientMessage)]
      <3>1. AttachResult(m) \in ToClientMessage
        BY <2>1, AttachMessages, Kinds
      <3>2. <<AttachResult(m)>> \in Seq(ToClientMessage) /\ <<[type |-> "superseded"]>> \in Seq(ToClientMessage)
        BY <3>1, One, Kinds
      <3>3. QED BY <3>2
    <2> HIDE DEF out
    <2>4. toClient' \in [Channels -> Seq(ToClientMessage)]
      BY <2>2, <2>3, HostFacts, WritesAll
    <2>5. \A d \in Channels : link[d] # "up" => toClient'[d] = toClient[d]
      BY <2>2, <2>3, HostFacts, WritesTo
    <2>6. retained' \in Seq(Settlement)
      BY <2>2, HostFacts, Kinds, Records
    <2>7. AttachDue(m) \in Seq(DueMessage)
      BY <2>1, AttachMessages
    <2>8. due' \in [Channels -> Seq(DueMessage)] /\ \A d \in Channels : d # c => due'[d] = due[d]
      BY <2>2, <2>7, HostFacts
    <2>9. conn' \in [Channels -> Conns] /\ conn'[c] = "attached" /\ \A d \in Channels : d # c => conn'[d] = conn[d]
      BY <2>2, HostFacts DEF Conns
    <2>10. QED BY <1>5, <2>2, <2>4, <2>5, <2>6, <2>8, <2>9, HostFacts
  <1>7. CASE m.type = "attach" /\ RefuseAttach(c, m)
    <2>1. /\ RecordResponse([id |-> AttachId(c), inv |-> AttachCall])
          /\ toClient' = Written(toClient, OnlyTo(c, <<[type |-> "refused"]>>))
          /\ UNCHANGED <<conn, active, doomed, due, running, ran>>
      BY <1>7 DEF RefuseAttach
    <2>2. <<[type |-> "refused"]>> \in Seq(ToClientMessage)
      BY Kinds, One
    <2>3. toClient' \in [Channels -> Seq(ToClientMessage)]
      BY <2>1, <2>2, HostFacts, WritesOne
    <2>4. \A d \in Channels : link[d] # "up" => toClient'[d] = toClient[d]
      BY <2>1, HostFacts, WritesTo
    <2>5. retained' \in Seq(Settlement)
      BY <2>1, HostFacts, Kinds, Records
    <2>6. QED BY <1>5, <2>1, <2>3, <2>4, <2>5, HostFacts
  <1>8. CASE m.type = "invoke" /\ DispatchInvoke(c, m)
    <2>1. m \in InvokeMessages
      BY <1>2, <1>8, Kinds
    <2>2. /\ running' = running \cup {[id |-> m.id, inv |-> m.inv, from |-> c]}
          /\ ran' = [ran EXCEPT ![m.inv] = @ + 1]
          /\ UNCHANGED <<retained, toClient, conn, active, doomed, due>>
      BY <1>8 DEF DispatchInvoke
    <2>3. running' \subseteq Handler
      BY <2>1, <2>2, HostFacts DEF Handler, InvokeMessages
    <2>4. ran' \in [Invokes -> Nat]
      <3>1. ran \in [Invokes -> Nat] /\ \A i \in Invokes : ran[i] + 1 \in Nat
        BY HostFacts
      <3>2. QED BY <2>2, <3>1
    <2>5. QED BY <1>5, <2>2, <2>3, <2>4, HostFacts
  <1>9. QED BY <1>1, <1>6, <1>7, <1>8

\* A step of the daemon that reads nothing and accepts or drops nobody.
LEMMA WriteTypes ==
  ASSUME Types, UNCHANGED handleVars, UNCHANGED <<link, toServer, epoch, ran>>,
         toClient' \in [Channels -> Seq(ToClientMessage)],
         \A d \in Channels : link[d] # "up" => toClient'[d] = toClient[d],
         JournalTypeOK', RingInv',
         conn' \in [Channels -> Conns], Connected' = Connected,
         \A d \in Channels : conn[d] = "unused" <=> conn'[d] = "unused",
         active' \in {active, NoChannel, Foreign}, doomed' \subseteq Connected,
         due' \in [Channels -> Seq(DueMessage)], \A d \in Channels : due'[d] \in {due[d], <<>>},
         running' \subseteq running, retained' \in Seq(Settlement), done' \subseteq Invokes
  PROVE  Types'
  <1>1. HostTypes'
    <2>1. active' \in Channels \cup {NoChannel, Foreign} /\ (active' \in Channels => active' \in Connected')
      BY HostFacts, Callers DEF NoChannel, Foreign
    <2>2. QED BY <2>1, HostFacts DEF HostTypes
  <1>2. WireTypes'
    BY HostFacts DEF WireTypes
  <1>3. ASSUME NEW d \in Channels
        PROVE  /\ link'[d] = "unused" <=> link[d] = "unused"
               /\ conn'[d] = "unused" <=> conn[d] = "unused"
               /\ link[d] = "unused" => toClient'[d] = <<>> /\ toServer'[d] = <<>> /\ due'[d] = <<>>
               /\ link'[d] = "up" => d \in Connected'
               /\ d \notin Connected' => toServer'[d] = <<>> /\ due'[d] = <<>>
    <2>1. due'[d] = <<>> \/ due'[d] = due[d]
      OBVIOUS
    <2>2. QED BY <2>1, ChannelFacts
  <1>4. QED BY <1>1, <1>2, <1>3, DaemonChannels

\* Writing what an attach left due keeps the types.
LEMMA ImmediateTypes ==
  ASSUME Types, NEW c \in Channels, RunImmediates(c), UNCHANGED handleVars
  PROVE  Types'
  <1>1. /\ conn[c] = "attached" /\ toClient' = Written(toClient, OnlyTo(c, due[c]))
        /\ due' = [due EXCEPT ![c] = <<>>] /\ conn' = [conn EXCEPT ![c] = "open"]
        /\ UNCHANGED <<storeVars, link, toServer, epoch, active, doomed, running, ran, done>>
    BY DEF RunImmediates
  <1>2. due[c] \in Seq(ToClientMessage)
    <2>1. due[c] \in Seq(DueMessage)
      BY HostFacts
    <2>2. DueMessage \subseteq ToClientMessage
      BY Kinds
    <2>3. QED BY <2>1, <2>2
  <1>3. toClient' \in [Channels -> Seq(ToClientMessage)]
    BY <1>1, <1>2, HostFacts, WritesOne
  <1>4. \A d \in Channels : link[d] # "up" => toClient'[d] = toClient[d]
    BY <1>1, HostFacts, WritesTo
  <1>5. /\ conn' \in [Channels -> Conns] /\ Connected' = Connected
        /\ \A d \in Channels : conn[d] = "unused" <=> conn'[d] = "unused"
    BY <1>1, HostFacts DEF Conns, Connected
  <1>6. due' \in [Channels -> Seq(DueMessage)] /\ \A d \in Channels : due'[d] \in {due[d], <<>>}
    <2>1. <<>> \in Seq(DueMessage)
      BY Nothing
    <2>2. QED BY <1>1, <2>1, HostFacts
  <1>7. JournalTypeOK' /\ RingInv' /\ retained' = retained
    BY <1>1, HostFacts, JournalSame DEF storeVars
  <1>8. QED BY <1>1, <1>3, <1>4, <1>5, <1>6, <1>7, HostFacts, WriteTypes

\* A handler that finishes keeps the types.
LEMMA FinishTypes ==
  ASSUME Types, NEW w \in running, Finish(w), UNCHANGED handleVars
  PROVE  Types'
  <1> DEFINE out == [x \in Channels |-> IF x \in SettlesTo(w) THEN <<Response(w)>> ELSE <<>>]
  <1>1. /\ running' = running \ {w} /\ done' = done \cup {w.inv}
        /\ RecordResponse([id |-> w.id, inv |-> w.inv]) /\ toClient' = Written(toClient, out)
        /\ UNCHANGED <<journalVars, link, toServer, epoch, conn, active, doomed, due, ran>>
    BY DEF Finish
  <1>2. w \in Handler /\ w.inv \in Invokes
    BY HostFacts, Callers DEF Handler
  <1>3. out \in [Channels -> Seq(ToClientMessage)]
    <2>1. Response(w) \in ToClientMessage
      BY <1>2, Kinds
    <2>2. <<Response(w)>> \in Seq(ToClientMessage) /\ <<>> \in Seq(ToClientMessage)
      BY <2>1, One, Nothing
    <2>3. QED BY <2>2
  <1> HIDE DEF out
  <1>4. toClient' \in [Channels -> Seq(ToClientMessage)]
    BY <1>1, <1>3, HostFacts, WritesAll
  <1>5. \A d \in Channels : link[d] # "up" => toClient'[d] = toClient[d]
    BY <1>1, HostFacts, WritesTo
  <1>6. retained' \in Seq(Settlement)
    BY <1>1, <1>2, HostFacts, Kinds, Records
  <1>7. JournalTypeOK' /\ RingInv'
    BY <1>1, HostFacts, JournalSame DEF journalVars
  <1>8. Connected' = Connected
    BY <1>1 DEF Connected
  <1>9. QED BY <1>1, <1>2, <1>4, <1>5, <1>6, <1>7, <1>8, HostFacts, WriteTypes

\* A push is written to an open connection only, with the number it was given.
LEMMA PushedTypes ==
  ASSUME Types, NEW c, NEW e \in Events, NEW size \in FrameSizes, PushThrough(c, e, size),
         UNCHANGED handleVars
  PROVE  /\ Types' /\ nextSeq' = nextSeq + 1 /\ retained' = retained
         /\ \A d \in Channels : \A x \in Range(toClient'[d]) :
              \/ x \in Range(toClient[d])
              \/ x \in PushMessages /\ x.seq = nextSeq /\ x.epoch = epoch
         /\ UNCHANGED <<link, toServer, hostVars>>
  <1> DEFINE m == PushMessage([seq |-> nextSeq, event |-> e])
  <1>1. /\ AppendPush(e, size)
        /\ toClient' = IF GateOpen(c) THEN Written(toClient, OnlyTo(c, <<m>>)) ELSE toClient
        /\ UNCHANGED <<retained, link, toServer, hostVars>>
    BY DEF PushThrough
  <1>2. JournalTypeOK' /\ RingInv'
    <2>1. NextJournal
      BY <1>1 DEF NextJournal
    <2>2. QED BY <2>1, HostFacts, JournalTypeStep, RingInvStep
  <1>3. m \in PushMessages /\ m.seq = nextSeq /\ m.epoch = epoch
    BY HostFacts DEF PushMessage, PushMessages, JournalTypeOK
  <1> HIDE DEF m
  <1>4. <<m>> \in Seq(ToClientMessage) /\ Range(<<m>>) = {m}
    BY <1>3, Kinds, One
  <1>5. toClient' \in [Channels -> Seq(ToClientMessage)]
    <2>1. CASE GateOpen(c)
      BY <1>1, <1>4, <2>1, HostFacts, WritesOne DEF GateOpen
    <2>2. CASE ~GateOpen(c)
      BY <1>1, <2>2, HostFacts
    <2>3. QED BY <2>1, <2>2
  <1>6. \A d \in Channels : link[d] # "up" => toClient'[d] = toClient[d]
    <2>1. CASE GateOpen(c)
      BY <1>1, <2>1, HostFacts, WritesTo
    <2>2. CASE ~GateOpen(c)
      BY <1>1, <2>2
    <2>3. QED BY <2>1, <2>2
  <1>7. ASSUME NEW d \in Channels, NEW x \in Range(toClient'[d]), x \notin Range(toClient[d])
        PROVE  x = m
    <2>1. GateOpen(c) /\ toClient' = Written(toClient, OnlyTo(c, <<m>>)) /\ c \in Channels
      BY <1>1, <1>7 DEF GateOpen
    <2>0. toClient \in [Channels -> Seq(ToClientMessage)]
      BY HostFacts
    <2> DEFINE q == <<m>>
    <2> HIDE DEF q
    <2>2. d = c /\ link[d] = "up"
      <3>1. toClient' = Written(toClient, OnlyTo(c, q))
        BY <2>1 DEF q
      <3>2. ASSUME d # c \/ link[d] # "up" PROVE Written(toClient, OnlyTo(c, q))[d] = toClient[d]
        BY <2>0, <3>2, WritesOther
      <3>3. QED BY <1>7, <3>1, <3>2
    <2>3. Range(toClient'[c]) = Range(toClient[c]) \cup Range(q)
      <3>1. q \in Seq(ToClientMessage) /\ toClient' = Written(toClient, OnlyTo(c, q))
        BY <1>4, <2>1 DEF q
      <3>2. QED BY <2>0, <2>1, <2>2, <3>1, WritesOne
    <2>4. QED BY <1>4, <1>7, <2>2, <2>3 DEF q
  <1>8. Connected' = Connected
    BY <1>1 DEF Connected, hostVars
  <1>9. UNCHANGED <<epoch, conn, active, doomed, due, running, ran, done>>
    BY <1>1 DEF hostVars
  <1>10. Types'
    BY <1>1, <1>2, <1>5, <1>6, <1>8, <1>9, HostFacts, WriteTypes
  <1>11. nextSeq' = nextSeq + 1
    BY <1>1, Zenon DEF AppendPush
  <1>12. QED BY <1>1, <1>3, <1>7, <1>10, <1>11

\* A failed push, or an aged settlement, keeps the types.
LEMMA JournalStepTypes ==
  ASSUME Types, PushFails \/ SettlementAgesOut, UNCHANGED handleVars
  PROVE  /\ Types' /\ Range(retained') \subseteq Range(retained)
         /\ UNCHANGED <<wireVars, hostVars>>
  <1>1. UNCHANGED <<wireVars, hostVars>>
    BY DEF PushFails, SettlementAgesOut
  <1>2. JournalTypeOK' /\ RingInv'
    <2>1. CASE PushFails
      <3>1. NextJournal
        BY <2>1 DEF PushFails, NextJournal
      <3>2. QED BY <3>1, HostFacts, JournalTypeStep, RingInvStep
    <2>2. CASE SettlementAgesOut
      BY <2>2, HostFacts, JournalSame DEF SettlementAgesOut, journalVars
    <2>3. QED BY <2>1, <2>2
  <1>3. retained' \in Seq(Settlement) /\ Range(retained') \subseteq Range(retained)
    <2>1. retained' = retained \/ (retained # <<>> /\ retained' = Tail(retained))
      BY DEF PushFails, SettlementAgesOut, AgeOut
    <2>2. retained \in Seq(Settlement)
      BY HostFacts
    <2>3. retained # <<>> => Tail(retained) \in Seq(Settlement) /\ Range(Tail(retained)) \subseteq Range(retained)
      BY <2>2, Takes
    <2> HIDE DEF Range
    <2>4. QED BY <2>1, <2>2, <2>3
  <1>4. Connected' = Connected
    BY <1>1 DEF Connected, hostVars
  <1>5. UNCHANGED <<link, toClient, toServer, epoch, conn, active, doomed, due, running, ran, done>>
    BY <1>1 DEF wireVars, hostVars
  <1>6. Types'
    BY <1>2, <1>3, <1>4, <1>5, HostFacts, WriteTypes
  <1>7. QED BY <1>1, <1>3, <1>6

\* Another client that comes or goes keeps the types, and dooms the holder.
LEMMA ForeignTypes ==
  ASSUME Types, ForeignAttach \/ ForeignLeaves, UNCHANGED handleVars
  PROVE  /\ Types'
         /\ active' \in {NoChannel, Foreign} /\ doomed' = doomed \cup ({active} \cap Channels)
         /\ UNCHANGED <<storeVars, link, toServer, epoch, conn, due, running, ran, done>>
         /\ \A d \in Channels : \A x \in Range(toClient'[d]) :
              x \in Range(toClient[d]) \/ x = [type |-> "superseded"]
  <1> DEFINE m == [type |-> "superseded"]
  <1>1. /\ active' \in {NoChannel, Foreign} /\ doomed' = doomed \cup ({active} \cap Channels)
        /\ toClient' = Written(toClient, OnlyTo(active, <<m>>)) \/ toClient' = toClient
        /\ UNCHANGED <<storeVars, link, toServer, epoch, conn, due, running, ran, done>>
    <2>1. CASE ForeignAttach
      BY <2>1 DEF ForeignAttach
    <2>2. CASE ForeignLeaves
      <3>1. {active} \cap Channels = {}
        BY <2>2, Callers DEF ForeignLeaves, Foreign
      <3>2. QED BY <2>2, <3>1 DEF ForeignLeaves, wireVars
    <2>3. QED BY <2>1, <2>2
  <1>2. <<m>> \in Seq(ToClientMessage) /\ Range(<<m>>) = {m}
    BY Kinds, One
  <1> HIDE DEF m
  <1>3. OnlyTo(active, <<m>>) \in [Channels -> Seq(ToClientMessage)]
    <2> DEFINE q == <<m>>
    <2>1. q \in Seq(ToClientMessage) /\ <<>> \in Seq(ToClientMessage)
      BY <1>2, Nothing
    <2> HIDE DEF q
    <2>2. OnlyTo(active, q) \in [Channels -> Seq(ToClientMessage)]
      BY <2>1 DEF OnlyTo
    <2>3. QED BY <2>2 DEF q
  <1>4. toClient' \in [Channels -> Seq(ToClientMessage)]
    <2> DEFINE out == OnlyTo(active, <<m>>)
    <2>1. toClient' \in {toClient, Written(toClient, out)} /\ out \in [Channels -> Seq(ToClientMessage)]
      BY <1>1, <1>3
    <2> HIDE DEF out
    <2>2. toClient \in [Channels -> Seq(ToClientMessage)]
      BY HostFacts
    <2>3. Written(toClient, out) \in [Channels -> Seq(ToClientMessage)]
      BY <2>1, <2>2, WritesAll
    <2>4. QED BY <2>1, <2>2, <2>3
  <1>5. \A d \in Channels : link[d] # "up" => toClient'[d] = toClient[d]
    BY <1>1, HostFacts, WritesTo
  <1>6. ASSUME NEW d \in Channels, NEW x \in Range(toClient'[d]), x \notin Range(toClient[d]) PROVE x = m
    <2> DEFINE out == OnlyTo(active, <<m>>)
    <2>1. out[d] \in {<<>>, <<m>>}
      BY DEF OnlyTo
    <2>2. out \in [Channels -> Seq(ToClientMessage)]
      BY <1>3
    <2>3. toClient' = Written(toClient, out)
      BY <1>1, <1>6
    <2> HIDE DEF out
    <2>4. Range(toClient'[d]) \subseteq Range(toClient[d]) \cup Range(out[d])
      BY <2>2, <2>3, HostFacts, WritesRange
    <2>5. Range(out[d]) \subseteq {m}
      BY <1>2, <2>1, Nothing
    <2>6. QED BY <1>6, <2>4, <2>5
  <1>7. Connected' = Connected
    BY <1>1 DEF Connected
  <1>8. doomed' \subseteq Connected /\ JournalTypeOK' /\ RingInv'
    BY <1>1, HostFacts, JournalSame DEF storeVars
  <1>9. retained' = retained
    BY <1>1 DEF storeVars
  <1>10. Types'
    BY <1>1, <1>4, <1>5, <1>7, <1>8, <1>9, HostFacts, WriteTypes
  <1>11. QED BY <1>1, <1>6, <1>10 DEF m

\* A daemon that dies and is started again keeps the types.
LEMMA CrashTypes ==
  ASSUME Types, DaemonCrash, UNCHANGED handleVars
  PROVE  Types'
  <1>1. /\ epoch < MaxEpoch /\ epoch' = epoch + 1
        /\ ring' = <<>> /\ nextSeq' = 0 /\ retainedBytes' = 0 /\ journalled' = {}
        /\ retained' = <<>> /\ running' = {}
        /\ conn' = [c \in Channels |-> IF conn[c] = "unused" THEN "unused" ELSE "gone"]
        /\ active' = NoChannel /\ doomed' = {} /\ due' = Emptied(due, Channels)
        /\ CutLinks(Connected) /\ toServer' = Emptied(toServer, Channels)
        /\ UNCHANGED <<toClient, ran, done>>
    BY DEF DaemonCrash
  <1>2. JournalTypeOK' /\ RingInv'
    <2>1. ring' = <<>> /\ journalled' = {} /\ nextSeq' = 0
      BY <1>1
    <2>2. QED BY <2>1 DEF JournalTypeOK, RingInv
  <1>3. due' = [c \in Channels |-> <<>>] /\ toServer' = [c \in Channels |-> <<>>]
    BY <1>1 DEF Emptied
  <1>4. Connected' = {}
    BY <1>1 DEF Connected
  <1>5. link' \in [Channels -> Links] /\ \A c \in Channels : link'[c] = IF c \in Connected THEN "cut" ELSE link[c]
    BY <1>1, HostFacts, LinkTypes
  <1>6. HostTypes'
    <2>1. epoch' \in 1 .. MaxEpoch
      BY <1>1, HostFacts, SessionAssumption
    <2>2. conn' \in [Channels -> Conns]
      BY <1>1, HostFacts DEF Conns
    <2>3. due' \in [Channels -> Seq(DueMessage)] /\ retained' \in Seq(Settlement)
      BY <1>1, <1>3, Nothing
    <2>4. active' \notin Channels
      BY <1>1, Callers DEF NoChannel
    <2>5. QED BY <1>1, <2>1, <2>2, <2>3, <2>4, HostFacts DEF HostTypes
  <1>7. WireTypes'
    BY <1>1, <1>3, <1>5, HostFacts DEF WireTypes
  <1>8. ASSUME NEW d \in Channels
        PROVE  /\ link'[d] = "unused" <=> link[d] = "unused"
               /\ conn'[d] = "unused" <=> conn[d] = "unused"
               /\ link[d] = "unused" => toClient'[d] = <<>> /\ toServer'[d] = <<>> /\ due'[d] = <<>>
               /\ link'[d] = "up" => d \in Connected'
               /\ d \notin Connected' => toServer'[d] = <<>> /\ due'[d] = <<>>
    <2>1. link'[d] = IF d \in Connected THEN "cut" ELSE link[d]
      BY <1>5
    <2>2. d \in Connected <=> conn[d] \notin {"unused", "gone"}
      BY DEF Connected
    <2>3. QED BY <1>1, <1>3, <2>1, <2>2, ChannelFacts
  <1>9. QED BY <1>2, <1>6, <1>7, <1>8, DaemonChannels

\* A connection the daemon drops keeps the types.
LEMMA DropTypes ==
  ASSUME Types, NEW c \in Channels, AttachDeadline(c) \/ DropSuperseded(c) \/ ServerNoticesClose(c),
         UNCHANGED handleVars
  PROVE  /\ Types' /\ c \in Connected /\ Forget({c}) /\ toClient' = toClient
         /\ UNCHANGED <<storeVars, epoch, running, ran, done>>
         /\ link' = link \/ CutLinks({c})
  <1>1. CASE AttachDeadline(c) \/ DropSuperseded(c)
    <2>1. c \in Connected
      BY <1>1, HostFacts DEF AttachDeadline, DropSuperseded, Connected
    <2>2. Forget({c}) /\ CutLinks({c}) /\ UNCHANGED <<storeVars, toClient, epoch, running, ran, done>>
      BY <1>1 DEF AttachDeadline, DropSuperseded, DropConnection
    <2>3. link'[c] # "up"
      BY <2>2 DEF CutLinks
    <2>4. QED BY <2>1, <2>2, <2>3, ForgetTypes
  <1>2. CASE ServerNoticesClose(c)
    <2>1. /\ c \in Connected /\ link[c] = "cut" /\ Forget({c})
          /\ UNCHANGED <<storeVars, link, toClient, epoch, running, ran, done>>
      BY <1>2 DEF ServerNoticesClose
    <2>2. QED BY <2>1, ForgetTypes
  <1>3. QED BY <1>1, <1>2

\* Every step keeps the types.
LEMMA TypesStep ==
  ASSUME Types, [Next]_vars
  PROVE  Types'
  <1>1. CASE UNCHANGED vars
    <2>1. UNCHANGED <<journalVars, retained, wireVars, hostVars, handleVars>>
      BY <1>1 DEF vars
    <2>2. JournalTypeOK' /\ RingInv'
      BY <2>1, HostFacts, JournalSame DEF journalVars
    <2>3. Connected' = Connected
      BY <2>1 DEF Connected, hostVars
    <2>4. UNCHANGED <<link, toClient, toServer, epoch, conn, active, doomed, due, running, ran, done>>
      BY <2>1 DEF wireVars, hostVars
    <2>5. QED BY <2>1, <2>2, <2>3, <2>4, HostFacts, WriteTypes
  <1>2. ASSUME NEW a \in Attempts, NEW c \in Channels, Connect(a, c) PROVE Types'
    BY <1>2, ConnectTypes
  <1>3. CASE ShellStep /\ UNCHANGED <<storeVars, hostVars>>
    BY <1>3, ShellTypes
  <1>4. ASSUME NEW c \in Channels, BreakChannel(c) PROVE Types'
    BY <1>4, CutTypes
  <1>5. CASE DaemonStep /\ UNCHANGED handleVars
    <2>1. ASSUME NEW c \in Channels, ServerReceive(c) PROVE Types'
      BY <1>5, <2>1, ReceiveTypes
    <2>2. ASSUME NEW c \in Channels, RunImmediates(c) PROVE Types'
      BY <1>5, <2>2, ImmediateTypes
    <2>3. ASSUME NEW c \in Channels, AttachDeadline(c) \/ DropSuperseded(c) \/ ServerNoticesClose(c) PROVE Types'
      BY <1>5, <2>3, DropTypes
    <2>4. ASSUME NEW w \in running, Finish(w) PROVE Types'
      BY <1>5, <2>4, FinishTypes
    <2>5. ASSUME NEW c, NEW e \in Events, NEW size \in FrameSizes, PushThrough(c, e, size) PROVE Types'
      BY <1>5, <2>5, PushedTypes
    <2>6. CASE PushFails \/ SettlementAgesOut
      BY <1>5, <2>6, JournalStepTypes
    <2>7. CASE ForeignAttach \/ ForeignLeaves
      BY <1>5, <2>7, ForeignTypes
    <2>8. CASE DaemonCrash
      BY <1>5, <2>8, CrashTypes
    <2>9. QED BY <1>5, <2>1, <2>2, <2>3, <2>4, <2>5, <2>6, <2>7, <2>8 DEF DaemonStep, SessionPush, HandlerPush
  <1>6. QED BY <1>1, <1>2, <1>3, <1>4, <1>5 DEF Next

\* The initial states have the types, with nothing under way.
LEMMA InitTypes ==
  ASSUME Init
  PROVE  /\ Types
         /\ \A c \in Channels : toClient[c] = <<>> /\ toServer[c] = <<>> /\ due[c] = <<>>
         /\ running = {} /\ retained = <<>>
  <1>1. InitWires /\ InitHost /\ InitHandle /\ InitJournal /\ retained = <<>>
    BY DEF Init, InitHost, InitStore
  <1>2. JournalTypeOK /\ RingInv
    BY <1>1, JournalInit
  <1>3. WireTypes
    BY <1>1, Nothing DEF InitWires, WireTypes, Links
  <1>4. HostTypes
    <2>1. /\ epoch = 1 /\ conn = [c \in Channels |-> "unused"] /\ active = NoChannel /\ doomed = {}
          /\ due = [c \in Channels |-> <<>>] /\ running = {} /\ ran = [i \in Invokes |-> 0] /\ done = {}
      BY <1>1 DEF InitHost
    <2>2. epoch \in 1 .. MaxEpoch
      BY <2>1, SessionAssumption
    <2>3. due \in [Channels -> Seq(DueMessage)] /\ retained \in Seq(Settlement)
      BY <1>1, <2>1, Nothing
    <2>4. active \notin Channels
      BY <2>1, Callers DEF NoChannel
    <2>5. conn \in [Channels -> Conns] /\ ran \in [Invokes -> Nat]
      BY <2>1 DEF Conns
    <2>6. QED BY <2>1, <2>2, <2>3, <2>4, <2>5 DEF HostTypes
  <1>5. GhostTypes /\ \A c \in Channels : promised[c] = {}
    BY <1>1 DEF InitHandle, GhostTypes
  <1> DEFINE f == [a \in Attempts |-> Idle]
             g == [c \in Channels |-> Unused]
             o == [i \in MyInvokes |-> "new"]
             w == [i \in MyInvokes |-> NoWire]
  <1>6. f \in AttemptSet
    BY IdleTypes, Callers DEF AttemptSet
  <1>7. g \in [Channels -> ClientRecord]
    BY DEF Unused, ClientRecord, Cursor
  <1>8. o \in [MyInvokes -> Promises] /\ w \in [MyInvokes -> CallId \cup {NoWire}]
    BY DEF Promises
  <1>9. h = [state |-> "disconnected", stopped |-> FALSE, reconnecting |-> FALSE,
             started |-> FALSE, tries |-> 0, client |-> None, lastSeq |-> -1,
             epoch |-> None, sweep |-> FALSE, attempt |-> f, rpc |-> g, owned |-> o,
             wire |-> w, aged |-> {}]
    BY <1>1 DEF InitHandle
  <1>10. \A c \in Channels : g[c] = Unused
    OBVIOUS
  <1>11. \A a \in Attempts : f[a] = Idle
    OBVIOUS
  <1> HIDE DEF f, g, o, w
  <1>12. h \in HandleRecord /\ h.rpc = g /\ h.attempt = f
    <2>1. None \in 0 .. MaxEpoch /\ -1 \in Cursor
      BY SessionAssumption DEF None, Cursor
    <2>2. QED BY <1>6, <1>7, <1>8, <1>9, <2>1 DEF HandleRecord, States
  <1>13. ChannelInv
    <2>1. \A a \in Attempts : ~Moving(h.attempt[a])
      BY <1>11, <1>12, IdleTypes
    <2>2. \A c \in Channels : ~h.rpc[c].open /\ h.rpc[c].pending = {} /\ h.rpc[c].nextId = 0
      BY <1>10, <1>12 DEF Unused
    <2>3. \A c \in Channels : /\ link[c] = "unused" /\ conn[c] = "unused"
                              /\ toClient[c] = <<>> /\ toServer[c] = <<>> /\ due[c] = <<>>
      BY <1>1 DEF InitWires, InitHost
    <2>4. QED BY <1>5, <2>1, <2>2, <2>3 DEF ChannelInv
  <1>14. QED BY <1>1, <1>2, <1>3, <1>4, <1>5, <1>12, <1>13 DEF Types, InitWires, InitHost

\* The inductive type invariant holds for every number of invokes, callers,
\* channels, retries and incarnations of the daemon.
THEOREM TypesInvariant == Spec => []Types
  <1>1. Init => Types
    BY InitTypes
  <1>2. Types /\ [Next]_vars => Types'
    BY TypesStep
  <1>3. QED BY <1>1, <1>2, PTL DEF Spec

\* TypeOK: the session's variables keep their types (RpcServer, SessionHost,
\* RemoteServerHandle).
THEOREM TypeCorrectness == Spec => []TypeOK
  <1>1. Types => TypeOK
    <2> SUFFICES ASSUME Types PROVE TypeOK
      OBVIOUS
    <2>1. h \in HandleRecord /\ h.attempt \in AttemptSet
      BY HostFacts DEF HandleRecord
    <2>2. /\ h.state \in States /\ h.client \in Channels \cup {None} /\ h.owned \in [Invokes -> Promises]
      BY <2>1, Callers DEF HandleRecord
    <2>3. ASSUME NEW a \in Attempts
          PROVE  h.attempt[a].pc \in Steps /\ (h.attempt[a].pc = "waiting" => a = Loop)
      BY <2>1, Callers DEF AttemptSet, AttemptRecord
    <2>4. QED BY <2>2, <2>3, HostFacts DEF TypeOK, States, Promises, Steps, Conns, Links
  <1>2. QED BY <1>1, TypesInvariant, PTL

\* OneHolder: a connection that attached and does not hold the session is about
\* to be dropped (SessionHost.attach, supersede).
THEOREM OneHolderServed == Spec => []OneHolder
  <1>1. Init => OneHolder
    BY DEF Init, InitHost, OneHolder
  <1>2. ASSUME Types, OneHolder, Next PROVE OneHolder'
    <2>1. ASSUME UNCHANGED hostVars PROVE OneHolder'
      BY <1>2, <2>1 DEF OneHolder, hostVars
    <2>2. ASSUME NEW a \in Attempts, NEW c \in Channels, Connect(a, c) PROVE OneHolder'
      BY <1>2, <2>2, HostFacts DEF OneHolder, Connect, Accept
    <2>3. ASSUME NEW c \in Channels, ServerReceive(c) PROVE OneHolder'
      <3> DEFINE m == Head(toServer[c])
      <3>1. ServeAttach(c, m) \/ UNCHANGED <<conn, active, doomed>>
        BY <2>3 DEF ServerReceive, RefuseAttach, DispatchInvoke
      <3>2. CASE UNCHANGED <<conn, active, doomed>>
        BY <1>2, <3>2 DEF OneHolder
      <3>3. CASE ServeAttach(c, m)
        <4>1. conn' = [conn EXCEPT ![c] = "attached"] /\ active' = c /\ doomed' = doomed \cup Displaced(c)
          BY <3>3 DEF ServeAttach
        <4>2. QED BY <1>2, <4>1, HostFacts DEF OneHolder, Displaced
      <3>4. QED BY <3>1, <3>2, <3>3
    <2>4. ASSUME NEW c \in Channels, RunImmediates(c) PROVE OneHolder'
      BY <1>2, <2>4, HostFacts DEF OneHolder, RunImmediates
    <2>5. ASSUME NEW c \in Channels, Forget({c}) PROVE OneHolder'
      BY <1>2, <2>5, HostFacts DEF OneHolder, Forget
    <2>6. ASSUME NEW w \in running, Finish(w) PROVE OneHolder'
      BY <1>2, <2>6 DEF OneHolder, Finish
    <2>7. CASE ForeignAttach
      BY <1>2, <2>7 DEF OneHolder, ForeignAttach
    <2>8. CASE ForeignLeaves
      BY <1>2, <2>8, Callers DEF OneHolder, ForeignLeaves, Foreign
    <2>9. CASE DaemonCrash
      BY <2>9 DEF OneHolder, DaemonCrash
    <2>10. QED BY <1>2, <2>1, <2>2, <2>3, <2>4, <2>5, <2>6, <2>7, <2>8, <2>9
             DEF Next, DaemonStep, BreakChannel, AttachDeadline, DropSuperseded, DropConnection,
                 ServerNoticesClose, SessionPush, HandlerPush, PushThrough, PushFails, SettlementAgesOut
  <1>3. OneHolder /\ UNCHANGED vars => OneHolder'
    BY DEF OneHolder, vars, hostVars
  <1>4. Types /\ OneHolder /\ [Next]_vars => OneHolder'
    BY <1>2, <1>3
  <1>5. QED BY <1>1, <1>4, TypesInvariant, PTL DEF Spec
=============================================================================
