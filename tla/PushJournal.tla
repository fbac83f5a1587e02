---------------------------- MODULE PushJournal ----------------------------
(***************************************************************************)
(* The session's push journal: it numbers every push and keeps the recent  *)
(* frames in a ring bounded by a count and by bytes, so that a client that *)
(* reattaches can be replayed what it missed, or be told that it cannot.   *)
(*                                                                         *)
(* A frame is the number it was given, the channel it is for and its size. *)
(* The journal does no I/O: SessionHost composes it with the connections   *)
(* that write the frames.                                                  *)
(***************************************************************************)
EXTENDS Integers, Sequences

CONSTANTS
  MaxMessages,  \* ceiling on the number of frames retained
  MaxBytes,     \* ceiling on the bytes retained
  FrameSizes,   \* the sizes an encoded frame can have
  Events        \* the push channels

ASSUME JournalAssumption ==
  /\ MaxMessages \in Nat
  /\ MaxBytes \in Nat
  /\ FrameSizes \subseteq Nat \ {0}

VARIABLES
  ring,           \* the frames retained, oldest first
  nextSeq,        \* the number the next push will be given
  retainedBytes,  \* running total of the sizes in ring
  journalled      \* history: every number whose frame was ever retained

journalVars == <<ring, nextSeq, retainedBytes, journalled>>

Frame == [seq : Nat, event : Events, bytes : FrameSizes]

----------------------------------------------------------------------------
LastSeq == nextSeq - 1

(* Mutant: an empty ring starts one too far.                               *)
FirstRetainedTooFar == IF Len(ring) > 0 THEN ring[1].seq ELSE nextSeq + 1

FirstRetainedSeq == IF Len(ring) > 0 THEN ring[1].seq ELSE nextSeq

(* The sizes of the first k frames of r, summed.                           *)
PrefixBytes(r) ==
  LET sum[k \in 0 .. Len(r)] == IF k = 0 THEN 0 ELSE sum[k - 1] + r[k].bytes
  IN  sum

(* Both bounds hold for what is left of r once its first k frames go.      *)
Fits(r, total, k) ==
  /\ Len(r) - k <= MaxMessages
  /\ total - PrefixBytes(r)[k] <= MaxBytes

(* Mutant: the newest frame may go too.                                    *)
EvictsNewest(r, total) ==
  CHOOSE k \in 0 .. Len(r) :
    Fits(r, total, k) /\ \A j \in 0 .. k - 1 : ~Fits(r, total, j)

(* How many of the oldest frames evict() drops: as few as make the rest    *)
(* fit, but never the newest one.                                          *)
EvictCount(r, total) ==
  CHOOSE k \in 0 .. Len(r) - 1 :
    /\ k = Len(r) - 1 \/ Fits(r, total, k)
    /\ \A j \in 0 .. k - 1 : ~Fits(r, total, j)

(* Mutant: off by one at the back of the ring.                             *)
CanReplayFromOneEarlier(afterSeq) ==
  /\ afterSeq <= LastSeq
  /\ afterSeq + 2 >= FirstRetainedSeq

(* A cursor that can be served: not ahead of the session, and its next     *)
(* frame has not fallen off the back of the ring.                          *)
CanReplayFrom(afterSeq) ==
  /\ afterSeq <= LastSeq
  /\ afterSeq + 1 >= FirstRetainedSeq

(* framesSince for a cursor that can be served (null, for any other).  The *)
(* ring is in order, so the entries the code filters out are its head.     *)
FramesSince(afterSeq) ==
  LET above == {i \in DOMAIN ring : ring[i].seq > afterSeq}
      first == CHOOSE i \in above : \A j \in above : i <= j
  IN  IF above = {} THEN <<>> ELSE SubSeq(ring, first, Len(ring))

----------------------------------------------------------------------------
(* Mutant: the counter starts where the last number of an empty session is.*)
InitAtLast == ring = <<>> /\ nextSeq = -1 /\ retainedBytes = 0 /\ journalled = {}

InitJournal ==
  /\ ring = <<>>
  /\ nextSeq = 0
  /\ retainedBytes = 0
  /\ journalled = {}

(* append(event, payload): number, encode, retain, evict.                  *)
AppendPush(event, size) ==
  LET grown == Append(ring, [seq |-> nextSeq, event |-> event, bytes |-> size])
      total == retainedBytes + size
      k     == EvictCount(grown, total)
  IN  /\ nextSeq' = nextSeq + 1
      /\ ring' = SubSeq(grown, k + 1, Len(grown))
      /\ retainedBytes' = total - PrefixBytes(grown)[k]
      /\ journalled' = journalled \cup {nextSeq}

(* append throws when the payload cannot be serialised.  The number was    *)
(* taken before the encoding was tried, so it is spent all the same.       *)
AppendThrows ==
  /\ nextSeq' = nextSeq + 1
  /\ UNCHANGED <<ring, retainedBytes, journalled>>

NextJournal ==
  \/ \E event \in Events, size \in FrameSizes : AppendPush(event, size)
  \/ AppendThrows

JournalSpec == InitJournal /\ [][NextJournal]_journalVars

----------------------------------------------------------------------------
(* The journal's variables have their types.                               *)
JournalTypeOK ==
  /\ ring \in Seq(Frame)
  /\ nextSeq \in Nat
  /\ journalled \in SUBSET Nat

(* A replay is exactly what was missed: a cursor that is served gets every *)
(* frame ever journalled above it, once each and in order.  This is the    *)
(* promise framesSince makes to a reattaching client, through eviction and *)
(* failed appends alike.                                                   *)
ReplayIsExact ==
  \A c \in -1 .. nextSeq :
    CanReplayFrom(c) =>
      /\ {FramesSince(c)[i].seq : i \in DOMAIN FramesSince(c)}
           = {s \in journalled : s > c}
      /\ \A i, j \in DOMAIN FramesSince(c) :
           i < j => FramesSince(c)[i].seq < FramesSince(c)[j].seq

(* "Never evict the newest frame": whatever its size, the last frame that  *)
(* was encoded is still there to be replayed, so an oversized push cannot  *)
(* make a client that never got it look caught up.                         *)
NewestRetained ==
  \A s \in journalled :
    (\A t \in journalled : t <= s) => Len(ring) > 0 /\ ring[Len(ring)].seq = s

(* A cursor that was refused stays refused: eviction never gives a frame   *)
(* back, so a gap cannot turn into an empty replay later.                  *)
GapIsFinal ==
  [][\A c \in -1 .. LastSeq : ~CanReplayFrom(c) => ~CanReplayFrom(c)']_journalVars
=============================================================================
