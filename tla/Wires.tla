------------------------------- MODULE Wires -------------------------------
(***************************************************************************)
(* The channels between the shell and the session daemon.  Each is one ssh *)
(* process running "pdv-server attach", bridging a stream pair to the      *)
(* session's socket: first in first out each way, until it is cut.  What   *)
(* was in flight then may still arrive, until the receiver notices; what   *)
(* is written later goes nowhere.  A channel is never reused.              *)
(*                                                                         *)
(* Nothing here is the repository's own code: it is the behaviour of the   *)
(* streams that src/electron/main/transport reads and writes.              *)
(***************************************************************************)
EXTENDS Integers, Sequences

CONSTANT MaxChannels  \* bound: channels the shell may open

ASSUME ChannelsAssumption == MaxChannels \in Nat

Channels == 1 .. MaxChannels  \* opened in that order

VARIABLES
  link,      \* per channel: "unused", "up" or "cut"
  toClient,  \* messages on their way to the shell
  toServer   \* messages on their way to the daemon

wireVars == <<link, toClient, toServer>>

InitWires ==
  /\ link = [c \in Channels |-> "unused"]
  /\ toClient = [c \in Channels |-> <<>>]
  /\ toServer = [c \in Channels |-> <<>>]

(* The queues once nobody reads these channels any more.                   *)
Emptied(queues, cut) == [c \in Channels |-> IF c \in cut THEN <<>> ELSE queues[c]]

CutLinks(cut) ==
  link' = [c \in Channels |-> IF c \in cut THEN "cut" ELSE link[c]]

(* The queues once out[c] is written to every channel c: a write to a      *)
(* channel that is not up goes nowhere.                                    *)
Written(queues, out) ==
  [c \in Channels |-> IF link[c] = "up" THEN queues[c] \o out[c] ELSE queues[c]]

(* Messages for one channel only.                                          *)
OnlyTo(c, msgs) == [x \in Channels |-> IF x = c THEN msgs ELSE <<>>]

(* The channel breaks: the network drops, or the ssh process dies.         *)
Cut(c) ==
  /\ link[c] = "up"
  /\ CutLinks({c})
  /\ UNCHANGED <<toClient, toServer>>
=============================================================================
