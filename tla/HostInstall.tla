----------------------------- MODULE HostInstall -----------------------------
(***************************************************************************)
(* The install of pdv-server under a host's ~/.pdv-server/<version>, which *)
(* every shell of this version shares.  A connect() probes it, and unless  *)
(* it is proven to be the bundle this shell ships, uploads, verifies,      *)
(* unpacks to a staging directory of its own, renames that into place,     *)
(* self-checks what is there and records the verdict.  The unpacking and   *)
(* the renames are one command on the host, which goes on when the ssh     *)
(* that issued it is given up.                                             *)
(*                                                                         *)
(* A directory goes by the call that unpacked it, wherever it is moved.    *)
(***************************************************************************)
CONSTANTS Installs,   \* the connect() calls that prepare this host
          Bundles, BundleOf, NoBundle,   \* the bundle a call ships
          Works       \* the bundles that run on this host

ASSUME InstallAssumption ==
  BundleOf \in [Installs -> Bundles] /\ NoBundle \notin Bundles /\ Works \subseteq Bundles

VARIABLES
  call,     \* where a call of prepareHost stands
  command,  \* where its command on the host stands
  dir,      \* the directory it unpacked
  past      \* history: the mishaps that happened, by name

vars == <<call, command, dir, past>>

NoDir == [at |-> "nowhere", whole |-> FALSE, checked |-> FALSE, id |-> NoBundle]

Init ==
  /\ call = [i \in Installs |-> "new"]
  /\ command = [i \in Installs |-> "none"]
  /\ dir = [i \in Installs |-> NoDir]
  /\ past = {}

\* The directory at <version>, if there is one.
Installed == {i \in Installs : dir[i].at = "target"}
Running(i) == command[i] \in {"unpack", "test", "park", "place"}
Goes(i, at) == call' = [call EXCEPT ![i] = at]
Commands(i, at) == command' = [command EXCEPT ![i] = at]
DoneCalls == {"prepared", "failed"}

\* Somebody else's bundle is being installed at the same time.
Rivals(i) == {j \in Installs : BundleOf[j] # BundleOf[i] /\ call[j] \notin DoneCalls \cup {"new"}}

-----------------------------------------------------------------------------
(* The call, on the shell.                                                 *)

\* The probe's word for it: this version passed its check, as this bundle.
IsProven(i) == \E t \in Installed : dir[t].checked /\ dir[t].id = BundleOf[i]

Probe(i) ==
  /\ call[i] = "new"
  /\ Goes(i, IF IsProven(i) THEN "prepared" ELSE "uploading")
  /\ past' = IF IsProven(i) \/ Rivals(i) = {} THEN past ELSE past \cup {"rivals"}
  /\ UNCHANGED <<command, dir>>

\* The host is no Linux, unreachable or full, or the upload broke off.
CannotSend(i) ==
  /\ call[i] \in {"uploading", "verifying"}
  /\ Goes(i, "failed")
  /\ UNCHANGED <<command, dir, past>>

\* The upload is complete by its byte count; what arrived may still differ.
Upload(i) ==
  /\ call[i] = "uploading"
  /\ Goes(i, "verifying")
  /\ \E intact \in BOOLEAN : dir' = [dir EXCEPT ![i].whole = intact]
  /\ UNCHANGED <<command, past>>

\* Until it is unpacked, "whole" says whether the archive arrived intact.
MatchesUnread(i) == dir[i].at = "nowhere"
Matches(i) == dir[i].whole

\* What is installed is moved aside before the new one is unpacked.
VerifyParksFirst(i) ==
  /\ call[i] = "verifying" /\ Matches(i)
  /\ Goes(i, "installing") /\ Commands(i, "unpack")
  /\ dir' = [t \in Installs |-> IF t = i THEN [dir[i] EXCEPT !.at = "staging"]
                              ELSE IF t \in Installed THEN [dir[t] EXCEPT !.at = "parked"]
                              ELSE dir[t]]
  /\ UNCHANGED past

\* sha256sum -c on the host, then the one command that unpacks and renames.
Verify(i) ==
  /\ call[i] = "verifying" /\ Matches(i)
  /\ Goes(i, "installing") /\ Commands(i, "unpack")
  /\ dir' = [dir EXCEPT ![i].at = "staging"]
  /\ UNCHANGED past

\* The command answered; if not with success, its staging is removed.
Cleaned(i) == IF dir[i].at = "staging" THEN [dir EXCEPT ![i] = NoDir] ELSE dir

Answered(i) ==
  /\ call[i] = "installing" /\ command[i] \in {"done", "failed"}
  /\ IF command[i] = "done" THEN Goes(i, "checking") /\ UNCHANGED dir
     ELSE Goes(i, "failed") /\ dir' = Cleaned(i)
  /\ UNCHANGED <<command, past>>

\* After three minutes ssh is killed, and the staging is removed while the
\* command may go on in it: rm has begun on a tree that can still be moved.
GiveUp(i) ==
  /\ call[i] = "installing" /\ (Running(i) \/ command[i] = "done")
  /\ Goes(i, "removing")
  /\ dir' = IF dir[i].at = "staging" THEN [dir EXCEPT ![i].whole = FALSE] ELSE dir
  /\ past' = past \cup (IF Running(i) THEN {"outlived"} ELSE {})
  /\ UNCHANGED command

Remove(i) ==
  /\ call[i] = "removing"
  /\ Goes(i, "failed") /\ dir' = Cleaned(i)
  /\ UNCHANGED <<command, past>>

\* self-check runs from <version>, whoever's directory that is by now: it
\* loads zeromq and writes a scratch file, which a damaged tree may do too.
Passes(t) == {BundleOf[t] \in Works} \cup (IF dir[t].whole THEN {} ELSE {FALSE})

SelfCheck(i) ==
  /\ call[i] = "checking"
  /\ \E t \in Installed : \E ok \in Passes(t) : Goes(i, IF ok THEN "recording" ELSE "failed")
  /\ UNCHANGED <<command, dir, past>>

CannotCheck(i) ==
  /\ call[i] = "checking"
  /\ Goes(i, "failed")
  /\ UNCHANGED <<command, dir, past>>

\* .selfcheck.json and then .bundle-id, both by path.
RecordVerdict(i) ==
  /\ call[i] = "recording"
  /\ \E t \in Installed :
       /\ dir' = [dir EXCEPT ![t].checked = TRUE]
       /\ Goes(i, "naming")
  /\ UNCHANGED <<command, past>>

RecordId(i) ==
  /\ call[i] = "naming"
  /\ Goes(i, "prepared")
  /\ \E t \in Installed : dir' = [dir EXCEPT ![t].id = BundleOf[i]]
  /\ UNCHANGED <<command, past>>

\* Whether anything was recorded is not looked at.
CannotRecord(i) ==
  /\ call[i] \in {"recording", "naming"}
  /\ Goes(i, "prepared")
  /\ UNCHANGED <<command, dir, past>>

-----------------------------------------------------------------------------
(* The command, on the host.                                               *)

\* What comes of an archive is whole if nothing was removed under it.
Unpack(i) ==
  /\ command[i] = "unpack"
  /\ IF dir[i].at = "staging" THEN Commands(i, "test") ELSE Commands(i, "failed")
  /\ UNCHANGED <<call, dir, past>>

CannotUnpack(i) ==
  /\ command[i] = "unpack"
  /\ Commands(i, "failed")
  /\ dir' = [dir EXCEPT ![i].whole = FALSE]
  /\ UNCHANGED <<call, past>>

\* if [ -d target ]
Test(i) ==
  /\ command[i] = "test"
  /\ Commands(i, IF Installed = {} THEN "place" ELSE "park")
  /\ UNCHANGED <<call, dir, past>>

\* mv target target.old.$$, which fails if it was moved away meanwhile.
Park(i) ==
  /\ command[i] = "park"
  /\ Commands(i, IF Installed = {} THEN "failed" ELSE "place")
  /\ dir' = [t \in Installs |-> IF t \in Installed THEN [dir[t] EXCEPT !.at = "parked"] ELSE dir[t]]
  /\ UNCHANGED <<call, past>>

\* mv staging target: a rename, or, if one is there again, a move into it.
Place(i) ==
  /\ command[i] = "place"
  /\ IF dir[i].at = "staging"
     THEN /\ Commands(i, "done")
          /\ dir' = [dir EXCEPT ![i].at = IF Installed = {} THEN "target" ELSE "inside"]
     ELSE Commands(i, "failed") /\ UNCHANGED dir
  /\ UNCHANGED <<call, past>>

\* The node goes down, or the user's processes there are killed.
CommandDies(i) ==
  /\ Running(i)
  /\ Commands(i, "failed")
  /\ past' = past \cup (IF command[i] = "place" THEN {"cut"} ELSE {})
  /\ UNCHANGED <<call, dir>>

-----------------------------------------------------------------------------
CallStep(i) ==
  \/ Probe(i) \/ CannotSend(i) \/ Upload(i) \/ Verify(i) \/ Answered(i) \/ GiveUp(i) \/ Remove(i)
  \/ SelfCheck(i) \/ CannotCheck(i) \/ RecordVerdict(i) \/ RecordId(i) \/ CannotRecord(i)

CommandStep(i) ==
  Unpack(i) \/ CannotUnpack(i) \/ Test(i) \/ Park(i) \/ Place(i) \/ CommandDies(i)

Next == \E i \in Installs : CallStep(i) \/ CommandStep(i)

Spec == Init /\ [][Next]_vars

-----------------------------------------------------------------------------
\* What is at <version> is what its markers say.
MarkersAreTrue ==
  \A t \in Installed :
    dir[t].checked /\ dir[t].id # NoBundle =>
      dir[t].whole /\ dir[t].id = BundleOf[t] /\ BundleOf[t] \in Works

(* The recorded bundle id proves that this exact bundle is there, whole,   *)
(* and passed its check, however many calls install it at once -- unless   *)
(* they ship different bundles, or a command outlived its call.            *)
IdIsProof == past \cap {"rivals", "outlived"} = {} => MarkersAreTrue

(* An install is replaced, never lost: once there was one, there is one    *)
(* but between the two renames of a command that is at work -- unless such *)
(* a command was cut off, or outlived its call.                            *)
InstallIsKept ==
  (\E i \in Installs : dir[i].at \in {"parked", "inside"}) /\ past \cap {"cut", "outlived"} = {}
    => Installed # {} \/ \E i \in Installs : command[i] = "place"

(* Refuted: what the comments say and the code does not keep.              *)

(* The id's value is proof that this exact bundle works on this host.      *)
IdIsAlwaysProof == MarkersAreTrue

(* A concurrent probe can never observe a partial install.                 *)
NoneIsPartial == \A t \in Installed : dir[t].whole

(* The bundle a call reports ready is the one it installed.                *)
ReadyIsOwn ==
  [][\A i \in Installs :
       call[i] # "prepared" /\ call'[i] = "prepared"
         => \E t \in Installed' : BundleOf[t] = BundleOf[i]]_vars
=============================================================================
