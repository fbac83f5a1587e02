-------------------------- MODULE HostInstall_proofs --------------------------
(***************************************************************************)
(* For any set of calls, any bundles and any of them that run on the host: *)
(* the recorded id is proof, and an install is replaced, never lost.       *)
(***************************************************************************)
EXTENDS HostInstall, TLAPS

Active == {i \in Installs : call[i] \notin DoneCalls \cup {"new"}}

(* The calls, commands and directories keep their types.                   *)
TypeInv ==
  /\ call \in [Installs -> {"new", "uploading", "verifying", "installing", "removing", "checking",
                            "recording", "naming"} \cup DoneCalls]
  /\ command \in [Installs -> {"none", "unpack", "test", "park", "place", "done", "failed"}]
  /\ dir \in [Installs -> [at : {"nowhere", "staging", "target", "parked", "inside"},
                           whole : BOOLEAN, checked : BOOLEAN, id : Bundles \cup {NoBundle}]]
  /\ past \subseteq {"rivals", "outlived", "cut"}

(* Where a directory is while no command outlived its call: unpacked whole *)
(* before the renames, and installed only by a command that succeeded.     *)
CommandInv(i) ==
  /\ Running(i) => call[i] = "installing" /\ dir[i].at = "staging" /\ dir[i].whole
  /\ command[i] = "none" => call[i] \in {"new", "uploading", "verifying"} \cup DoneCalls /\ dir[i].at = "nowhere"
  /\ command[i] # "none" => call[i] \notin {"new", "uploading", "verifying"}
  /\ command[i] \in {"done", "none"} => dir[i].at # "staging"
  /\ call[i] \in {"installing", "checking", "recording", "naming"} => command[i] # "none"
  /\ call[i] \in {"checking", "recording", "naming"} => command[i] = "done"
  /\ call[i] = "removing" => command[i] = "done"
  /\ dir[i].at = "target" => dir[i].whole /\ command[i] = "done"

TrackedInv == "outlived" \notin past => \A i \in Installs : CommandInv(i)

(* While no rivals install, active calls ship one bundle, and what a call  *)
(* finds installed from its second rename on is that bundle.               *)
IdInv ==
  past \cap {"rivals", "outlived"} = {} =>
    /\ \A i, j \in Active : BundleOf[i] = BundleOf[j]
    /\ \A i \in Active : command[i] \in {"place", "done"} =>
         \A t \in Installed : BundleOf[t] = BundleOf[i]
    /\ \A i \in Installs : call[i] \in {"recording", "naming"} => BundleOf[i] \in Works
    /\ \A t \in Installed : dir[t].id # NoBundle => dir[t].id = BundleOf[t] /\ BundleOf[t] \in Works
    /\ \A t \in Installs : dir[t].at \in {"nowhere", "staging"} => dir[t].id = NoBundle

-----------------------------------------------------------------------------
(* A step of a call or of its command keeps the types.                     *)
LEMMA StepTypes ==
  ASSUME TypeInv, NEW i \in Installs, CallStep(i) \/ CommandStep(i)
  PROVE  TypeInv'
<1>1. CASE Probe(i)
  BY <1>1 DEF Probe, Goes, DoneCalls, TypeInv
<1>2. CASE CannotSend(i)
  BY <1>2 DEF CannotSend, Goes, DoneCalls, TypeInv
<1>3. CASE Upload(i)
  BY <1>3 DEF Upload, Goes, DoneCalls, TypeInv
<1>4. CASE Verify(i)
  BY <1>4 DEF Verify, Goes, Commands, DoneCalls, TypeInv
<1>5. CASE Answered(i)
  <2>1. dir' = dir \/ dir' = [dir EXCEPT ![i] = NoDir]
    BY <1>5 DEF Answered, Cleaned
  <2>2. NoDir \in [at : {"nowhere", "staging", "target", "parked", "inside"},
                  whole : BOOLEAN, checked : BOOLEAN, id : Bundles \cup {NoBundle}]
    BY DEF NoDir
  <2>3. call' = [call EXCEPT ![i] = "checking"] \/ call' = [call EXCEPT ![i] = "failed"]
    BY <1>5 DEF Answered, Goes
  <2> QED
    BY <1>5, <2>1, <2>2, <2>3 DEF Answered, DoneCalls, TypeInv
<1>6. CASE GiveUp(i)
  BY <1>6 DEF GiveUp, Goes, DoneCalls, TypeInv
<1>7. CASE Remove(i)
  BY <1>7 DEF Remove, Goes, Cleaned, NoDir, DoneCalls, TypeInv
<1>8. CASE SelfCheck(i)
  BY <1>8 DEF SelfCheck, Goes, DoneCalls, TypeInv
<1>9. CASE CannotCheck(i)
  BY <1>9 DEF CannotCheck, Goes, DoneCalls, TypeInv
<1>10. CASE RecordVerdict(i)
  <2> PICK t \in Installs : dir' = [dir EXCEPT ![t].checked = TRUE]
    BY <1>10 DEF RecordVerdict, Installed
  <2>1. call' = [call EXCEPT ![i] = "naming"] /\ UNCHANGED <<command, past>>
    BY <1>10 DEF RecordVerdict, Goes
  <2> QED
    BY <2>1, ZenonT(60) DEF DoneCalls, TypeInv
<1>11. CASE RecordId(i)
  <2> PICK t \in Installs : dir' = [dir EXCEPT ![t].id = BundleOf[i]]
    BY <1>11 DEF RecordId, Installed
  <2>1. call' = [call EXCEPT ![i] = "prepared"] /\ UNCHANGED <<command, past>>
    BY <1>11 DEF RecordId, Goes
  <2>2. BundleOf[i] \in Bundles
    BY InstallAssumption
  <2> QED
    BY <2>1, <2>2 DEF DoneCalls, TypeInv
<1>12. CASE CannotRecord(i)
  BY <1>12 DEF CannotRecord, Goes, DoneCalls, TypeInv
<1>13. CASE Unpack(i)
  BY <1>13 DEF Unpack, Commands, DoneCalls, TypeInv
<1>14. CASE CannotUnpack(i)
  BY <1>14, ZenonT(60) DEF CannotUnpack, Commands, DoneCalls, TypeInv
<1>15. CASE Test(i)
  BY <1>15 DEF Test, Commands, DoneCalls, TypeInv
<1>16. CASE Park(i)
  BY <1>16 DEF Park, Commands, DoneCalls, TypeInv
<1>17. CASE Place(i)
  BY <1>17 DEF Place, Commands, DoneCalls, TypeInv
<1>18. CASE CommandDies(i)
  BY <1>18 DEF CommandDies, Commands, DoneCalls, TypeInv
<1> QED
  BY <1>1, <1>2, <1>3, <1>4, <1>5, <1>6, <1>7, <1>8, <1>9,
     <1>10, <1>11, <1>12, <1>13, <1>14, <1>15, <1>16, <1>17, <1>18 DEF CallStep, CommandStep

(* Unless a command outlives its call, its directory is where CommandInv   *)
(* says.                                                                   *)
LEMMA StepTracked ==
  ASSUME TypeInv, TrackedInv, NEW i \in Installs, CallStep(i) \/ CommandStep(i)
  PROVE  TrackedInv'
<1>1. CASE Probe(i)
  BY <1>1 DEF Probe, Goes, DoneCalls, Running, Installed, TypeInv, TrackedInv, CommandInv
<1>2. CASE CannotSend(i)
  BY <1>2 DEF CannotSend, Goes, DoneCalls, Running, Installed, TypeInv, TrackedInv, CommandInv
<1>3. CASE Upload(i)
  BY <1>3 DEF Upload, Goes, DoneCalls, Running, Installed, TypeInv, TrackedInv, CommandInv
<1>4. CASE Verify(i)
  BY <1>4 DEF Verify, Goes, Commands, Matches, DoneCalls, Running, Installed, TypeInv,
          TrackedInv, CommandInv
<1>5. CASE Answered(i)
  BY <1>5 DEF Answered, Goes, Cleaned, NoDir, DoneCalls, Running, Installed, TypeInv,
          TrackedInv, CommandInv
<1>6. CASE GiveUp(i)
  BY <1>6 DEF GiveUp, Goes, DoneCalls, Running, Installed, TypeInv, TrackedInv, CommandInv
<1>7. CASE Remove(i)
  BY <1>7 DEF Remove, Goes, Cleaned, NoDir, DoneCalls, Running, Installed, TypeInv, TrackedInv,
          CommandInv
<1>8. CASE SelfCheck(i)
  BY <1>8 DEF SelfCheck, Goes, DoneCalls, Running, Installed, TypeInv, TrackedInv, CommandInv
<1>9. CASE CannotCheck(i)
  BY <1>9 DEF CannotCheck, Goes, DoneCalls, Running, Installed, TypeInv, TrackedInv, CommandInv
<1>10. CASE RecordVerdict(i)
  BY <1>10 DEF RecordVerdict, Goes, DoneCalls, Running, Installed, TypeInv, TrackedInv,
          CommandInv
<1>11. CASE RecordId(i)
  BY <1>11 DEF RecordId, Goes, DoneCalls, Running, Installed, TypeInv, TrackedInv, CommandInv
<1>12. CASE CannotRecord(i)
  BY <1>12 DEF CannotRecord, Goes, DoneCalls, Running, Installed, TypeInv, TrackedInv,
          CommandInv
<1>13. CASE Unpack(i)
  BY <1>13 DEF Unpack, Commands, DoneCalls, Running, Installed, TypeInv, TrackedInv, CommandInv
<1>14. CASE CannotUnpack(i)
  BY <1>14 DEF CannotUnpack, Commands, DoneCalls, Running, Installed, TypeInv, TrackedInv,
          CommandInv
<1>15. CASE Test(i)
  BY <1>15 DEF Test, Commands, DoneCalls, Running, Installed, TypeInv, TrackedInv, CommandInv
<1>16. CASE Park(i)
  BY <1>16 DEF Park, Commands, DoneCalls, Running, Installed, TypeInv, TrackedInv, CommandInv
<1>17. CASE Place(i)
  BY <1>17 DEF Place, Commands, DoneCalls, Running, Installed, TypeInv, TrackedInv, CommandInv
<1>18. CASE CommandDies(i)
  BY <1>18 DEF CommandDies, Commands, DoneCalls, Running, Installed, TypeInv, TrackedInv,
          CommandInv
<1> QED
  BY <1>1, <1>2, <1>3, <1>4, <1>5, <1>6, <1>7, <1>8, <1>9,
     <1>10, <1>11, <1>12, <1>13, <1>14, <1>15, <1>16, <1>17, <1>18 DEF CallStep, CommandStep

(* Without rivals and commands that outlive their call, whatever is moved  *)
(* into place or named is of the bundle all active calls ship.             *)
LEMMA StepId ==
  ASSUME TypeInv, TrackedInv, IdInv, NEW i \in Installs, CallStep(i) \/ CommandStep(i)
  PROVE  IdInv'
<1>1. CASE Probe(i)
  BY <1>1, InstallAssumption DEF Probe, Goes, IsProven, Rivals, Active, DoneCalls, Running,
          Installed, TypeInv, TrackedInv, CommandInv, IdInv
<1>2. CASE CannotSend(i)
  BY <1>2, InstallAssumption DEF CannotSend, Goes, Active, DoneCalls, Running, Installed,
          TypeInv, TrackedInv, CommandInv, IdInv
<1>3. CASE Upload(i)
  BY <1>3, InstallAssumption DEF Upload, Goes, Active, DoneCalls, Running, Installed, TypeInv,
          TrackedInv, CommandInv, IdInv
<1>4. CASE Verify(i)
  BY <1>4, InstallAssumption DEF Verify, Goes, Commands, Matches, Active, DoneCalls, Running,
          Installed, TypeInv, TrackedInv, CommandInv, IdInv
<1>5. CASE Answered(i)
  <2>1. CASE Goes(i, "checking") /\ UNCHANGED dir
    BY <1>5, <2>1 DEF Answered, Goes, Active, DoneCalls, Installed, TypeInv, IdInv
  <2>2. CASE Goes(i, "failed") /\ dir' = Cleaned(i)
    <3>1. Installed' = Installed /\ \A t \in Installed : dir'[t] = dir[t]
      BY <2>2 DEF Cleaned, NoDir, Installed, TypeInv
    <3>2. \A t \in Installs : dir'[t] = dir[t] \/ dir'[t].id = NoBundle
      BY <2>2 DEF Cleaned, NoDir, TypeInv
    <3>3. Active' \subseteq Active
      BY <2>2 DEF Goes, Active, DoneCalls, TypeInv
    <3>4. \A j \in Installs : call'[j] \in {"recording", "naming"} => call[j] = call'[j]
      BY <2>2 DEF Goes, TypeInv
    <3> QED
      BY <1>5, <3>1, <3>2, <3>3, <3>4 DEF Answered, IdInv
  <2> QED
    BY <1>5, <2>1, <2>2 DEF Answered
<1>6. CASE GiveUp(i)
  BY <1>6, InstallAssumption DEF GiveUp, Goes, Active, DoneCalls, Running, Installed, TypeInv,
          TrackedInv, CommandInv, IdInv
<1>7. CASE Remove(i)
  BY <1>7, InstallAssumption DEF Remove, Goes, Cleaned, NoDir, Active, DoneCalls, Running,
          Installed, TypeInv, TrackedInv, CommandInv, IdInv
<1>8. CASE SelfCheck(i)
  <2>1. CASE Goes(i, "failed")
    BY <1>8, <2>1 DEF SelfCheck, Goes, Active, DoneCalls, Installed, TypeInv, IdInv
  <2>2. CASE Goes(i, "recording")
    <3>1. PICK t \in Installed : TRUE \in Passes(t)
      BY <1>8, <2>2 DEF SelfCheck, Goes, TypeInv, Passes
    <3>2. BundleOf[t] \in Works
      BY <3>1 DEF Passes
    <3>3. past \cap {"rivals", "outlived"} = {} => BundleOf[t] = BundleOf[i]
      BY <1>8, <3>1 DEF SelfCheck, Active, DoneCalls, TrackedInv, CommandInv, IdInv
    <3>4. Active' = Active /\ Installed' = Installed
      BY <1>8, <2>2 DEF SelfCheck, Goes, Active, DoneCalls, Installed, TypeInv
    <3> QED
      BY <1>8, <2>2, <3>2, <3>3, <3>4 DEF SelfCheck, Goes, TypeInv, IdInv
  <2> QED
    BY <1>8, <2>1, <2>2 DEF SelfCheck
<1>9. CASE CannotCheck(i)
  BY <1>9, InstallAssumption DEF CannotCheck, Goes, Active, DoneCalls, Running, Installed,
          TypeInv, TrackedInv, CommandInv, IdInv
<1>10. CASE RecordVerdict(i)
  BY <1>10, InstallAssumption DEF RecordVerdict, Goes, Active, DoneCalls, Running, Installed,
          TypeInv, TrackedInv, CommandInv, IdInv
<1>11. CASE RecordId(i)
  BY <1>11, InstallAssumption DEF RecordId, Goes, Active, DoneCalls, Running, Installed,
          TypeInv, TrackedInv, CommandInv, IdInv
<1>12. CASE CannotRecord(i)
  BY <1>12, InstallAssumption DEF CannotRecord, Goes, Active, DoneCalls, Running, Installed,
          TypeInv, TrackedInv, CommandInv, IdInv
<1>13. CASE Unpack(i)
  BY <1>13, InstallAssumption DEF Unpack, Commands, Active, DoneCalls, Running, Installed,
          TypeInv, TrackedInv, CommandInv, IdInv
<1>14. CASE CannotUnpack(i)
  BY <1>14, InstallAssumption DEF CannotUnpack, Commands, Active, DoneCalls, Running,
          Installed, TypeInv, TrackedInv, CommandInv, IdInv
<1>15. CASE Test(i)
  BY <1>15, InstallAssumption DEF Test, Commands, Active, DoneCalls, Running, Installed,
          TypeInv, TrackedInv, CommandInv, IdInv
<1>16. CASE Park(i)
  BY <1>16, InstallAssumption DEF Park, Commands, Active, DoneCalls, Running, Installed,
          TypeInv, TrackedInv, CommandInv, IdInv
<1>17. CASE Place(i)
  <2>1. CASE past \cap {"rivals", "outlived"} # {}
    BY <1>17, <2>1 DEF Place, IdInv
  <2>2. CASE past \cap {"rivals", "outlived"} = {}
    <3>1. i \in Active /\ dir[i].at = "staging" /\ dir[i].id = NoBundle
      BY <1>17, <2>2 DEF Place, Active, DoneCalls, Running, TrackedInv, CommandInv, IdInv
    <3>2. Active' = Active /\ command' = [command EXCEPT ![i] = "done"]
      BY <1>17, <3>1 DEF Place, Commands, Active
    <3>3. \A t \in Installs : dir'[t].id = dir[t].id /\ (t # i => dir'[t] = dir[t])
      BY <1>17, <3>1 DEF Place, TypeInv
    <3>4. CASE Installed = {}
      <4>1. Installed' = {i}
        BY <1>17, <3>1, <3>4 DEF Place, Installed, TypeInv
      <4> QED
        BY <1>17, <2>2, <3>1, <3>2, <3>3, <4>1, SMTT(30) DEF Place, Active, TypeInv, IdInv
    <3>5. CASE Installed # {}
      <4>1. Installed' = Installed
        BY <1>17, <3>1, <3>5 DEF Place, Installed, TypeInv
      <4>2. dir'[i].at = "inside"
        BY <1>17, <3>1, <3>5 DEF Place, TypeInv
      <4>3. command[i] = "place" /\ UNCHANGED <<call, past>>
        BY <1>17 DEF Place
      <4> QED
        <5>1. \A j \in Installs : command'[j] \in {"place", "done"} => command[j] \in {"place", "done"}
          BY <3>2, <4>3 DEF TypeInv
        <5>2. \A t \in Installs : dir'[t].at \in {"nowhere", "staging"} => dir[t].at = dir'[t].at
          BY <3>3, <4>2
        <5>3. \A t \in Installed : dir'[t].id = dir[t].id
          BY <3>3 DEF Installed
        <5> QED
          BY <2>2, <3>2, <3>3, <4>1, <4>3, <5>1, <5>2, <5>3 DEF IdInv
    <3> QED
      BY <3>4, <3>5
  <2> QED
    BY <2>1, <2>2
<1>18. CASE CommandDies(i)
  BY <1>18, InstallAssumption DEF CommandDies, Commands, Active, DoneCalls, Running, Installed,
          TypeInv, TrackedInv, CommandInv, IdInv
<1> QED
  BY <1>1, <1>2, <1>3, <1>4, <1>5, <1>6, <1>7, <1>8, <1>9,
     <1>10, <1>11, <1>12, <1>13, <1>14, <1>15, <1>16, <1>17, <1>18 DEF CallStep, CommandStep

(* What a command moves aside is replaced by the same command.             *)
LEMMA StepKept ==
  ASSUME TypeInv, TrackedInv, InstallIsKept, NEW i \in Installs, CallStep(i) \/ CommandStep(i)
  PROVE  InstallIsKept'
<1>1. CASE Probe(i)
  BY <1>1 DEF Probe, Goes, DoneCalls, Running, Installed, TypeInv, TrackedInv, CommandInv,
          InstallIsKept
<1>2. CASE CannotSend(i)
  BY <1>2 DEF CannotSend, Goes, DoneCalls, Running, Installed, TypeInv, TrackedInv, CommandInv,
          InstallIsKept
<1>3. CASE Upload(i)
  BY <1>3 DEF Upload, Goes, DoneCalls, Running, Installed, TypeInv, TrackedInv, CommandInv,
          InstallIsKept
<1>4. CASE Verify(i)
  BY <1>4 DEF Verify, Goes, Commands, Matches, DoneCalls, Running, Installed, TypeInv,
          TrackedInv, CommandInv, InstallIsKept
<1>5. CASE Answered(i)
  BY <1>5 DEF Answered, Goes, Cleaned, NoDir, DoneCalls, Running, Installed, TypeInv,
          TrackedInv, CommandInv, InstallIsKept
<1>6. CASE GiveUp(i)
  BY <1>6 DEF GiveUp, Goes, DoneCalls, Running, Installed, TypeInv, TrackedInv, CommandInv,
          InstallIsKept
<1>7. CASE Remove(i)
  BY <1>7 DEF Remove, Goes, Cleaned, NoDir, DoneCalls, Running, Installed, TypeInv, TrackedInv,
          CommandInv, InstallIsKept
<1>8. CASE SelfCheck(i)
  BY <1>8 DEF SelfCheck, Goes, DoneCalls, Running, Installed, TypeInv, TrackedInv, CommandInv,
          InstallIsKept
<1>9. CASE CannotCheck(i)
  BY <1>9 DEF CannotCheck, Goes, DoneCalls, Running, Installed, TypeInv, TrackedInv,
          CommandInv, InstallIsKept
<1>10. CASE RecordVerdict(i)
  BY <1>10 DEF RecordVerdict, Goes, DoneCalls, Running, Installed, TypeInv, TrackedInv,
          CommandInv, InstallIsKept
<1>11. CASE RecordId(i)
  BY <1>11 DEF RecordId, Goes, DoneCalls, Running, Installed, TypeInv, TrackedInv, CommandInv,
          InstallIsKept
<1>12. CASE CannotRecord(i)
  BY <1>12 DEF CannotRecord, Goes, DoneCalls, Running, Installed, TypeInv, TrackedInv,
          CommandInv, InstallIsKept
<1>13. CASE Unpack(i)
  BY <1>13 DEF Unpack, Commands, DoneCalls, Running, Installed, TypeInv, TrackedInv,
          CommandInv, InstallIsKept
<1>14. CASE CannotUnpack(i)
  BY <1>14 DEF CannotUnpack, Commands, DoneCalls, Running, Installed, TypeInv, TrackedInv,
          CommandInv, InstallIsKept
<1>15. CASE Test(i)
  BY <1>15 DEF Test, Commands, DoneCalls, Running, Installed, TypeInv, TrackedInv, CommandInv,
          InstallIsKept
<1>16. CASE Park(i)
  BY <1>16 DEF Park, Commands, DoneCalls, Running, Installed, TypeInv, TrackedInv, CommandInv,
          InstallIsKept
<1>17. CASE Place(i)
  BY <1>17 DEF Place, Commands, DoneCalls, Running, Installed, TypeInv, TrackedInv, CommandInv,
          InstallIsKept
<1>18. CASE CommandDies(i)
  BY <1>18 DEF CommandDies, Commands, DoneCalls, Running, Installed, TypeInv, TrackedInv,
          CommandInv, InstallIsKept
<1> QED
  BY <1>1, <1>2, <1>3, <1>4, <1>5, <1>6, <1>7, <1>8, <1>9,
     <1>10, <1>11, <1>12, <1>13, <1>14, <1>15, <1>16, <1>17, <1>18 DEF CallStep, CommandStep

-----------------------------------------------------------------------------
HostInv == TypeInv /\ TrackedInv /\ IdInv /\ InstallIsKept

LEMMA InitHost == Init => HostInv
  BY DEF Init, NoDir, HostInv, TypeInv, TrackedInv, CommandInv, IdInv, InstallIsKept, Active,
         Installed, Running, DoneCalls

LEMMA NextHost == HostInv /\ [Next]_vars => HostInv'
<1> SUFFICES ASSUME HostInv, [Next]_vars PROVE HostInv'
  OBVIOUS
<1>1. CASE UNCHANGED vars
  BY <1>1 DEF vars, HostInv, TypeInv, TrackedInv, CommandInv, IdInv, InstallIsKept, Active,
              Installed, Running
<1>2. CASE Next
  BY <1>2, StepTypes, StepTracked, StepId, StepKept DEF Next, HostInv
<1> QED
  BY <1>1, <1>2

(* The calls, commands and directories of installBundle keep their types.  *)
THEOREM HostTypeCorrect == Spec => []TypeInv
<1>1. HostInv => TypeInv
  BY DEF HostInv
<1> QED
  BY InitHost, NextHost, <1>1, PTL DEF Spec

(* The recorded bundle id is proof of the bundle that is there, however    *)
(* many calls install at once, unless rivals ship different bundles or a   *)
(* command outlives its call.                                              *)
THEOREM IdProves == Spec => []IdIsProof
<1>1. HostInv => IdIsProof
  BY DEF HostInv, TrackedInv, CommandInv, IdInv, IdIsProof, MarkersAreTrue, Installed
<1> QED
  BY InitHost, NextHost, <1>1, PTL DEF Spec

(* An install is replaced and never lost, unless a command is cut off      *)
(* between its renames or outlives its call.                               *)
THEOREM InstallKept == Spec => []InstallIsKept
<1>1. HostInv => InstallIsKept
  BY DEF HostInv
<1> QED
  BY InitHost, NextHost, <1>1, PTL DEF Spec
=============================================================================
