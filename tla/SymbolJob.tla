----------------------------- MODULE SymbolJob -----------------------------
(***************************************************************************)
(* What a run of the tool promises to the person who starts it (README.md, *)
(* "Well done! ... Then a symbol file /path/to/binary/xxx.symbol will be   *)
(* created"), without its intermediate steps: a run replaces the symbol    *)
(* file beside its binary, first by something unusable and then by an      *)
(* image made from nothing but the slice it was asked for, and it reports  *)
(* success only while that image is there, or (the one thing the tool does *)
(* not notice) the beginning of it.  Runs may fail or die anywhere.        *)
(***************************************************************************)
CONSTANTS
  Runs,         \* invocations of the tool
  Requests,     \* what a run can be asked for
  Files,        \* the symbol files
  FileOf(_),    \* the symbol file a request is for
  ImagesOf(_),  \* the images that are right for a request
  CutsOf(_),    \* what may be left of them when the disk is full
  NoFile,       \* the symbol file does not exist
  Torn          \* it is being written, or its writer died

VARIABLES
  request,      \* what each run is asked for
  status,       \* "new", "running", "ok", "failed", for each run
  output        \* the contents of each symbol file

Init ==
  /\ request \in [Runs -> Requests]
  /\ status = [r \in Runs |-> "new"]
  /\ output = [f \in Files |-> NoFile]

Start(r) ==
  /\ status[r] = "new"
  /\ status' = [status EXCEPT ![r] = "running"]
  /\ UNCHANGED <<request, output>>

Truncate(r) ==
  /\ status[r] = "running"
  /\ output' = [output EXCEPT ![FileOf(request[r])] = Torn]
  /\ UNCHANGED <<request, status>>

(* The last byte is written and the run reports success. *)
Publish(r) ==
  /\ status[r] = "running"
  /\ output[FileOf(request[r])] = Torn
  /\ \E image \in ImagesOf(request[r]) :
       output' = [output EXCEPT ![FileOf(request[r])] = image]
  /\ status' = [status EXCEPT ![r] = "ok"]
  /\ UNCHANGED request

(* The run reports success, and the end of its image got lost. *)
PublishCut(r) ==
  /\ status[r] = "running"
  /\ output[FileOf(request[r])] = Torn
  /\ \E beginning \in CutsOf(request[r]) :
       output' = [output EXCEPT ![FileOf(request[r])] = beginning]
  /\ status' = [status EXCEPT ![r] = "ok"]
  /\ UNCHANGED request

Fail(r) ==
  /\ status[r] \in {"new", "running"}
  /\ status' = [status EXCEPT ![r] = "failed"]
  /\ UNCHANGED <<request, output>>

Next ==
  \E r \in Runs :
    Start(r) \/ Truncate(r) \/ Publish(r) \/ PublishCut(r) \/ Fail(r)

Spec == Init /\ [][Next]_<<request, status, output>>
=============================================================================
