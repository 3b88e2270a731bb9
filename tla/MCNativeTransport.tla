------------------------- MODULE MCNativeTransport -------------------------
(***************************************************************************)
(* NativeTransport for TLC, on both kinds of build: Hatari's prompt on     *)
(* stdout, as in NativeTransport itself, or on stderr.                     *)
(***************************************************************************)
EXTENDS NativeTransportInv

VARIABLE build

OnStderr == INSTANCE NativeTransport WITH PromptOnStderr <- TRUE

ASSUME StdoutAssumption == ~PromptOnStderr

MCInit == Init /\ build \in {"stdout", "stderr"}

MCNext ==
  /\ UNCHANGED build
  /\ \/ build = "stdout" /\ Next
     \/ build = "stderr" /\ OnStderr!Next

(* Liveness is only claimed of the stdout build.                            *)
MCFairSpec == MCInit /\ [][MCNext]_<<vars, build>> /\ (build = "stdout" => Fairness)

-----------------------------------------------------------------------------
(* NativeTransport: what the host takes for a stop is one, when the prompt  *)
(* comes on stdout; on stderr a line written after a prompt hides it.      *)
StopsAreKnown == build = "stdout" => StopViewIsTrue

(* NativeTransport: the session of a stdout build never stalls.             *)
StdoutNeverStalls == build = "stdout" => SessionNeverStalls
=============================================================================
